-------------------------- MODULE ApplicationProofs --------------------------
(***************************************************************************)
(* What holds of the parts of Application for all values of its constants: *)
(* requests are served by their company, clients are told what happened,   *)
(* images keep their files, products their primary images, scans find      *)
(* products, a quotation becomes one order, and stock is worth what was    *)
(* paid for it.  TenantProofs and UserProofs have what holds of tenants    *)
(* and users.                                                              *)
(*                                                                         *)
(* In each step one part works and the others stutter, so an invariant of  *)
(* a part is shown over the steps of that part alone.                      *)
(***************************************************************************)
EXTENDS TenantProofs, UserProofs

\* A step of the application is a step of the part or leaves its variables alone.
LEMMA RequestStep ==
  ASSUME [Next]_vars
  PROVE  part' = part /\ ((part = "requests" /\ Requests!Next) \/ UNCHANGED requestVars)
BY DEF Next, vars, requestVars

\* A step of the application is a step of the part or leaves its variables alone.
LEMMA CatalogueStep ==
  ASSUME [Next]_vars
  PROVE  Catalogue!Next \/ UNCHANGED catalogueVars
BY DEF Next, vars, catalogueVars

\* A step of the application is a step of the part or leaves its variables alone.
LEMMA QuotationStep ==
  ASSUME [Next]_vars
  PROVE  Quotations!Next \/ UNCHANGED quotationVars
BY DEF Next, vars, quotationVars

-----------------------------------------------------------------------------
(* Requests.                                                               *)

\* The company of a request that has passed the guards, or passes a public route.
GuardedCompany ==
  /\ ~request.route.public => request.token # None /\ schema = request.token.company
  /\ request.route.public /\ request.header # None => schema = request.header

Stopped == {"no token", "no company", "no permission"}

(***************************************************************************)
(* ServedByItsCompany with what holds on the way to the handler: the       *)
(* middleware leaves the company of the header, if there is one, and only  *)
(* JwtAuthGuard replaces it.                                               *)
(***************************************************************************)
RequestInv ==
  /\ part # "requests" => at = "middleware"
  /\ part = "requests" => request \in HttpRequest
  /\ schema \in Active \union {None}
  /\ at = "authenticate" /\ request.header # None => schema = request.header
  /\ at \in {"authorize", "handler"} => GuardedCompany
  /\ at = "answered" /\ result \notin Stopped => GuardedCompany

\* The company that a handler works in, at the beginning and after each step.
LEMMA RequestInvariant == Spec => []RequestInv
<1>1. Init => RequestInv
  BY DEF Init, Requests!Init, Requests!Begin, RequestInv
<1>2. ASSUME RequestInv, [Next]_vars  PROVE RequestInv'
  <2>1. CASE UNCHANGED <<part, requestVars>>
    BY <1>2, <2>1 DEF RequestInv, requestVars, GuardedCompany
  <2>2. CASE part' = part /\ part = "requests" /\ Requests!Next
    <3>1. request \in HttpRequest
      BY <1>2, <2>2 DEF RequestInv
    <3>2. /\ request.body \in Active \union {None}
          /\ request.token # None => request.token.company \in Active
      BY <3>1, ApplicationAssumption DEF Requests!RequestsAssumption
    <3>3. CASE Requests!Use
      <4>1. request' = request /\ at = "middleware"
        BY <3>3 DEF Requests!Use, Requests!Reply, Requests!To
      <4>2. CASE request.header \notin Active \union {None}
        <5>1. at' = "answered" /\ result' = "no company" /\ schema' = schema
          BY <3>3, <4>2 DEF Requests!Use, Requests!Reply
        <5> QED
          BY <1>2, <2>2, <4>1, <5>1 DEF RequestInv, Stopped
      <4>3. CASE request.header \in Active \union {None}
        <5>1. at' = "authenticate" /\ schema' = Requests!Named
          BY <3>3, <4>3 DEF Requests!Use, Requests!To
        <5>2. Requests!Named \in Active \union {None}
          BY <3>2, <4>3 DEF Requests!Named
        <5>3. request.header # None => Requests!Named = request.header
          BY DEF Requests!Named
        <5> QED
          BY <1>2, <2>2, <4>1, <5>1, <5>2, <5>3 DEF RequestInv
      <4> QED
        BY <4>2, <4>3
    <3>4. CASE Requests!Authenticate
      <4>1. request' = request /\ at = "authenticate"
        BY <3>4 DEF Requests!Authenticate, Requests!Reply, Requests!To
      <4>2. CASE request.route.public
        <5>1. at' = "authorize" /\ schema' = schema
          BY <3>4, <4>2 DEF Requests!Authenticate, Requests!To
        <5> QED
          BY <1>2, <2>2, <4>1, <4>2, <5>1 DEF RequestInv, GuardedCompany
      <4>3. CASE ~request.route.public /\ request.token = None
        <5>1. at' = "answered" /\ result' = "no token" /\ schema' = schema
          BY <3>4, <4>3 DEF Requests!Authenticate, Requests!Authenticated, Requests!Reply
        <5> QED
          BY <1>2, <2>2, <4>1, <5>1 DEF RequestInv, Stopped
      <4>4. CASE ~request.route.public /\ request.token # None
        <5>1. at' = "authorize" /\ schema' = request.token.company
          BY <3>4, <4>4 DEF Requests!Authenticate, Requests!Authenticated, Requests!To
        <5> QED
          BY <1>2, <2>2, <3>2, <4>1, <4>4, <5>1 DEF RequestInv, GuardedCompany
      <4> QED
        BY <4>2, <4>3, <4>4
    <3>5. CASE Requests!Authorize
      <4>1. /\ at = "authorize" /\ UNCHANGED <<request, schema>>
            /\ at' = "handler" \/ (at' = "answered" /\ result' = "no permission")
        BY <3>5 DEF Requests!Authorize, Requests!Reply, Requests!To
      <4>2. GuardedCompany' /\ schema \in Active \union {None}
        BY <1>2, <4>1 DEF RequestInv, GuardedCompany
      <4> QED
        BY <2>2, <3>1, <4>1, <4>2 DEF RequestInv
    <3>6. CASE Requests!Handle
      <4>1. /\ at = "handler" /\ at' = "answered" /\ UNCHANGED <<request, schema>>
        BY <3>6 DEF Requests!Handle, Requests!Reply
      <4>2. GuardedCompany' /\ schema \in Active \union {None}
        BY <1>2, <4>1 DEF RequestInv, GuardedCompany
      <4> QED
        BY <2>2, <3>1, <4>1, <4>2 DEF RequestInv
    <3> QED
      BY <2>2, <3>3, <3>4, <3>5, <3>6 DEF Requests!Next
  <2> QED
    BY <1>2, <2>1, <2>2, RequestStep
<1> QED
  BY <1>1, <1>2, PTL DEF Spec

(***************************************************************************)
(* Every handler works in the company of the access token, and without one *)
(* in the company of the header, whatever the request names besides        *)
(* (tenant-context.middleware.ts, jwt-auth.guard.ts).                      *)
(***************************************************************************)
THEOREM HandlersKeepToTheirCompany == Spec => []ServedByItsCompany
<1>1. RequestInv => ServedByItsCompany
  BY DEF RequestInv, ServedByItsCompany, Requests!ServedByItsCompany, GuardedCompany, Stopped
<1> QED
  BY <1>1, RequestInvariant, PTL

-----------------------------------------------------------------------------
(* Images.                                                                 *)

IsImage(i) == TableOf[i] = "product_images"
Uploads    == {r \in RowRequest : Catalogue!Op(r) = "upload"}

\* An upload stores its file first, and its row is not there before it is done.
UploadInv(u) ==
  /\ IsImage(Catalogue!Id(u))
  /\ rowPc[u] # "done" => Catalogue!Id(u) \notin DOMAIN rows
  /\ rowPc[u] \in {"unset", "set"} => Catalogue!Id(u) \in files

\* Nobody removes an image before it is there, and the row is gone before the file.
RemovalInv(r) ==
  /\ rowPc[r] \in {"write", "unlink"} =>
       \A u \in Uploads : Catalogue!Id(u) = Catalogue!Id(r) => rowPc[u] = "done"
  /\ rowPc[r] = "unlink" => IsImage(Catalogue!Id(r)) /\ Catalogue!Id(r) \notin DOMAIN rows

ImageInv ==
  /\ DOMAIN rowPc = RowRequest
  /\ ImagesHaveFiles
  /\ \A u \in Uploads : UploadInv(u)
  /\ \A r \in RowRequest : RemovalInv(r)

\* r goes from a step before its last one to l.
Goes(r, l) == rowPc[r] # "done" /\ rowPc' = [rowPc EXCEPT ![r] = l]

\* A step that stores or removes other rows than images, or none, and no file.
LEMMA QuietImages ==
  ASSUME ImageInv, NEW r \in RowRequest, NEW l, Goes(r, l),
         l \notin {"write", "unlink", "unset", "set"}, files' = files,
         \A i \in DOMAIN rows' : i \in DOMAIN rows \/ ~IsImage(i)
  PROVE  ImageInv'
<1>1. DOMAIN rowPc' = RowRequest /\ ImagesHaveFiles'
  BY DEF ImageInv, Goes, ImagesHaveFiles, Catalogue!ImagesHaveFiles, IsImage
<1>2. ASSUME NEW u \in Uploads  PROVE UploadInv(u)'
  BY <1>2 DEF ImageInv, Goes, UploadInv, Uploads
<1>3. ASSUME NEW q \in RowRequest  PROVE RemovalInv(q)'
  BY <1>3 DEF ImageInv, Goes, RemovalInv, Uploads
<1> QED
  BY <1>1, <1>2, <1>3 DEF ImageInv

\* A step of an upload, whose file is there, or of a change of the primary image.
LEMMA MarkStep ==
  ASSUME ImageInv, NEW r \in RowRequest, NEW l, Goes(r, l), l \in {"unset", "set"},
         files \subseteq files', r \in Uploads => Catalogue!Id(r) \in files',
         DOMAIN rows' = DOMAIN rows
  PROVE  ImageInv'
<1>1. DOMAIN rowPc' = RowRequest /\ ImagesHaveFiles'
  BY DEF ImageInv, Goes, ImagesHaveFiles, Catalogue!ImagesHaveFiles, IsImage
<1>2. ASSUME NEW u \in Uploads  PROVE UploadInv(u)'
  BY <1>2 DEF ImageInv, Goes, UploadInv, Uploads
<1>3. ASSUME NEW q \in RowRequest  PROVE RemovalInv(q)'
  BY <1>3 DEF ImageInv, Goes, RemovalInv, Uploads
<1> QED
  BY <1>1, <1>2, <1>3 DEF ImageInv

\* Every step of a request on the catalogue keeps the invariant.
LEMMA ImageStep ==
  ASSUME ImageInv, NEW r \in RowRequest, Catalogue!Step(r) \/ Catalogue!Fail(r)
  PROVE  ImageInv'
<1> DEFINE id == Catalogue!Id(r)
<1>1. /\ \A u \in Uploads : UploadInv(u)
      /\ \A q \in RowRequest : RemovalInv(q)
      /\ ImagesHaveFiles /\ DOMAIN rowPc = RowRequest
  BY DEF ImageInv
<1>2. CASE Catalogue!GetOwned(r)
  <2>1. PICK l : /\ Goes(r, l) /\ rows' = rows /\ files' = files
                 /\ l \in {"unset", "write", "done"}
                 /\ l = "write" => id \in DOMAIN rows
    BY <1>2 DEF Catalogue!GetOwned, Catalogue!Goto, Catalogue!Finish, Goes
  <2>2. r \notin Uploads
    BY <1>2 DEF Catalogue!GetOwned, Uploads
  <2>3. CASE l = "write"
    <3>1. DOMAIN rowPc' = RowRequest /\ ImagesHaveFiles'
      BY <1>1, <2>1 DEF Goes, ImagesHaveFiles, Catalogue!ImagesHaveFiles
    <3>2. ASSUME NEW u \in Uploads  PROVE UploadInv(u)'
      BY <1>1, <2>1, <2>2, <2>3, <3>2 DEF Goes, UploadInv, Uploads
    <3>3. ASSUME NEW q \in RowRequest  PROVE RemovalInv(q)'
      BY <1>1, <2>1, <2>2, <2>3, <3>3 DEF Goes, UploadInv, RemovalInv, Uploads
    <3> QED
      BY <3>1, <3>2, <3>3 DEF ImageInv
  <2>4. CASE l = "unset"
    <3>1. files \subseteq files' /\ DOMAIN rows' = DOMAIN rows
      BY <2>1
    <3> QED
      BY <2>1, <2>2, <2>4, <3>1, MarkStep
  <2>5. CASE l = "done"
    <3>1. Goes(r, "done") /\ files' = files /\ DOMAIN rows' \subseteq DOMAIN rows
      BY <2>1, <2>5
    <3> QED
      BY <3>1, QuietImages
  <2> QED
    BY <2>1, <2>3, <2>4, <2>5
<1>3. CASE Catalogue!Create(r)
  <2>1. Goes(r, "done") /\ files' = files
    BY <1>3 DEF Catalogue!Create, Catalogue!Ready, Catalogue!Finish, Goes
  <2>2. Catalogue!Op(r) = "create"
    BY <1>3 DEF Catalogue!Create, Catalogue!Ready
  <2>3. ~IsImage(id)
    BY <2>2, ApplicationAssumption DEF Catalogue!CatalogueAssumption, Catalogue!RowsAssumption,
      Catalogue!CallAssumption, IsImage, Catalogue!Op, Catalogue!Id
  <2>4. DOMAIN rows' \subseteq DOMAIN rows \union {id}
    BY <1>3 DEF Catalogue!Create, Catalogue!Put
  <2> QED
    BY <2>1, <2>3, <2>4, QuietImages
<1>4. CASE Catalogue!Update(r)
  <2>1. Goes(r, "done") /\ files' = files
    BY <1>4 DEF Catalogue!Update, Catalogue!Ready, Catalogue!Finish, Goes
  <2>2. DOMAIN rows' \subseteq DOMAIN rows
    BY <1>4 DEF Catalogue!Update, Catalogue!Put
  <2> QED
    BY <2>1, <2>2, QuietImages
<1>5. CASE Catalogue!RemoveImage(r)
  <2>1. /\ rowPc[r] = "write" /\ Goes(r, "unlink") /\ files' = files
        /\ DOMAIN rows' = DOMAIN rows \ {id} /\ IsImage(id)
    BY <1>5 DEF Catalogue!RemoveImage, Catalogue!Ready, Catalogue!Goto, Catalogue!Without, Goes,
      IsImage, Catalogue!Table, Catalogue!Parts
  <2>2. DOMAIN rowPc' = RowRequest /\ ImagesHaveFiles'
    BY <1>1, <2>1 DEF Goes, ImagesHaveFiles, Catalogue!ImagesHaveFiles
  <2>3. ASSUME NEW u \in Uploads  PROVE UploadInv(u)'
    BY <1>1, <2>1, <2>3 DEF Goes, UploadInv, Uploads
  <2>4. ASSUME NEW q \in RowRequest  PROVE RemovalInv(q)'
    BY <1>1, <2>1, <2>4 DEF Goes, RemovalInv, Uploads
  <2> QED
    BY <2>2, <2>3, <2>4 DEF ImageInv
<1>6. CASE Catalogue!Unlink(r)
  <2>1. /\ rowPc[r] = "unlink" /\ Goes(r, "done") /\ files' = files \ {id} /\ rows' = rows
    BY <1>6 DEF Catalogue!Unlink, Catalogue!Finish, Goes
  <2>2. id \notin DOMAIN rows
    BY <1>1, <2>1 DEF RemovalInv
  <2>3. DOMAIN rowPc' = RowRequest /\ ImagesHaveFiles'
    BY <1>1, <2>1, <2>2 DEF Goes, ImagesHaveFiles, Catalogue!ImagesHaveFiles
  <2>4. ASSUME NEW u \in Uploads  PROVE UploadInv(u)'
    BY <1>1, <2>1, <2>4 DEF Goes, UploadInv, RemovalInv, Uploads
  <2>5. ASSUME NEW q \in RowRequest  PROVE RemovalInv(q)'
    BY <1>1, <2>1, <2>5 DEF Goes, RemovalInv, Uploads
  <2> QED
    BY <2>3, <2>4, <2>5 DEF ImageInv
<1>7. CASE Catalogue!Remove(r)
  <2>1. Goes(r, "done") /\ files' = files
    BY <1>7 DEF Catalogue!Remove, Catalogue!Ready, Catalogue!Finish, Goes
  <2>2. DOMAIN rows' \subseteq DOMAIN rows
    BY <1>7 DEF Catalogue!Remove, Catalogue!Without
  <2> QED
    BY <2>1, <2>2, QuietImages
<1>8. CASE Catalogue!Upload(r)
  <2>1. PICK l : Goes(r, l) /\ l \in {"unset", "set"} /\ files' = files \union {id} /\ rows' = rows
    BY <1>8 DEF Catalogue!Upload, Catalogue!Goto, Goes
  <2> QED
    BY <2>1, MarkStep
<1>9. CASE Catalogue!UnsetPrimaryForProduct(r)
  <2>1. /\ rowPc[r] = "unset" /\ Goes(r, "set") /\ files' = files /\ DOMAIN rows' = DOMAIN rows
    BY <1>9 DEF Catalogue!UnsetPrimaryForProduct, Catalogue!Goto, Catalogue!Unset, Goes
  <2>2. r \in Uploads => id \in files'
    BY <1>1, <2>1 DEF UploadInv
  <2> QED
    BY <2>1, <2>2, MarkStep
<1>10. CASE Catalogue!SetPrimary(r)
  <2>1. /\ rowPc[r] = "set" /\ Goes(r, "done") /\ files' = files
        /\ DOMAIN rows \subseteq DOMAIN rows' /\ DOMAIN rows' \subseteq DOMAIN rows \union {id}
    BY <1>10 DEF Catalogue!SetPrimary, Catalogue!Finish, Catalogue!Put, Goes
  <2>2. CASE r \notin Uploads
    <3>1. DOMAIN rows' = DOMAIN rows
      BY <1>10, <2>1, <2>2 DEF Catalogue!SetPrimary, Catalogue!Put, Uploads
    <3> QED
      BY <2>1, <3>1, QuietImages
  <2>3. CASE r \in Uploads
    <3>1. UploadInv(r) /\ id \in files
      BY <1>1, <2>1, <2>3 DEF UploadInv
    <3>2. \A u \in Uploads : u # r => Catalogue!Id(u) # id
      BY <2>3, ApplicationAssumption DEF Catalogue!CatalogueAssumption, Catalogue!RowsAssumption,
        Catalogue!CallAssumption, Uploads, Catalogue!Op, Catalogue!Id
    <3>3. DOMAIN rowPc' = RowRequest /\ ImagesHaveFiles'
      BY <1>1, <2>1, <3>1 DEF Goes, ImagesHaveFiles, Catalogue!ImagesHaveFiles
    <3>4. ASSUME NEW u \in Uploads  PROVE UploadInv(u)'
      BY <1>1, <2>1, <3>1, <3>2, <3>4 DEF Goes, UploadInv, Uploads
    <3>5. ASSUME NEW q \in RowRequest  PROVE RemovalInv(q)'
      BY <1>1, <2>1, <2>3, <3>1, <3>5 DEF Goes, RemovalInv, Uploads
    <3> QED
      BY <3>3, <3>4, <3>5 DEF ImageInv
  <2> QED
    BY <2>2, <2>3
<1>11. CASE Catalogue!FindDirect(r) \/ Catalogue!FindByUnit(r) \/ Catalogue!FindAdditional(r)
            \/ Catalogue!GetById(r) \/ Catalogue!Fail(r)
  <2>1. PICK l : Goes(r, l) /\ l \notin {"write", "unlink", "unset", "set"}
    BY <1>11 DEF Catalogue!FindDirect, Catalogue!FindByUnit, Catalogue!FindAdditional,
      Catalogue!GetById, Catalogue!Fail, Catalogue!UnderWay, Catalogue!Look, Catalogue!Goto,
      Catalogue!Finish, Goes
  <2>2. UNCHANGED <<rows, files>>
    BY <1>11 DEF Catalogue!FindDirect, Catalogue!FindByUnit, Catalogue!FindAdditional,
      Catalogue!GetById, Catalogue!Fail
  <2> QED
    BY <2>1, <2>2, QuietImages
<1> QED
  BY <1>2, <1>3, <1>4, <1>5, <1>6, <1>7, <1>8, <1>9, <1>10, <1>11 DEF Catalogue!Step

\* Files come before their rows and go after them, at the beginning and after each step.
LEMMA ImageInvariant == Spec => []ImageInv
<1>1. Init => ImageInv
  <2> SUFFICES ASSUME Init  PROVE ImageInv
    OBVIOUS
  <2>1. PICK w : Catalogue!Begin(w)
    BY DEF Init, Catalogue!Init
  <2>2. ASSUME NEW u \in Uploads  PROVE UploadInv(u)
    <3>1. IsImage(Catalogue!Id(u)) /\ Catalogue!Id(u) \notin DOMAIN InitialRows
      BY ApplicationAssumption DEF Catalogue!CatalogueAssumption, Catalogue!RowsAssumption,
        Catalogue!CallAssumption, Uploads, Catalogue!Op, Catalogue!Id, IsImage
    <3> QED
      BY <2>1, <3>1 DEF Catalogue!Begin, UploadInv, Uploads
  <2>3. ASSUME NEW r \in RowRequest  PROVE RemovalInv(r)
    BY <2>1, <2>3 DEF Catalogue!Begin, RemovalInv
  <2>4. DOMAIN rowPc = RowRequest /\ ImagesHaveFiles
    BY <2>1 DEF Catalogue!Begin, ImagesHaveFiles, Catalogue!ImagesHaveFiles
  <2> QED
    BY <2>2, <2>3, <2>4 DEF ImageInv
<1>2. ASSUME ImageInv, [Next]_vars  PROVE ImageInv'
  <2>1. CASE UNCHANGED catalogueVars
    BY <1>2, <2>1 DEF ImageInv, UploadInv, RemovalInv, ImagesHaveFiles, Catalogue!ImagesHaveFiles,
      catalogueVars
  <2>2. CASE Catalogue!Next
    BY <1>2, <2>2, ImageStep DEF Catalogue!Next
  <2> QED
    BY <1>2, <2>1, <2>2, CatalogueStep
<1> QED
  BY <1>1, <1>2, PTL DEF Spec

(***************************************************************************)
(* The file of every image row is there, however uploads, removals and     *)
(* changes of the primary image overlap and wherever they stop             *)
(* (product-images.service.ts upload and remove).                          *)
(***************************************************************************)
THEOREM EveryImageHasItsFile == Spec => []ImagesHaveFiles
<1>1. ImageInv => ImagesHaveFiles
  BY DEF ImageInv
<1> QED
  BY <1>1, ImageInvariant, PTL

-----------------------------------------------------------------------------
(* Quotations.                                                             *)

Writing(r, q)  == r \in QuotationRequest /\ OnQuotation[r] = q /\ quotationPc[r] = "write"
OrdersOf(q)    == Quotations!OrdersOf(q)
WasAccepted(q) ==
  \E r \in QuotationRequest : OnQuotation[r] = q /\ QuotationOp[r] = "accept" /\ quotationReply[r] = 200
WasSent(q)     == status[q] \notin {"absent", "draft", "deleted"}

\* Also if requests overlap: what was sent is no draft again, and only what was accepted is converted.
ForwardInv(q) ==
  /\ status[q] \in {"accepted", "converted"} => WasAccepted(q)
  /\ OrdersOf(q) # {} => WasSent(q) /\ WasAccepted(q)

\* Without overlap, what a request has read still holds when it writes, and the order is where the status says.
AloneInv(q) ==
  q \notin overlapped =>
    /\ \A r, t : Writing(r, q) /\ Writing(t, q) => r = t
    /\ \A r : Writing(r, q) => status[q] = Quotations!From(QuotationOp[r])
    /\ IF status[q] = "converted" THEN \E r : OrdersOf(q) = {r} ELSE OrdersOf(q) = {}

\* What a request has done so far.
QuotationProgress(r) ==
  /\ quotationReply[r] # 0 => quotationPc[r] = "done"
  /\ r \in orders => quotationPc[r] = "done"
  /\ quotationPc[r] = "write" =>
       /\ QuotationOp[r] \in {"send", "accept", "reject", "convertToSalesOrder"}
       /\ QuotationOp[r] # "send" => WasSent(OnQuotation[r])
       /\ QuotationOp[r] = "convertToSalesOrder" => WasAccepted(OnQuotation[r])

(***************************************************************************)
(* OneOrderPerQuotation says nothing of a request between its SELECT and   *)
(* its UPDATE; the parts above do, for one that overlaps and for one that  *)
(* does not.                                                               *)
(***************************************************************************)
QuotationInv ==
  /\ DOMAIN status = Quotation
  /\ DOMAIN quotationPc = QuotationRequest /\ DOMAIN quotationReply = QuotationRequest
  /\ orders \subseteq QuotationRequest
  /\ \A q \in Quotation : ForwardInv(q) /\ AloneInv(q)
  /\ \A r \in QuotationRequest : QuotationProgress(r)

\* QuotationsService has no rule for success, so the client of an accepted quotation is told 200.
LEMMA AcceptAnswer == Quotations!Answer("quotations", "accept", "ok") = 200
<1>1. Quotations!Service["quotations"] = Quotations!QuotationsService
  BY DEF Quotations!Service
<1>2. \A rule \in Quotations!QuotationsService : rule.result # "ok"
  BY DEF Quotations!QuotationsService, Quotations!DocumentRules, Quotations!LookupRules,
    Quotations!Rules
<1>3. Quotations!Filter("ok") = 200
  BY DEF Quotations!Filter
<1> QED
  BY <1>1, <1>2, <1>3 DEF Quotations!Answer

\* r goes to l; only its quotation, its reply and its order change.
QuotationActs(r, l) ==
  /\ quotationPc[r] \in {"start", "write"} /\ quotationPc' = [quotationPc EXCEPT ![r] = l]
  /\ DOMAIN quotationReply' = QuotationRequest
  /\ \A t \in QuotationRequest \ {r} : quotationReply'[t] = quotationReply[t]
  /\ l = "write" => quotationReply'[r] = quotationReply[r]
  /\ DOMAIN status' = Quotation
  /\ \A q \in Quotation \ {OnQuotation[r]} : status'[q] = status[q]
  /\ orders \subseteq orders' /\ orders' \subseteq orders \union {r}
  /\ overlapped \subseteq overlapped' /\ overlapped' \subseteq overlapped \union {OnQuotation[r]}

\* An accepted quotation stays accepted for the client: nobody is answered twice.
LEMMA AcceptedIsKept ==
  ASSUME QuotationInv, NEW r \in QuotationRequest, NEW l, QuotationActs(r, l), NEW q, WasAccepted(q)
  PROVE  WasAccepted(q)'
<1>1. quotationReply[r] = 0
  BY DEF QuotationInv, QuotationProgress, QuotationActs
<1> QED
  BY <1>1 DEF WasAccepted, QuotationActs

\* A step keeps the invariant if it does for the quotation and the request that take it.
LEMMA QuotationStepKeeps ==
  ASSUME QuotationInv, NEW r \in QuotationRequest, NEW l, QuotationActs(r, l),
         WasSent(OnQuotation[r]) => WasSent(OnQuotation[r])',
         ForwardInv(OnQuotation[r])', AloneInv(OnQuotation[r])', QuotationProgress(r)'
  PROVE  QuotationInv'
<1> DEFINE own == OnQuotation[r]
<1>1. ASSUME NEW q \in Quotation, q # own  PROVE ForwardInv(q)' /\ AloneInv(q)'
  <2>1. OrdersOf(q)' = OrdersOf(q) /\ status'[q] = status[q] /\ (q \in overlapped' <=> q \in overlapped)
    BY <1>1 DEF QuotationActs, OrdersOf, Quotations!OrdersOf
  <2>2. ForwardInv(q) /\ AloneInv(q)
    BY DEF QuotationInv
  <2>3. ForwardInv(q)'
    BY <2>1, <2>2, AcceptedIsKept DEF ForwardInv, WasSent
  <2>4. \A t : Writing(t, q)' => Writing(t, q)
    BY <1>1 DEF QuotationActs, Writing, QuotationInv
  <2>5. AloneInv(q)'
    BY <2>1, <2>2, <2>4 DEF AloneInv
  <2> QED
    BY <2>3, <2>5
<1>2. ASSUME NEW t \in QuotationRequest, t # r  PROVE QuotationProgress(t)'
  <2>1. QuotationProgress(t) /\ OnQuotation[t] \in Quotation
    BY ApplicationAssumption DEF QuotationInv, Quotations!QuotationAssumption
  <2>2. /\ quotationPc'[t] = quotationPc[t] /\ quotationReply'[t] = quotationReply[t]
        /\ t \in orders' => t \in orders
    BY <1>2 DEF QuotationActs, QuotationInv
  <2>3. WasSent(OnQuotation[t]) => WasSent(OnQuotation[t])'
    BY <2>1 DEF QuotationActs, WasSent
  <2>4. WasAccepted(OnQuotation[t]) => WasAccepted(OnQuotation[t])'
    BY AcceptedIsKept
  <2> QED
    BY <2>1, <2>2, <2>3, <2>4 DEF QuotationProgress
<1>3. /\ DOMAIN status' = Quotation /\ orders' \subseteq QuotationRequest
      /\ DOMAIN quotationPc' = QuotationRequest /\ DOMAIN quotationReply' = QuotationRequest
  BY DEF QuotationInv, QuotationActs
<1> QED
  BY <1>1, <1>2, <1>3 DEF QuotationInv

\* Every step on a quotation keeps the invariant.
LEMMA RequestKeeps ==
  ASSUME QuotationInv, NEW r \in QuotationRequest, Quotations!Step(r) \/ Quotations!Fail(r)
  PROVE  QuotationInv'
<1> DEFINE q == OnQuotation[r]
<1>1. /\ q \in Quotation /\ ForwardInv(q) /\ AloneInv(q) /\ QuotationProgress(r)
      /\ DOMAIN status = Quotation /\ DOMAIN quotationReply = QuotationRequest
      /\ DOMAIN quotationPc = QuotationRequest
  BY ApplicationAssumption DEF QuotationInv, Quotations!QuotationAssumption
<1>2. \A l : QuotationActs(r, l) /\ WasAccepted(q) => WasAccepted(q)'
  BY AcceptedIsKept
<1>3. CASE Quotations!CreateWithLines(r)
  <2>1. /\ QuotationActs(r, "done") /\ UNCHANGED <<orders, overlapped>>
        /\ status[q] = "absent" /\ status'[q] = "draft"
    BY <1>1, <1>3 DEF Quotations!CreateWithLines, Quotations!SetStatus, Quotations!Finish, QuotationActs
  <2>2. OrdersOf(q)' = OrdersOf(q) /\ OrdersOf(q) = {} /\ ~WasSent(q)
    BY <1>1, <2>1 DEF ForwardInv, WasSent, OrdersOf, Quotations!OrdersOf
  <2>3. ForwardInv(q)'
    BY <2>1, <2>2 DEF ForwardInv
  <2>4. q \notin overlapped => \A t : ~Writing(t, q)
    BY <1>1, <2>1 DEF AloneInv, Quotations!From, QuotationInv, QuotationProgress, Writing
  <2>5. AloneInv(q)'
    BY <1>1, <2>1, <2>2, <2>4 DEF AloneInv, Writing, QuotationActs
  <2>6. QuotationProgress(r)'
    BY <1>1, <2>1 DEF QuotationProgress, QuotationActs
  <2> QED
    BY <2>1, <2>2, <2>3, <2>5, <2>6, QuotationStepKeeps
<1>4. CASE Quotations!Check(r)
  <2>1. PICK l : QuotationActs(r, l) /\ l \in {"write", "done"}
    BY <1>1, <1>4 DEF Quotations!Check, Quotations!Finish, Quotations!Begins, QuotationActs
  <2>2. /\ UNCHANGED <<status, orders>> /\ quotationPc[r] = "start"
        /\ (l = "write" => /\ status[q] = Quotations!From(QuotationOp[r])
                          /\ QuotationOp[r] \notin {"create", "delete"})
        /\ q \notin overlapped' => q \notin overlapped /\ \A t : ~Writing(t, q)
    BY <1>1, <1>4, <2>1 DEF Quotations!Check, Quotations!Finish, Quotations!Begins, QuotationActs, Writing
  <2>3. OrdersOf(q)' = OrdersOf(q)
    BY <2>2 DEF OrdersOf, Quotations!OrdersOf
  <2>4. ForwardInv(q)'
    BY <1>1, <1>2, <2>1, <2>2, <2>3 DEF ForwardInv, WasSent
  <2>5. AloneInv(q)'
    <3>1. q \notin overlapped' => \A t : Writing(t, q)' => t = r /\ l = "write"
      BY <1>1, <2>1, <2>2 DEF QuotationActs, Writing
    <3> QED
      BY <1>1, <2>2, <2>3, <3>1 DEF AloneInv
  <2>6. QuotationProgress(r)'
    <3>1. r \notin orders /\ quotationReply[r] = 0
      BY <1>1, <2>2 DEF QuotationProgress
    <3>2. QuotationOp[r] \in {"create", "send", "accept", "reject", "convertToSalesOrder", "delete"}
      BY ApplicationAssumption DEF Quotations!QuotationAssumption
    <3>3. l = "write" /\ QuotationOp[r] # "send" => WasSent(q)
      BY <2>2, <3>2 DEF Quotations!From, WasSent
    <3>4. l = "write" /\ QuotationOp[r] = "convertToSalesOrder" => WasAccepted(q)
      BY <1>1, <2>2 DEF Quotations!From, ForwardInv
    <3>5. quotationPc'[r] = l /\ WasSent(q)' = WasSent(q) /\ (WasAccepted(q) => WasAccepted(q)')
      BY <1>1, <1>2, <2>1, <2>2 DEF QuotationActs, WasSent
    <3> QED
      BY <2>1, <2>2, <3>1, <3>2, <3>3, <3>4, <3>5 DEF QuotationProgress, QuotationActs
  <2> QED
    BY <2>1, <2>2, <2>4, <2>5, <2>6, QuotationStepKeeps DEF WasSent
<1>5. CASE Quotations!TransitionStatus(r)
  <2>1. /\ QuotationActs(r, "done") /\ UNCHANGED <<orders, overlapped>> /\ Writing(r, q)
        /\ QuotationOp[r] \in {"send", "accept", "reject"}
        /\ \/ status' = status
           \/ /\ status[q] \notin {"absent", "deleted"}
              /\ status'[q] = Quotations!To(QuotationOp[r])
              /\ quotationReply'[r] = Quotations!Answer("quotations", QuotationOp[r], "ok")
    BY <1>1, <1>5 DEF Quotations!TransitionStatus, Quotations!SetStatus, Quotations!Finish,
      Quotations!Exists, QuotationActs, Writing
  <2>2. OrdersOf(q)' = OrdersOf(q)
    BY <2>1 DEF OrdersOf, Quotations!OrdersOf
  <2>3. CASE status' = status
    <3>1. ForwardInv(q)'
      BY <1>1, <1>2, <2>1, <2>2, <2>3 DEF ForwardInv, WasSent
    <3>2. AloneInv(q)'
      BY <1>1, <2>1, <2>2, <2>3 DEF AloneInv, Writing, QuotationActs
    <3>3. QuotationProgress(r)'
      BY <1>1, <2>1 DEF QuotationProgress, QuotationActs, Writing
    <3> QED
      BY <2>1, <2>3, <3>1, <3>2, <3>3, QuotationStepKeeps DEF WasSent
  <2>4. CASE /\ status[q] \notin {"absent", "deleted"}
             /\ status'[q] = Quotations!To(QuotationOp[r])
             /\ quotationReply'[r] = Quotations!Answer("quotations", QuotationOp[r], "ok")
    <3>1. status'[q] \in {"sent", "accepted", "rejected"}
      BY <2>1, <2>4 DEF Quotations!To
    <3>2. WasSent(q)'
      BY <3>1 DEF WasSent
    <3>3. status'[q] \in {"accepted", "converted"} => WasAccepted(q)'
      <4>1. status'[q] \in {"accepted", "converted"} => QuotationOp[r] = "accept"
        BY <2>1, <2>4 DEF Quotations!To
      <4>2. QuotationOp[r] = "accept" => quotationReply'[r] = 200
        BY <2>4, AcceptAnswer
      <4> QED
        BY <4>1, <4>2 DEF WasAccepted
    <3>4. ForwardInv(q)'
      BY <1>1, <1>2, <2>1, <2>2, <3>2, <3>3 DEF ForwardInv
    <3>5. q \notin overlapped => OrdersOf(q) = {} /\ \A t : Writing(t, q) => t = r
      <4>1. q \notin overlapped => status[q] = Quotations!From(QuotationOp[r])
        BY <1>1, <2>1 DEF AloneInv
      <4>2. q \notin overlapped => status[q] # "converted"
        BY <2>1, <4>1 DEF Quotations!From
      <4> QED
        BY <1>1, <2>1, <4>2 DEF AloneInv
    <3>6. q \notin overlapped => \A t : ~Writing(t, q)'
      BY <1>1, <2>1, <3>5 DEF QuotationActs, Writing
    <3>7. AloneInv(q)'
      BY <2>1, <2>2, <3>1, <3>5, <3>6 DEF AloneInv
    <3>8. QuotationProgress(r)'
      BY <1>1, <2>1 DEF QuotationProgress, QuotationActs, Writing
    <3> QED
      BY <2>1, <3>2, <3>4, <3>7, <3>8, QuotationStepKeeps
  <2> QED
    BY <2>1, <2>3, <2>4
<1>6. CASE Quotations!ConvertToSalesOrder(r)
  <2>1. /\ QuotationActs(r, "done") /\ UNCHANGED overlapped /\ orders' = orders \union {r}
        /\ Writing(r, q) /\ QuotationOp[r] = "convertToSalesOrder" /\ status'[q] = "converted"
    BY <1>1, <1>6 DEF Quotations!ConvertToSalesOrder, Quotations!SetStatus, Quotations!Finish,
      Quotations!To, QuotationActs, Writing
  <2>2. OrdersOf(q)' = OrdersOf(q) \union {r}
    BY <2>1 DEF OrdersOf, Quotations!OrdersOf
  <2>3. WasSent(q)' /\ WasAccepted(q)'
    BY <1>1, <1>2, <2>1 DEF QuotationProgress, Writing, WasSent
  <2>4. ForwardInv(q)'
    BY <2>3 DEF ForwardInv
  <2>5. q \notin overlapped => OrdersOf(q) = {} /\ \A t : Writing(t, q) => t = r
    <3>1. q \notin overlapped => status[q] = "accepted"
      BY <1>1, <2>1 DEF AloneInv, Quotations!From
    <3> QED
      BY <1>1, <2>1, <3>1 DEF AloneInv
  <2>6. q \notin overlapped => \A t : ~Writing(t, q)'
    BY <1>1, <2>1, <2>5 DEF QuotationActs, Writing
  <2>7. q \notin overlapped => OrdersOf(q)' = {r}
    BY <2>2, <2>5
  <2>8. AloneInv(q)'
    BY <2>1, <2>6, <2>7 DEF AloneInv
  <2>9. QuotationProgress(r)'
    BY <1>1, <2>1 DEF QuotationProgress, QuotationActs, Writing
  <2> QED
    BY <2>1, <2>3, <2>4, <2>8, <2>9, QuotationStepKeeps
<1>7. CASE Quotations!Delete(r)
  <2>1. /\ QuotationActs(r, "done") /\ UNCHANGED orders /\ quotationPc[r] = "start"
        /\ status'[q] = IF status[q] = "draft" THEN "deleted" ELSE status[q]
        /\ q \notin overlapped' => q \notin overlapped /\ \A t : ~Writing(t, q)
    BY <1>1, <1>7 DEF Quotations!Delete, Quotations!SetStatus, Quotations!Finish, Quotations!Begins,
      QuotationActs, Writing
  <2>2. OrdersOf(q)' = OrdersOf(q)
    BY <2>1 DEF OrdersOf, Quotations!OrdersOf
  <2>3. WasSent(q) => status'[q] = status[q]
    BY <2>1 DEF WasSent
  <2>4. ForwardInv(q)'
    BY <1>1, <1>2, <2>1, <2>2, <2>3 DEF ForwardInv, WasSent
  <2>5. q \notin overlapped' => \A t : ~Writing(t, q)'
    BY <1>1, <2>1 DEF QuotationActs, Writing
  <2>6. AloneInv(q)'
    BY <1>1, <2>1, <2>2, <2>5 DEF AloneInv
  <2>7. QuotationProgress(r)'
    BY <1>1, <2>1 DEF QuotationProgress, QuotationActs
  <2> QED
    BY <2>1, <2>3, <2>4, <2>6, <2>7, QuotationStepKeeps DEF WasSent
<1>8. CASE Quotations!Fail(r)
  <2>1. QuotationActs(r, "done") /\ UNCHANGED <<status, orders, overlapped>> /\ Writing(r, q)
    BY <1>1, <1>8 DEF Quotations!Fail, Quotations!Finish, QuotationActs, Writing
  <2>2. OrdersOf(q)' = OrdersOf(q)
    BY <2>1 DEF OrdersOf, Quotations!OrdersOf
  <2>3. ForwardInv(q)'
    BY <1>1, <1>2, <2>1, <2>2 DEF ForwardInv, WasSent
  <2>4. AloneInv(q)'
    BY <1>1, <2>1, <2>2 DEF AloneInv, Writing, QuotationActs
  <2>5. QuotationProgress(r)'
    BY <1>1, <2>1 DEF QuotationProgress, QuotationActs, Writing
  <2> QED
    BY <2>1, <2>3, <2>4, <2>5, QuotationStepKeeps DEF WasSent
<1> QED
  BY <1>3, <1>4, <1>5, <1>6, <1>7, <1>8 DEF Quotations!Step

\* What requests on quotations have read and written, at the beginning and after each step.
LEMMA QuotationInvariant == Spec => []QuotationInv
<1>1. Init => QuotationInv
  <2> SUFFICES ASSUME Init  PROVE QuotationInv
    OBVIOUS
  <2>1. PICK w : Quotations!Begin(w)
    BY DEF Init, Quotations!Init
  <2>2. /\ status = [q \in Quotation |-> "absent"] /\ orders = {} /\ overlapped = {}
        /\ DOMAIN quotationPc = QuotationRequest
        /\ \A r \in QuotationRequest : quotationPc[r] \in {"start", "unsent"}
        /\ quotationReply = [r \in QuotationRequest |-> 0]
    BY <2>1 DEF Quotations!Begin
  <2>3. ASSUME NEW q \in Quotation  PROVE ForwardInv(q) /\ AloneInv(q)
    <3>1. OrdersOf(q) = {} /\ status[q] = "absent"
      BY <2>2, <2>3 DEF OrdersOf, Quotations!OrdersOf
    <3>2. \A r : ~Writing(r, q)
      BY <2>2 DEF Writing
    <3> QED
      BY <3>1, <3>2 DEF ForwardInv, AloneInv
  <2>4. ASSUME NEW r \in QuotationRequest  PROVE QuotationProgress(r)
    BY <2>2, <2>4 DEF QuotationProgress
  <2> QED
    BY <2>2, <2>3, <2>4 DEF QuotationInv
<1>2. ASSUME QuotationInv, [Next]_vars  PROVE QuotationInv'
  <2>1. CASE UNCHANGED quotationVars
    <3>1. \A q : (WasAccepted(q)' = WasAccepted(q)) /\ (WasSent(q)' = WasSent(q))
      BY <2>1 DEF quotationVars, WasAccepted, WasSent
    <3>2. \A q : OrdersOf(q)' = OrdersOf(q) /\ \A r : Writing(r, q)' = Writing(r, q)
      BY <2>1 DEF quotationVars, OrdersOf, Quotations!OrdersOf, Writing
    <3>3. ASSUME NEW q \in Quotation  PROVE ForwardInv(q)' /\ AloneInv(q)'
      BY <1>2, <2>1, <3>1, <3>2, <3>3 DEF quotationVars, QuotationInv, ForwardInv, AloneInv
    <3>4. ASSUME NEW r \in QuotationRequest  PROVE QuotationProgress(r)'
      BY <1>2, <2>1, <3>1, <3>4 DEF quotationVars, QuotationInv, QuotationProgress
    <3> QED
      BY <1>2, <2>1, <3>3, <3>4 DEF quotationVars, QuotationInv
  <2>2. CASE Quotations!Next
    BY <1>2, <2>2, RequestKeeps DEF Quotations!Next
  <2> QED
    BY <1>2, <2>1, <2>2, QuotationStep
<1> QED
  BY <1>1, <1>2, PTL DEF Spec

\* The operator that Quotations takes from FiniteSets is the one the theorems of this module are about.
LEMMA SameCardinality == \A S : Quotations!Cardinality(S) = Cardinality(S)
BY DEF Quotations!Cardinality, Cardinality

(***************************************************************************)
(* A quotation has one sales order if it is converted and none otherwise,  *)
(* unless its requests overlap, and then none that was not accepted, for   *)
(* any number of quotations and requests (quotation.kysely-repository.ts   *)
(* transitionStatus, convertToSalesOrder).                                 *)
(***************************************************************************)
THEOREM QuotationsBecomeOneOrder == Spec => []OneOrderPerQuotation
<1>1. ASSUME QuotationInv  PROVE OneOrderPerQuotation
  <2>1. ASSUME NEW q \in Quotation, q \notin overlapped
        PROVE  Cardinality(OrdersOf(q)) = IF status[q] = "converted" THEN 1 ELSE 0
    BY <1>1, <2>1, FS_Singleton, FS_EmptySet DEF QuotationInv, AloneInv
  <2>2. ASSUME NEW q \in Quotation, OrdersOf(q) # {}
        PROVE  status[q] \notin {"draft", "deleted"} /\ WasAccepted(q)
    BY <1>1, <2>2 DEF QuotationInv, ForwardInv, WasSent
  <2>3. ASSUME NEW q \in Quotation
        PROVE  /\ q \notin overlapped =>
                    Quotations!Cardinality(Quotations!OrdersOf(q)) = IF status[q] = "converted" THEN 1 ELSE 0
               /\ Quotations!OrdersOf(q) # {} =>
                    /\ status[q] \notin {"draft", "deleted"}
                    /\ \E r \in QuotationRequest :
                         OnQuotation[r] = q /\ QuotationOp[r] = "accept" /\ quotationReply[r] = 200
    BY <2>1, <2>2, <2>3, SameCardinality DEF WasAccepted, OrdersOf
  <2> QED
    BY <2>3 DEF OneOrderPerQuotation, Quotations!OneOrderPerQuotation
<1> QED
  BY <1>1, QuotationInvariant, PTL


-----------------------------------------------------------------------------
(* Answers.                                                                *)

\* The results that the filter tells as what they are or that a rule cannot tell.
Known == {"ok"} \union Requests!ConstraintErrors \union Requests!DataErrors

\* The services with an answer of their own.
Controllers == DOMAIN Requests!Service

\* The filter tells a client about broken constraints; values that PostgreSQL refuses it does not know.
LEMMA KnownIsTold ==
  \A res \in Known : /\ Requests!Filter(res) = 500 => res \in Requests!DataErrors
                     /\ Requests!Filter(res) = 200 => res = "ok"
BY DEF Known, Requests!ConstraintErrors, Requests!DataErrors, Requests!Filter

Refusals == {400, 401, 403, 404, 409}

\* A set of rules none of which answers with success or with a server error.
Polite(rules) == \A rule \in rules : rule.status \in Refusals

\* Services that know lookups only.
LEMMA LookupsArePolite == \A ops : Polite(Requests!LookupRules(ops))
BY DEF Polite, Refusals, Requests!LookupRules, Requests!Rules

\* Services of documents.
LEMMA DocumentsArePolite == \A ops, delete, op : 
  /\ Polite(Requests!DocumentRules(ops, delete)) 
  /\ Polite(Requests!DocumentRules(ops, delete) \union Requests!InsufficientRule(op))
BY DEF Polite, Refusals, Requests!LookupRules, Requests!Rules, Requests!DocumentRules,
  Requests!InsufficientRule

\* The rules of access.
LEMMA AccessIsPolite == \A ops : Polite(Requests!MapAccessError(ops))
BY DEF Polite, Refusals, Requests!MapAccessError, Requests!Rules

\* No rule of any service answers with success or with a server error.
LEMMA RulesArePolite == ASSUME NEW c \in Controllers PROVE Polite(Requests!Service[c])
<1>1. /\ Polite(Requests!BranchesService) /\ Polite(Requests!BrandsService)
      /\ Polite(Requests!CategoriesService) /\ Polite(Requests!CustomersService)
      /\ Polite(Requests!EmployeesService) /\ Polite(Requests!GstRatesService)
      /\ Polite(Requests!HsnCodesService) /\ Polite(Requests!LocationsService)
      /\ Polite(Requests!RacksService) /\ Polite(Requests!SubCategoriesService)
      /\ Polite(Requests!SuppliersService) /\ Polite(Requests!TaxesService)
      /\ Polite(Requests!TransportersService) /\ Polite(Requests!UnitsService)
      /\ Polite(Requests!WarehousesService) /\ Polite(Requests!ProductsService)
      /\ Polite(Requests!ProductBarcodesService) /\ Polite(Requests!ProductBatchesService)
      /\ Polite(Requests!ProductImagesService) /\ Polite(Requests!ProductUnitsService)
  BY LookupsArePolite DEF Polite, Refusals, Requests!Rules, Requests!MasterDataService, Requests!ProductsService,
    Requests!BranchesService, Requests!BrandsService, Requests!CategoriesService,
    Requests!CustomersService, Requests!EmployeesService, Requests!GstRatesService,
    Requests!HsnCodesService, Requests!LocationsService, Requests!RacksService,
    Requests!SubCategoriesService, Requests!SuppliersService, Requests!TaxesService,
    Requests!TransportersService, Requests!UnitsService, Requests!WarehousesService,
    Requests!ProductBarcodesService, Requests!ProductBatchesService,
    Requests!ProductImagesService, Requests!ProductUnitsService
<1>2. /\ Polite(Requests!StockTransfersService) /\ Polite(Requests!DamagedStockService)
      /\ Polite(Requests!PurchaseReturnsService) /\ Polite(Requests!DeliveryChallansService)
      /\ Polite(Requests!StockAdjustmentsService) /\ Polite(Requests!PhysicalVerificationsService)
      /\ Polite(Requests!StockReturnsService) /\ Polite(Requests!GoodsReceivedNotesService)
      /\ Polite(Requests!PurchaseInvoicesService) /\ Polite(Requests!SalesInvoicesService)
      /\ Polite(Requests!SalesReturnsService) /\ Polite(Requests!PurchaseOrdersService)
      /\ Polite(Requests!SalesOrdersService) /\ Polite(Requests!QuotationsService)
  BY DocumentsArePolite DEF Requests!StockTransfersService, Requests!DamagedStockService,
    Requests!PurchaseReturnsService, Requests!DeliveryChallansService,
    Requests!StockAdjustmentsService, Requests!PhysicalVerificationsService,
    Requests!StockReturnsService, Requests!GoodsReceivedNotesService,
    Requests!PurchaseInvoicesService, Requests!SalesInvoicesService, Requests!SalesReturnsService,
    Requests!PurchaseOrdersService, Requests!SalesOrdersService, Requests!QuotationsService
<1>3. /\ Polite(Requests!BlockedStockService) /\ Polite(Requests!ReservedStockService)
      /\ Polite(Requests!SupplierPaymentsService) /\ Polite(Requests!CustomerPaymentsService)
  BY LookupsArePolite DEF Polite, Refusals, Requests!Rules, Requests!HoldRules,
    Requests!PaymentRules, Requests!BlockedStockService, Requests!ReservedStockService,
    Requests!SupplierPaymentsService, Requests!CustomerPaymentsService
<1>4. Polite(Requests!UsersRules) /\ Polite(Requests!RolesRules) /\ Polite(Requests!Uncaught)
  BY AccessIsPolite DEF Polite, Requests!UsersRules, Requests!RolesRules, Requests!Uncaught
<1>5. Polite(Requests!TenantInfo) /\ Polite(Requests!TenantProvisioningService)
  BY LookupsArePolite DEF Polite, Refusals, Requests!Rules, Requests!TenantInfo,
    Requests!TenantProvisioningService
<1>6. Polite(Requests!OpeningStockService)
  BY LookupsArePolite DEF Polite, Refusals, Requests!Rules, Requests!OpeningStockService
<1>7. /\ Polite(Requests!AuditService) /\ Polite(Requests!ProfileService)
      /\ Polite(Requests!AuthService \union Requests!ProfileService)
  BY LookupsArePolite DEF Polite, Refusals, Requests!Rules, Requests!AuditService,
    Requests!ProfileService, Requests!AuthService
<1>8. CASE c \in {"branches", "brands", "categories", "customers", "employees", "gst_rates",
                  "hsn_codes", "locations", "racks", "sub_categories", "suppliers", "taxes",
                  "transporters", "units", "warehouses", "products", "product_barcodes",
                  "product_batches", "product_images", "product_units"}
  BY <1>1, <1>4, <1>8 DEF Requests!Service
<1>9. CASE c \in {"stock_transfers", "stock_adjustments", "physical_verifications",
                  "damaged_stock", "stock_returns", "goods_received_notes",
                  "purchase_invoices", "purchase_returns", "delivery_challans",
                  "sales_invoices", "sales_returns", "purchase_orders", "sales_orders",
                  "quotations"}
  BY <1>2, <1>9 DEF Requests!Service
<1>10. CASE c \in {"product_price_history", "blocked_stock", "reserved_stock", "opening_stock",
                  "stock_views", "supplier_payments", "customer_payments",
                  "outstanding_payables", "outstanding_receivables", "dashboard", "reports",
                  "users", "roles", "permissions", "audit", "company", "auth", "signup",
                  "tenant_info", "health"}
  <2>1. Requests!Service[c] \in
          {Requests!Uncaught, Requests!BlockedStockService, Requests!ReservedStockService,
           Requests!OpeningStockService, Requests!SupplierPaymentsService,
           Requests!CustomerPaymentsService, Requests!UsersRules, Requests!RolesRules,
           Requests!AuditService, Requests!ProfileService,
           Requests!AuthService \union Requests!ProfileService,
           Requests!TenantProvisioningService, Requests!TenantInfo}
    BY <1>10 DEF Requests!Service
  <2> QED
    BY <1>3, <1>4, <1>5, <1>6, <1>7, <2>1
<1> QED
  BY <1>8, <1>9, <1>10 DEF Controllers, Requests!Service

\* A service has a rule of its own for a result of an operation.
Catches(c, op, res) == \E rule \in Requests!Service[c] : rule.op = op /\ rule.result = res

\* What is no success and no lookup without a row is never told as success.
LEMMA FailuresAreTold ==
  ASSUME NEW c \in Controllers, NEW op, NEW res, res \notin {"ok", "none"}
  PROVE  Requests!Answer(c, op, res) # 200
<1> DEFINE rules == {r \in Requests!Service[c] : r.op = op /\ r.result = res}
<1>1. rules # {} => (CHOOSE r \in rules : TRUE) \in Requests!Service[c]
  OBVIOUS
<1>2. rules # {} => (CHOOSE r \in rules : TRUE).status # 200
  BY <1>1, RulesArePolite DEF Polite, Refusals
<1>3. Requests!Filter(res) # 200
  BY DEF Requests!Filter
<1> QED
  BY <1>2, <1>3 DEF Requests!Answer

\* A result that the filter knows, or that the service catches, is told as what it is, or it is a
\* value that PostgreSQL refused.
LEMMA ToldByRule ==
  ASSUME NEW c \in Controllers, NEW op, NEW res, res \in Known \/ Catches(c, op, res)
  PROVE  /\ Requests!Answer(c, op, res) = 500 => res \in Requests!DataErrors
         /\ Requests!Answer(c, op, res) = 200 => res = "ok"
<1> DEFINE rules == {r \in Requests!Service[c] : r.op = op /\ r.result = res}
<1>1. CASE rules = {}
  <2>1. res \in Known
    BY <1>1 DEF Catches
  <2> QED
    BY <1>1, <2>1, KnownIsTold DEF Requests!Answer
<1>2. CASE rules # {}
  <2>1. (CHOOSE r \in rules : TRUE) \in Requests!Service[c]
    BY <1>2
  <2> QED
    BY <1>2, <2>1, RulesArePolite DEF Requests!Answer, Polite, Refusals
<1> QED
  BY <1>1, <1>2

\* Whatever the repository behind a route raises is told, but for stock that two services do not know of.
Covered(c, op) ==
  c \in Controllers /\ \A res \in Requests!Raises(c, op) :
    \/ res \in Known
    \/ Catches(c, op, res)
    \/ res = "InsufficientStock" /\ <<c, op>> \in Requests!Untold

Told(routes) == \A route \in routes : Covered(route.controller, route.op)

\* Controllers whose operations raise errors of their own.
Special == {"users", "roles", "supplier_payments", "customer_payments"}

\* Operations that raise errors of their own.
SpecialOps == Requests!Posting \union {"post", "upload", "signup"}

\* Operations that at worst find no row, and then have a rule for it.
LEMMA PlainCovered ==
  ASSUME NEW c \in Controllers \ Special, NEW op, op \notin SpecialOps,
         Requests!MayMiss(c, op) => Catches(c, op, "none")
  PROVE  Covered(c, op)
<1>1. <<c, op>> \notin Requests!Issues
  BY DEF Requests!Posting, Requests!Issues, SpecialOps
<1>2. Requests!Raises(c, op) \subseteq Known \union (IF Requests!MayMiss(c, op) THEN {"none"} ELSE {})
  BY <1>1 DEF Known, Special, SpecialOps, Requests!Raises, Requests!ConstraintErrors, Requests!DataErrors
<1> QED
  BY <1>2 DEF Covered

\* Lookups have a rule for what they do not find.
LEMMA LookupsCatch ==
  ASSUME NEW c, NEW ops, NEW op \in ops, Requests!LookupRules(ops) \subseteq Requests!Service[c]
  PROVE  Catches(c, op, "none")
<1>1. [op |-> op, result |-> "none", status |-> 404] \in Requests!LookupRules(ops)
  BY DEF Requests!LookupRules, Requests!Rules
<1> QED
  BY <1>1 DEF Catches

\* Routes are told if all parts of them are.
LEMMA UnionTold == \A R, S : Told(R \union S) <=> Told(R) /\ Told(S)
BY DEF Told

\* A route that writes.
LEMMA WritesTold ==
  ASSUME NEW c \in Controllers, NEW op, NEW m, NEW action, Covered(c, op)
  PROVE  Told(Requests!Writes(c, op, m, action))
BY DEF Told, Requests!Writes, Requests!Route

\* Routes that read.
LEMMA ReadsTold ==
  ASSUME NEW c \in Controllers, NEW ops, NEW m, \A op \in ops : Covered(c, op)
  PROVE  Told(Requests!Reads(c, ops, m))
BY DEF Told, Requests!Reads, Requests!Route

\* Controllers of master data.
LEMMA MasterDataTold ==
  ASSUME NEW c \in Controllers \ Special, Requests!MasterDataService \subseteq Requests!Service[c]
  PROVE  Told(Requests!MasterDataRoutes(c))
<1>1. ASSUME NEW route \in Requests!MasterDataRoutes(c)
      PROVE  route.controller = c /\ route.op \in {"list", "getById", "create", "update", "remove"}
  BY DEF Requests!MasterDataRoutes, Requests!ListAndGet, Requests!Reads, Requests!Writes,
    Requests!Route
<1>2. \A op \in {"getById", "update", "remove"} : Catches(c, op, "none")
  BY LookupsCatch DEF Requests!MasterDataService
<1>3. \A op \in {"list", "create"} : ~Requests!MayMiss(c, op)
  BY DEF Requests!MayMiss
<1>4. \A op \in {"list", "getById", "create", "update", "remove"} : op \notin SpecialOps
  BY DEF SpecialOps, Requests!Posting
<1>5. ASSUME NEW op \in {"list", "getById", "create", "update", "remove"}  PROVE Covered(c, op)
  BY <1>2, <1>3, <1>4, PlainCovered
<1> QED
  BY <1>1, <1>5 DEF Told

\* Controllers of the parts of a product.
LEMMA PartsTold ==
  ASSUME NEW c \in Controllers, NEW ops, \A op \in ops \union {"list"} : Covered(c, op)
  PROVE  Told(Requests!ProductPart(c, ops))
<1>1. ASSUME NEW route \in Requests!ProductPart(c, ops)
      PROVE  route.controller = c /\ route.op \in ops \union {"list"}
  BY DEF Requests!ProductPart, Requests!Reads, Requests!Writes, Requests!Route
<1> QED
  BY <1>1 DEF Told

\* The operations that post a document.
LEMMA PostingCovered ==
  ASSUME NEW c \in Controllers \ Special, NEW ops, NEW op \in ops, NEW delete,
         op \in Requests!Posting, Requests!DocumentRules(ops, delete) \subseteq Requests!Service[c],
         <<c, op>> \in Requests!Issues =>
           <<c, op>> \in Requests!Untold \/ Requests!InsufficientRule(op) \subseteq Requests!Service[c]
  PROVE  Covered(c, op)
<1>1. Requests!Raises(c, op) \subseteq Known \union Requests!DocumentErrors
         \union (IF <<c, op>> \in Requests!Issues THEN {"InsufficientStock"} ELSE {})
  BY DEF Known, Special, Requests!Posting, Requests!Raises, Requests!ConstraintErrors,
    Requests!DataErrors, Requests!MayMiss, Requests!MayBeEmpty
<1>2. \A res \in Requests!DocumentErrors : Catches(c, op, res)
  <2>1. /\ [op |-> op, result |-> "DocumentNotFound", status |-> 404] \in Requests!DocumentRules(ops, delete)
        /\ [op |-> op, result |-> "DocumentNotDraft", status |-> 409] \in Requests!DocumentRules(ops, delete)
    BY DEF Requests!DocumentRules, Requests!Rules
  <2> QED
    BY <2>1 DEF Requests!DocumentErrors, Catches
<1>3. Requests!InsufficientRule(op) \subseteq Requests!Service[c] => Catches(c, op, "InsufficientStock")
  <2>1. [op |-> op, result |-> "InsufficientStock", status |-> 409] \in Requests!InsufficientRule(op)
    BY DEF Requests!InsufficientRule, Requests!Rules
  <2> QED
    BY <2>1 DEF Catches
<1> QED
  BY <1>1, <1>2, <1>3 DEF Covered

\* What else a document is asked for.
LEMMA DocumentCovered ==
  ASSUME NEW c \in Controllers \ Special, NEW ops, NEW delete \in {"remove", "delete"},
         Requests!DocumentRules(ops, delete) \subseteq Requests!Service[c],
         NEW op \in {"list", "getById", "create", delete}
  PROVE  Covered(c, op)
<1>1. /\ [op |-> "getById", result |-> "none", status |-> 404] \in Requests!DocumentRules(ops, delete)
      /\ [op |-> delete, result |-> "none", status |-> 409] \in Requests!DocumentRules(ops, delete)
  BY DEF Requests!DocumentRules, Requests!LookupRules, Requests!Rules
<1>2. Catches(c, "getById", "none") /\ Catches(c, delete, "none")
  BY <1>1 DEF Catches
<1>3. ~Requests!MayMiss(c, "list") /\ ~Requests!MayMiss(c, "create")
  BY DEF Requests!MayMiss
<1>4. op \notin SpecialOps
  BY DEF SpecialOps, Requests!Posting
<1> QED
  BY <1>2, <1>3, <1>4, PlainCovered

\* Controllers of documents.
LEMMA DocumentsTold ==
  ASSUME NEW c \in Controllers \ Special, NEW ops, NEW post \in ops, NEW delete \in {"remove", "delete"},
         post \in Requests!Posting, Requests!DocumentRules(ops, delete) \subseteq Requests!Service[c],
         <<c, post>> \in Requests!Issues =>
           <<c, post>> \in Requests!Untold \/ Requests!InsufficientRule(post) \subseteq Requests!Service[c]
  PROVE  Told(Requests!DocumentRoutes(c, post, delete))
<1>1. ASSUME NEW route \in Requests!DocumentRoutes(c, post, delete)
      PROVE  route.controller = c /\ route.op \in {"list", "getById", "create", delete, post}
  BY DEF Requests!DocumentRoutes, Requests!ListAndGet, Requests!Reads, Requests!Writes,
    Requests!Route
<1>2. Covered(c, post)
  BY PostingCovered
<1>3. \A op \in {"list", "getById", "create", delete} : Covered(c, op)
  BY DocumentCovered
<1> QED
  BY <1>1, <1>2, <1>3 DEF Told

\* The routes of master data and of parts of a product.
LEMMA CatalogueTold ==
  /\ Told(Requests!BranchesController) /\ Told(Requests!BrandsController)
  /\ Told(Requests!CategoriesController) /\ Told(Requests!CustomersController)
  /\ Told(Requests!EmployeesController) /\ Told(Requests!GstRatesController)
  /\ Told(Requests!HsnCodesController) /\ Told(Requests!LocationsController)
  /\ Told(Requests!RacksController) /\ Told(Requests!SubCategoriesController)
  /\ Told(Requests!SuppliersController) /\ Told(Requests!TaxesController)
  /\ Told(Requests!TransportersController) /\ Told(Requests!UnitsController)
  /\ Told(Requests!WarehousesController) /\ Told(Requests!ProductsController)
  /\ Told(Requests!ProductBarcodesController) /\ Told(Requests!ProductBatchesController)
  /\ Told(Requests!ProductImagesController) /\ Told(Requests!ProductUnitsController)
  /\ Told(Requests!ProductPriceHistoryController)
<1>1. {"branches", "brands", "categories", "customers", "employees", "gst_rates", "hsn_codes",
       "locations", "racks", "sub_categories", "suppliers", "taxes", "transporters", "units",
       "warehouses", "products", "product_barcodes", "product_batches", "product_images",
       "product_units", "product_price_history"}
        \subseteq Controllers \ Special
  BY DEF Controllers, Special, Requests!Service
<1>2. ASSUME NEW c \in {"branches", "brands", "categories", "customers", "employees", "gst_rates",
                        "hsn_codes", "locations", "racks", "sub_categories", "suppliers", "taxes",
                        "transporters", "units", "warehouses"}
      PROVE  Told(Requests!MasterDataRoutes(c))
  <2>1. Requests!Service[c] = Requests!MasterDataService
    BY <1>2 DEF Requests!Service, Requests!BranchesService, Requests!BrandsService,
      Requests!CategoriesService, Requests!CustomersService, Requests!EmployeesService,
      Requests!GstRatesService, Requests!HsnCodesService, Requests!LocationsService,
      Requests!RacksService, Requests!SubCategoriesService, Requests!SuppliersService,
      Requests!TaxesService, Requests!TransportersService, Requests!UnitsService,
      Requests!WarehousesService
  <2> QED
    BY <1>1, <1>2, <2>1, MasterDataTold
<1>3. Told(Requests!ProductsController)
  <2>1. Requests!Service["products"] = Requests!MasterDataService \union Requests!LookupRules({"findByBarcode"})
    BY DEF Requests!Service, Requests!ProductsService
  <2>2. Told(Requests!MasterDataRoutes("products"))
    BY <1>1, <2>1, MasterDataTold
  <2>3. Catches("products", "findByBarcode", "none")
    BY <2>1, LookupsCatch
  <2>4. ~Requests!MayMiss("products", "search") /\ {"search", "findByBarcode"} \intersect SpecialOps = {}
    BY DEF Requests!MayMiss, SpecialOps, Requests!Posting
  <2>5. \A op \in {"search", "findByBarcode"} : Covered("products", op)
    BY <1>1, <2>3, <2>4, PlainCovered
  <2> QED
    BY <1>1, <2>2, <2>5, ReadsTold, UnionTold DEF Requests!ProductsController
<1>4. ASSUME NEW c \in {"product_barcodes", "product_batches", "product_images", "product_units",
                        "product_price_history"}
      PROVE  \A op \in {"list", "create"} : Covered(c, op)
  <2>1. \A op \in {"list", "create"} : ~Requests!MayMiss(c, op) /\ op \notin SpecialOps
    BY DEF Requests!MayMiss, SpecialOps, Requests!Posting
  <2> QED
    BY <1>1, <1>4, <2>1, PlainCovered
<1>5. {"update", "remove", "setPrimary"} \intersect SpecialOps = {}
  BY DEF SpecialOps, Requests!Posting
<1>6. Told(Requests!ProductBarcodesController)
  <2>1. Catches("product_barcodes", "remove", "none")
    BY LookupsCatch DEF Requests!Service, Requests!ProductBarcodesService
  <2>2. Covered("product_barcodes", "remove")
    BY <1>1, <1>5, <2>1, PlainCovered
  <2> QED
    BY <1>1, <1>4, <2>2, PartsTold DEF Requests!ProductBarcodesController
<1>7. Told(Requests!ProductBatchesController)
  <2>1. \A op \in {"update", "remove"} : Catches("product_batches", op, "none")
    BY LookupsCatch DEF Requests!Service, Requests!ProductBatchesService
  <2>2. \A op \in {"update", "remove"} : Covered("product_batches", op)
    BY <1>1, <1>5, <2>1, PlainCovered
  <2> QED
    BY <1>1, <1>4, <2>2, PartsTold DEF Requests!ProductBatchesController
<1>8. Told(Requests!ProductImagesController)
  <2>1. Requests!Service["product_images"]
          = Requests!LookupRules({"setPrimary", "remove"}) \union Requests!Rules({"upload"}, "NoFile", 400)
    BY DEF Requests!Service, Requests!ProductImagesService
  <2>2. \A op \in {"setPrimary", "remove"} : Catches("product_images", op, "none")
    BY <2>1, LookupsCatch
  <2>3. \A op \in {"setPrimary", "remove"} : Covered("product_images", op)
    BY <1>1, <1>5, <2>2, PlainCovered
  <2>4. [op |-> "upload", result |-> "NoFile", status |-> 400] \in Requests!Service["product_images"]
    BY <2>1 DEF Requests!Rules
  <2>5. Catches("product_images", "upload", "NoFile")
    BY <2>4 DEF Catches
  <2>6. Requests!Raises("product_images", "upload") \subseteq Known \union {"NoFile"}
    BY DEF Requests!Raises, Requests!MayMiss, Requests!Posting, Requests!Issues, Known,
      Requests!ConstraintErrors, Requests!DataErrors
  <2>7. Covered("product_images", "upload")
    BY <1>1, <2>5, <2>6 DEF Covered
  <2> QED
    BY <1>1, <1>4, <2>3, <2>7, PartsTold DEF Requests!ProductImagesController
<1>9. Told(Requests!ProductUnitsController)
  <2>1. \A op \in {"update", "remove"} : Catches("product_units", op, "none")
    BY LookupsCatch DEF Requests!Service, Requests!ProductUnitsService
  <2>2. \A op \in {"update", "remove"} : Covered("product_units", op)
    BY <1>1, <1>5, <2>1, PlainCovered
  <2> QED
    BY <1>1, <1>4, <2>2, PartsTold DEF Requests!ProductUnitsController
<1>10. Told(Requests!ProductPriceHistoryController)
  BY <1>1, <1>4, PartsTold DEF Requests!ProductPriceHistoryController
<1> QED
  BY <1>2, <1>3, <1>6, <1>7, <1>8, <1>9, <1>10 DEF Requests!BranchesController,
    Requests!BrandsController, Requests!CategoriesController, Requests!CustomersController,
    Requests!EmployeesController, Requests!GstRatesController, Requests!HsnCodesController,
    Requests!LocationsController, Requests!RacksController, Requests!SubCategoriesController,
    Requests!SuppliersController, Requests!TaxesController, Requests!TransportersController,
    Requests!UnitsController, Requests!WarehousesController

\* The routes of documents.
LEMMA PostingTold ==
  /\ Told(Requests!StockTransfersController) /\ Told(Requests!StockAdjustmentsController)
  /\ Told(Requests!PhysicalVerificationsController) /\ Told(Requests!DamagedStockController)
  /\ Told(Requests!StockReturnsController) /\ Told(Requests!GoodsReceivedNotesController)
  /\ Told(Requests!PurchaseInvoicesController) /\ Told(Requests!PurchaseReturnsController)
  /\ Told(Requests!DeliveryChallansController) /\ Told(Requests!SalesInvoicesController)
  /\ Told(Requests!SalesReturnsController) /\ Told(Requests!PurchaseOrdersController)
  /\ Told(Requests!SalesOrdersController) /\ Told(Requests!QuotationsController)
<1>1. {"stock_transfers", "stock_adjustments", "physical_verifications", "damaged_stock",
       "stock_returns", "goods_received_notes", "purchase_invoices", "purchase_returns",
       "delivery_challans", "sales_invoices", "sales_returns", "purchase_orders",
       "sales_orders", "quotations"}
        \subseteq Controllers \ Special
  BY DEF Controllers, Special, Requests!Service
<1>2. Told(Requests!StockTransfersController)
  BY <1>1, DocumentsTold DEF Requests!StockTransfersController, Requests!Service,
    Requests!StockTransfersService, Requests!Posting, Requests!Issues, Requests!Untold
<1>3. Told(Requests!StockAdjustmentsController)
  BY <1>1, DocumentsTold DEF Requests!StockAdjustmentsController, Requests!Service,
    Requests!StockAdjustmentsService, Requests!Posting, Requests!Issues, Requests!Untold
<1>4. Told(Requests!PhysicalVerificationsController)
  BY <1>1, DocumentsTold DEF Requests!PhysicalVerificationsController, Requests!Service,
    Requests!PhysicalVerificationsService, Requests!Posting, Requests!Issues, Requests!Untold
<1>5. Told(Requests!DamagedStockController)
  BY <1>1, DocumentsTold DEF Requests!DamagedStockController, Requests!Service,
    Requests!DamagedStockService, Requests!Posting, Requests!Issues, Requests!Untold
<1>6. Told(Requests!StockReturnsController)
  BY <1>1, DocumentsTold DEF Requests!StockReturnsController, Requests!Service,
    Requests!StockReturnsService, Requests!Posting, Requests!Issues, Requests!Untold
<1>7. Told(Requests!GoodsReceivedNotesController)
  BY <1>1, DocumentsTold DEF Requests!GoodsReceivedNotesController, Requests!Service,
    Requests!GoodsReceivedNotesService, Requests!Posting, Requests!Issues, Requests!Untold
<1>8. Told(Requests!PurchaseInvoicesController)
  BY <1>1, DocumentsTold DEF Requests!PurchaseInvoicesController, Requests!Service,
    Requests!PurchaseInvoicesService, Requests!Posting, Requests!Issues, Requests!Untold
<1>9. Told(Requests!PurchaseReturnsController)
  BY <1>1, DocumentsTold DEF Requests!PurchaseReturnsController, Requests!Service,
    Requests!PurchaseReturnsService, Requests!Posting, Requests!Issues, Requests!Untold
<1>10. Told(Requests!DeliveryChallansController)
  BY <1>1, DocumentsTold DEF Requests!DeliveryChallansController, Requests!Service,
    Requests!DeliveryChallansService, Requests!Posting, Requests!Issues, Requests!Untold
<1>11. Told(Requests!SalesInvoicesController)
  BY <1>1, DocumentsTold DEF Requests!SalesInvoicesController, Requests!Service,
    Requests!SalesInvoicesService, Requests!Posting, Requests!Issues, Requests!Untold
<1>12. Told(Requests!SalesReturnsController)
  BY <1>1, DocumentsTold DEF Requests!SalesReturnsController, Requests!Service,
    Requests!SalesReturnsService, Requests!Posting, Requests!Issues, Requests!Untold
<1>13. Told(Requests!PurchaseOrdersController)
  <2>1. Requests!Service["purchase_orders"] = Requests!DocumentRules({"approve", "cancel"}, "delete")
    BY DEF Requests!Service, Requests!PurchaseOrdersService
  <2>2. \A op \in {"approve", "cancel"} : op \in Requests!Posting /\ <<"purchase_orders", op>> \notin Requests!Issues
    BY DEF Requests!Posting, Requests!Issues
  <2>3. Told(Requests!DocumentRoutes("purchase_orders", "approve", "delete"))
    BY <1>1, <2>1, <2>2, DocumentsTold
  <2>4. Covered("purchase_orders", "cancel")
    BY <1>1, <2>1, <2>2, PostingCovered
  <2> QED
    BY <1>1, <2>3, <2>4, WritesTold, UnionTold DEF Requests!PurchaseOrdersController
<1>14. Told(Requests!SalesOrdersController)
  <2>1. Requests!Service["sales_orders"] = Requests!DocumentRules({"approve", "cancel"}, "delete")
    BY DEF Requests!Service, Requests!SalesOrdersService
  <2>2. \A op \in {"approve", "cancel"} : op \in Requests!Posting /\ <<"sales_orders", op>> \notin Requests!Issues
    BY DEF Requests!Posting, Requests!Issues
  <2>3. Told(Requests!DocumentRoutes("sales_orders", "approve", "delete"))
    BY <1>1, <2>1, <2>2, DocumentsTold
  <2>4. Covered("sales_orders", "cancel")
    BY <1>1, <2>1, <2>2, PostingCovered
  <2> QED
    BY <1>1, <2>3, <2>4, WritesTold, UnionTold DEF Requests!SalesOrdersController
<1>15. Told(Requests!QuotationsController)
  <2>3. Requests!Service["quotations"]
          = Requests!DocumentRules({"send", "accept", "reject", "convertToSalesOrder"}, "delete")
    BY DEF Requests!Service, Requests!QuotationsService
  <2>1. \A op \in {"list", "getById", "create", "delete"} : Covered("quotations", op)
    BY <1>1, <2>3, DocumentCovered
  <2>4. ASSUME NEW op \in {"send", "accept", "reject", "convertToSalesOrder"}
        PROVE  Covered("quotations", op)
    <3>1. op \in Requests!Posting /\ <<"quotations", op>> \notin Requests!Issues
      BY DEF Requests!Posting, Requests!Issues
    <3> QED
      BY <1>1, <2>3, <3>1, PostingCovered
  <2>2. ASSUME NEW route \in Requests!QuotationsController
        PROVE  /\ route.controller = "quotations"
               /\ \/ route.op \in {"list", "getById", "create", "delete"}
                  \/ route.op \in {"send", "accept", "reject", "convertToSalesOrder"}
    <3>1. \/ route \in Requests!ListAndGet("quotations", "quotations")
          \/ route \in Requests!Writes("quotations", "create", "quotations", "create")
          \/ route \in UNION {Requests!Writes("quotations", op, "quotations", "edit") :
                                op \in {"send", "accept", "reject"}}
          \/ route \in Requests!Writes("quotations", "convertToSalesOrder", "sales_orders", "create")
          \/ route \in Requests!Writes("quotations", "delete", "quotations", "delete")
      BY <2>2 DEF Requests!QuotationsController
    <3>2. ASSUME NEW op \in {"send", "accept", "reject"},
                 route \in Requests!Writes("quotations", op, "quotations", "edit")
          PROVE  route.controller = "quotations" /\ route.op \in {"send", "accept", "reject"}
      BY <3>2 DEF Requests!Writes, Requests!Route
    <3> QED
      BY <3>1, <3>2 DEF Requests!ListAndGet, Requests!Reads, Requests!Writes, Requests!Route
  <2> QED
    BY <2>1, <2>2, <2>4 DEF Told
<1> QED
  BY <1>2, <1>3, <1>4, <1>5, <1>6, <1>7, <1>8, <1>9, <1>10, <1>11, <1>12, <1>13, <1>14, <1>15

\* The other routes.
LEMMA OthersTold ==
  /\ Told(Requests!BlockedStockController) /\ Told(Requests!ReservedStockController)
  /\ Told(Requests!OpeningStockController) /\ Told(Requests!StockViewsController)
  /\ Told(Requests!SupplierPaymentsController) /\ Told(Requests!CustomerPaymentsController)
  /\ Told(Requests!OutstandingPayablesController) /\ Told(Requests!OutstandingReceivablesController)
  /\ Told(Requests!DashboardController) /\ Told(Requests!ReportsController)
  /\ Told(Requests!UsersController) /\ Told(Requests!RolesController)
  /\ Told(Requests!PermissionsController) /\ Told(Requests!AuditController)
  /\ Told(Requests!CompanyController) /\ Told(Requests!AuthController)
  /\ Told(Requests!SignupController) /\ Told(Requests!TenantInfoController)
  /\ Told(Requests!HealthController)
<1>1. {"blocked_stock", "reserved_stock", "stock_views", "outstanding_payables",
       "outstanding_receivables", "dashboard", "reports", "permissions", "audit", "company",
       "auth", "signup", "tenant_info", "health"} \subseteq Controllers \ Special
      /\ "opening_stock" \in Controllers /\ Special \subseteq Controllers
  BY DEF Controllers, Special, Requests!Service
<1>2. ASSUME NEW c \in {"blocked_stock", "reserved_stock"}
      PROVE  Told(Requests!HoldRoutes(c))
  <2>1. ASSUME NEW route \in Requests!HoldRoutes(c)
        PROVE  route.controller = c /\ route.op \in {"list", "getById", "create", "release"}
    BY <2>1 DEF Requests!HoldRoutes, Requests!ListAndGet, Requests!Reads, Requests!Writes,
      Requests!Route
  <2>2. Requests!Service[c] = Requests!HoldRules
    BY <1>2 DEF Requests!Service, Requests!BlockedStockService, Requests!ReservedStockService
  <2>3. /\ [op |-> "getById", result |-> "none", status |-> 404] \in Requests!HoldRules
        /\ [op |-> "release", result |-> "none", status |-> 409] \in Requests!HoldRules
    BY DEF Requests!HoldRules, Requests!LookupRules, Requests!Rules
  <2>4. Catches(c, "getById", "none") /\ Catches(c, "release", "none")
    BY <2>2, <2>3 DEF Catches
  <2>5. ~Requests!MayMiss(c, "list") /\ ~Requests!MayMiss(c, "create")
    BY DEF Requests!MayMiss
  <2>6. \A op \in {"list", "getById", "create", "release"} : op \notin SpecialOps
    BY DEF SpecialOps, Requests!Posting
  <2>7. \A op \in {"list", "getById", "create", "release"} : Covered(c, op)
    BY <1>1, <1>2, <2>4, <2>5, <2>6, PlainCovered
  <2> QED
    BY <2>1, <2>7 DEF Told
<1>3. Told(Requests!StockViewsController)
  <2>1. ASSUME NEW route \in Requests!StockViewsController
        PROVE  /\ route.controller = "stock_views" /\ route.op \notin SpecialOps
               /\ ~Requests!MayMiss(route.controller, route.op)
    BY <2>1 DEF Requests!StockViewsController, Requests!Reads, Requests!Writes,
      Requests!Public, Requests!Route, Requests!Posting, SpecialOps, Requests!MayMiss
  <2> QED
    BY <1>1, <2>1, PlainCovered DEF Told
<1>4. Told(Requests!OutstandingPayablesController)
  <2>1. ASSUME NEW route \in Requests!OutstandingPayablesController
        PROVE  /\ route.controller = "outstanding_payables" /\ route.op \notin SpecialOps
               /\ ~Requests!MayMiss(route.controller, route.op)
    BY <2>1 DEF Requests!OutstandingPayablesController, Requests!Reads, Requests!Writes,
      Requests!Public, Requests!Route, Requests!Posting, SpecialOps, Requests!MayMiss
  <2> QED
    BY <1>1, <2>1, PlainCovered DEF Told
<1>5. Told(Requests!OutstandingReceivablesController)
  <2>1. ASSUME NEW route \in Requests!OutstandingReceivablesController
        PROVE  /\ route.controller = "outstanding_receivables" /\ route.op \notin SpecialOps
               /\ ~Requests!MayMiss(route.controller, route.op)
    BY <2>1 DEF Requests!OutstandingReceivablesController, Requests!Reads, Requests!Writes,
      Requests!Public, Requests!Route, Requests!Posting, SpecialOps, Requests!MayMiss
  <2> QED
    BY <1>1, <2>1, PlainCovered DEF Told
<1>6. Told(Requests!DashboardController)
  <2>1. ASSUME NEW route \in Requests!DashboardController
        PROVE  /\ route.controller = "dashboard" /\ route.op \notin SpecialOps
               /\ ~Requests!MayMiss(route.controller, route.op)
    BY <2>1 DEF Requests!DashboardController, Requests!Reads, Requests!Writes,
      Requests!Public, Requests!Route, Requests!Posting, SpecialOps, Requests!MayMiss
  <2> QED
    BY <1>1, <2>1, PlainCovered DEF Told
<1>7. Told(Requests!ReportsController)
  <2>1. ASSUME NEW route \in Requests!ReportsController
        PROVE  /\ route.controller = "reports" /\ route.op \notin SpecialOps
               /\ ~Requests!MayMiss(route.controller, route.op)
    BY <2>1 DEF Requests!ReportsController, Requests!Reads, Requests!Writes,
      Requests!Public, Requests!Route, Requests!Posting, SpecialOps, Requests!MayMiss
  <2> QED
    BY <1>1, <2>1, PlainCovered DEF Told
<1>8. Told(Requests!PermissionsController)
  <2>1. ASSUME NEW route \in Requests!PermissionsController
        PROVE  /\ route.controller = "permissions" /\ route.op \notin SpecialOps
               /\ ~Requests!MayMiss(route.controller, route.op)
    BY <2>1 DEF Requests!PermissionsController, Requests!Reads, Requests!Writes,
      Requests!Public, Requests!Route, Requests!Posting, SpecialOps, Requests!MayMiss
  <2> QED
    BY <1>1, <2>1, PlainCovered DEF Told
<1>9. Told(Requests!HealthController)
  <2>1. ASSUME NEW route \in Requests!HealthController
        PROVE  /\ route.controller = "health" /\ route.op \notin SpecialOps
               /\ ~Requests!MayMiss(route.controller, route.op)
    BY <2>1 DEF Requests!HealthController, Requests!Reads, Requests!Writes,
      Requests!Public, Requests!Route, Requests!Posting, SpecialOps, Requests!MayMiss
  <2> QED
    BY <1>1, <2>1, PlainCovered DEF Told
<1>10. Told(Requests!AuditController)
  <2>1. ASSUME NEW route \in Requests!AuditController
        PROVE  /\ route.controller = "audit"
               /\ route.op \in {"list", "tables"} \union {"getOne"}
    BY <2>1 DEF Requests!AuditController, Requests!Reads, Requests!Writes, Requests!Public,
      Requests!Route
  <2>2. ASSUME NEW op \in {"getOne"}  PROVE Catches("audit", op, "none")
    BY <2>2, LookupsCatch DEF Requests!Service, Requests!AuditService
  <2>3. \A op \in {"list", "tables"} \union {"getOne"} : op \notin SpecialOps
    BY DEF SpecialOps, Requests!Posting
  <2>4. \A op \in {"list", "tables"} : ~Requests!MayMiss("audit", op)
    BY DEF Requests!MayMiss
  <2>5. \A op \in {"list", "tables"} \union {"getOne"} : Covered("audit", op)
    BY <1>1, <2>2, <2>3, <2>4, PlainCovered
  <2> QED
    BY <2>1, <2>5 DEF Told
<1>11. Told(Requests!CompanyController)
  <2>1. ASSUME NEW route \in Requests!CompanyController
        PROVE  /\ route.controller = "company"
               /\ route.op \in {"getProfile", "updateProfile"}
    BY <2>1 DEF Requests!CompanyController, Requests!Reads, Requests!Writes, Requests!Public,
      Requests!Route
  <2>2. ASSUME NEW op \in {"getProfile", "updateProfile"}  PROVE Catches("company", op, "none")
    BY <2>2, LookupsCatch DEF Requests!Service, Requests!ProfileService
  <2>3. \A op \in {"getProfile", "updateProfile"} : op \notin SpecialOps
    BY DEF SpecialOps, Requests!Posting
  <2>5. \A op \in {"getProfile", "updateProfile"} : Covered("company", op)
    BY <1>1, <2>2, <2>3, PlainCovered
  <2> QED
    BY <2>1, <2>5 DEF Told
<1>12. Told(Requests!AuthController)
  <2>1. ASSUME NEW route \in Requests!AuthController
        PROVE  /\ route.controller = "auth"
               /\ route.op \in {"logout", "forgotPassword"} \union {"login", "refresh", "changePassword", "resetPassword", "getProfile", "updateProfile"}
    BY <2>1 DEF Requests!AuthController, Requests!Reads, Requests!Writes, Requests!Public,
      Requests!Route
  <2>2. ASSUME NEW op \in {"login", "refresh", "changePassword", "resetPassword", "getProfile", "updateProfile"}  PROVE Catches("auth", op, "none")
    <3>1. Requests!Service["auth"] = Requests!AuthService \union Requests!ProfileService
      BY DEF Requests!Service
    <3>2. CASE op \in {"login", "refresh", "changePassword"}
      <4>1. [op |-> op, result |-> "none", status |-> 401] \in Requests!AuthService
        BY <3>2 DEF Requests!AuthService, Requests!Rules
      <4> QED
        BY <3>1, <4>1 DEF Catches
    <3>3. CASE op = "resetPassword"
      <4>1. [op |-> "resetPassword", result |-> "none", status |-> 400] \in Requests!AuthService
        BY DEF Requests!AuthService, Requests!Rules
      <4> QED
        BY <3>1, <3>3, <4>1 DEF Catches
    <3>4. CASE op \in {"getProfile", "updateProfile"}
      BY <3>1, <3>4, LookupsCatch DEF Requests!ProfileService
    <3> QED
      BY <2>2, <3>2, <3>3, <3>4
  <2>3. \A op \in {"logout", "forgotPassword"} \union {"login", "refresh", "changePassword", "resetPassword", "getProfile", "updateProfile"} : op \notin SpecialOps
    BY DEF SpecialOps, Requests!Posting
  <2>4. \A op \in {"logout", "forgotPassword"} : ~Requests!MayMiss("auth", op)
    BY DEF Requests!MayMiss
  <2>5. \A op \in {"logout", "forgotPassword"} \union {"login", "refresh", "changePassword", "resetPassword", "getProfile", "updateProfile"} : Covered("auth", op)
    BY <1>1, <2>2, <2>3, <2>4, PlainCovered
  <2> QED
    BY <2>1, <2>5 DEF Told
<1>13. Told(Requests!TenantInfoController)
  <2>1. ASSUME NEW route \in Requests!TenantInfoController
        PROVE  /\ route.controller = "tenant_info"
               /\ route.op \in {"tenantInfo", "tlsCheck"}
    BY <2>1 DEF Requests!TenantInfoController, Requests!Reads, Requests!Writes, Requests!Public,
      Requests!Route
  <2>2. ASSUME NEW op \in {"tenantInfo", "tlsCheck"}  PROVE Catches("tenant_info", op, "none")
    <3>1. Requests!Service["tenant_info"] = Requests!TenantInfo
      BY DEF Requests!Service
    <3>2. /\ [op |-> "tenantInfo", result |-> "none", status |-> 404] \in Requests!TenantInfo
          /\ [op |-> "tlsCheck", result |-> "none", status |-> 403] \in Requests!TenantInfo
      BY DEF Requests!TenantInfo, Requests!LookupRules, Requests!Rules
    <3> QED
      BY <2>2, <3>1, <3>2 DEF Catches
  <2>3. \A op \in {"tenantInfo", "tlsCheck"} : op \notin SpecialOps
    BY DEF SpecialOps, Requests!Posting
  <2>5. \A op \in {"tenantInfo", "tlsCheck"} : Covered("tenant_info", op)
    BY <1>1, <2>2, <2>3, PlainCovered
  <2> QED
    BY <2>1, <2>5 DEF Told
<1>14. Told(Requests!SignupController)
  <2>1. [op |-> "signup", result |-> "CodeTaken", status |-> 409] \in Requests!Service["signup"]
    BY DEF Requests!Service, Requests!TenantProvisioningService, Requests!Rules
  <2>2. Requests!Raises("signup", "signup") \subseteq Known \union {"CodeTaken"}
    BY DEF Requests!Raises, Requests!MayMiss, Requests!Posting, Requests!Issues, Known,
      Requests!ConstraintErrors, Requests!DataErrors
  <2>3. Covered("signup", "signup")
    BY <1>1, <2>1, <2>2 DEF Covered, Catches
  <2> QED
    BY <2>3 DEF Told, Requests!SignupController, Requests!Public
<1>15. Told(Requests!OpeningStockController)
  <2>1. Requests!Raises("opening_stock", "post")
          \subseteq Known \union {"none", "NotPositive", "OpeningStockAlreadyPosted"}
    BY DEF Requests!Raises, Requests!Posting, Requests!Issues, Known, Requests!ConstraintErrors,
      Requests!DataErrors
  <2>2. /\ [op |-> "post", result |-> "NotPositive", status |-> 400] \in Requests!OpeningStockService
        /\ [op |-> "post", result |-> "OpeningStockAlreadyPosted", status |-> 409]
             \in Requests!OpeningStockService
        /\ [op |-> "post", result |-> "none", status |-> 404] \in Requests!OpeningStockService
    BY DEF Requests!OpeningStockService, Requests!LookupRules, Requests!Rules
  <2>3. Requests!Service["opening_stock"] = Requests!OpeningStockService
    BY DEF Requests!Service
  <2>4. Covered("opening_stock", "post")
    BY <1>1, <2>1, <2>2, <2>3 DEF Covered, Catches
  <2> QED
    BY <1>1, <2>4, WritesTold DEF Requests!OpeningStockController
<1>16. ASSUME NEW c \in {"supplier_payments", "customer_payments"}
       PROVE  Told(Requests!PaymentRoutes(c))
  <2>1. ASSUME NEW route \in Requests!PaymentRoutes(c)
        PROVE  route.controller = c /\ route.op \in {"list", "getById", "create"}
    BY <2>1 DEF Requests!PaymentRoutes, Requests!ListAndGet, Requests!Reads, Requests!Writes,
      Requests!Route
  <2>2. ASSUME NEW op \in {"list", "getById", "create"}
        PROVE  Requests!Raises(c, op)
                 \subseteq Known \union (IF op = "create" THEN {"InvalidAllocation"} ELSE {})
                           \union (IF op = "getById" THEN {"none"} ELSE {})
    BY <1>16, <2>2 DEF Requests!Raises, Requests!Posting, Requests!Issues, Known,
      Requests!ConstraintErrors, Requests!DataErrors, Requests!MayMiss
  <2>3. /\ [op |-> "create", result |-> "InvalidAllocation", status |-> 400] \in Requests!PaymentRules
        /\ [op |-> "getById", result |-> "none", status |-> 404] \in Requests!PaymentRules
    BY DEF Requests!PaymentRules, Requests!LookupRules, Requests!Rules
  <2>4. Requests!Service[c] = Requests!PaymentRules
    BY <1>16 DEF Requests!Service, Requests!SupplierPaymentsService,
      Requests!CustomerPaymentsService
  <2>5. Catches(c, "create", "InvalidAllocation") /\ Catches(c, "getById", "none")
    BY <2>3, <2>4 DEF Catches
  <2>6. \A op \in {"list", "getById", "create"} : Covered(c, op)
    BY <1>1, <1>16, <2>2, <2>5 DEF Covered, Special
  <2> QED
    BY <2>1, <2>6 DEF Told
<1>17. Told(Requests!UsersController)
  <2>2. ASSUME NEW op \in {"list", "create", "update", "setRoles", "resetPassword"}
        PROVE  Requests!Raises("users", op)
                 \subseteq Known \union (IF op = "list" THEN {} ELSE Requests!AccessErrors)
    BY <2>2 DEF Requests!Raises, Requests!Posting, Requests!Issues, Known,
      Requests!ConstraintErrors, Requests!DataErrors, Requests!AccessErrors, Requests!MayMiss
  <2>3. Requests!Service["users"] = Requests!MapAccessError({"create", "update", "setRoles", "resetPassword"})
    BY DEF Requests!Service, Requests!UsersRules
  <2>4. ASSUME NEW op \in {"list", "create", "update", "setRoles", "resetPassword"}
        PROVE  Covered("users", op)
    <3>1. ASSUME NEW res \in Requests!Raises("users", op), res \notin Known
          PROVE  \E rule \in Requests!Service["users"] : rule.op = op /\ rule.result = res
      <4>1. res \in Requests!AccessErrors /\ op \in {"create", "update", "setRoles", "resetPassword"}
        BY <2>2, <3>1
      <4>2. [op |-> op, result |-> res, status |-> IF res = "AccessNotFound" THEN 404 ELSE 409]
              \in Requests!MapAccessError({"create", "update", "setRoles", "resetPassword"})
        BY <4>1 DEF Requests!MapAccessError, Requests!Rules, Requests!AccessErrors
      <4> QED
        BY <2>3, <4>2
    <3> QED
      BY <1>1, <3>1 DEF Covered, Catches, Special
  <2>5. ASSUME NEW route \in Requests!UsersController
        PROVE  route.controller = "users" /\ route.op \in {"list", "create", "update", "setRoles", "resetPassword"}
    <3>1. \/ route \in Requests!Reads("users", {"list"}, "users")
          \/ route \in Requests!Writes("users", "create", "users", "create")
          \/ route \in UNION {Requests!Writes("users", op, "users", "edit") :
                                op \in {"update", "setRoles", "resetPassword"}}
      BY <2>5 DEF Requests!UsersController
    <3>2. ASSUME NEW op \in {"update", "setRoles", "resetPassword"},
                 route \in Requests!Writes("users", op, "users", "edit")
          PROVE  route.controller = "users" /\ route.op \in {"update", "setRoles", "resetPassword"}
      BY <3>2 DEF Requests!Writes, Requests!Route
    <3> QED
      BY <3>1, <3>2 DEF Requests!Reads, Requests!Writes, Requests!Route
  <2> QED
    BY <2>4, <2>5 DEF Told
<1>18. Told(Requests!RolesController)
  <2>2. ASSUME NEW op \in {"list", "create", "getPermissions", "update", "setPermissions", "remove"}
        PROVE  Requests!Raises("roles", op)
                 \subseteq Known \union (IF op \in {"list", "create"} THEN {} ELSE Requests!AccessErrors)
    BY <2>2 DEF Requests!Raises, Requests!Posting, Requests!Issues, Known,
      Requests!ConstraintErrors, Requests!DataErrors, Requests!AccessErrors, Requests!MayMiss
  <2>3. Requests!Service["roles"]
          = Requests!MapAccessError({"update", "remove", "getPermissions", "setPermissions"})
    BY DEF Requests!Service, Requests!RolesRules
  <2>4. ASSUME NEW op \in {"list", "create", "getPermissions", "update", "setPermissions", "remove"}
        PROVE  Covered("roles", op)
    <3>1. ASSUME NEW res \in Requests!Raises("roles", op), res \notin Known
          PROVE  \E rule \in Requests!Service["roles"] : rule.op = op /\ rule.result = res
      <4>1. res \in Requests!AccessErrors /\ op \in {"update", "remove", "getPermissions", "setPermissions"}
        BY <2>2, <3>1
      <4>2. [op |-> op, result |-> res, status |-> IF res = "AccessNotFound" THEN 404 ELSE 409]
              \in Requests!MapAccessError({"update", "remove", "getPermissions", "setPermissions"})
        BY <4>1 DEF Requests!MapAccessError, Requests!Rules, Requests!AccessErrors
      <4> QED
        BY <2>3, <4>2
    <3> QED
      BY <1>1, <3>1 DEF Covered, Catches, Special
  <2>5. ASSUME NEW route \in Requests!RolesController
        PROVE  route.controller = "roles" /\ route.op \in {"list", "create", "getPermissions", "update", "setPermissions", "remove"}
    <3>1. \/ route \in Requests!Reads("roles", {"list", "getPermissions"}, "roles")
          \/ route \in Requests!Writes("roles", "create", "roles", "create")
          \/ route \in UNION {Requests!Writes("roles", op, "roles", "edit") :
                                op \in {"update", "setPermissions"}}
          \/ route \in Requests!Writes("roles", "remove", "roles", "delete")
      BY <2>5 DEF Requests!RolesController
    <3>2. ASSUME NEW op \in {"update", "setPermissions"},
                 route \in Requests!Writes("roles", op, "roles", "edit")
          PROVE  route.controller = "roles" /\ route.op \in {"update", "setPermissions"}
      BY <3>2 DEF Requests!Writes, Requests!Route
    <3> QED
      BY <3>1, <3>2 DEF Requests!Reads, Requests!Writes, Requests!Route
  <2> QED
    BY <2>4, <2>5 DEF Told
<1> QED
  BY <1>2, <1>3, <1>4, <1>5, <1>6, <1>7, <1>8, <1>9, <1>10, <1>11, <1>12, <1>13, <1>14, <1>15, <1>16, <1>17, <1>18
  DEF Requests!BlockedStockController, Requests!ReservedStockController,
    Requests!SupplierPaymentsController, Requests!CustomerPaymentsController

\* Every route is told what the repository behind it raises.
LEMMA RoutesTold == Told(Requests!AllRoutes)
BY CatalogueTold, PostingTold, OthersTold DEF Told, Requests!AllRoutes

\* Only success is told as success; a request that is answered with a server error met one, had a
\* value that PostgreSQL refused, or misses stock where the service does not know of it.
LEMMA RequestsTold == Spec => []Requests!ResultsAreTold
<1>1. Init => Requests!ResultsAreTold
  BY DEF Init, Requests!Init, Requests!Begin, Requests!ResultsAreTold
<1>2. ASSUME RequestInv, Requests!ResultsAreTold, [Next]_vars  PROVE Requests!ResultsAreTold'
  <2>1. CASE UNCHANGED requestVars
    BY <1>2, <2>1 DEF Requests!ResultsAreTold, requestVars
  <2>2. CASE part = "requests" /\ (Requests!Use \/ Requests!Authenticate \/ Requests!Authorize)
    <3>1. Requests!Use => at' = "authenticate" \/ reply' = 404
      BY DEF Requests!Use, Requests!To, Requests!Reply
    <3>2. Requests!Authenticate => at' = "authorize" \/ reply' = 401
      BY DEF Requests!Authenticate, Requests!To, Requests!Reply
    <3>3. Requests!Authorize => at' = "handler" \/ reply' = 403
      BY DEF Requests!Authorize, Requests!To, Requests!Reply
    <3> QED
      BY <2>2, <3>1, <3>2, <3>3 DEF Requests!ResultsAreTold
  <2>3. CASE part = "requests" /\ Requests!Handle
    <3> DEFINE c == request.route.controller
               op == request.route.op
    <3>1. request' = request /\ (reply' = 400 \/ \E res \in Requests!Raises(c, op) \union {"crash"} :
                                    reply' = Requests!Answer(c, op, res) /\ result' = res)
      <4>1. CASE Requests!NeedsContext /\ schema = None
        BY <2>3, <4>1 DEF Requests!Handle, Requests!Reply
      <4>2. CASE ~(Requests!NeedsContext /\ schema = None)
        <5>1. PICK res \in Requests!Raises(c, op) \union {"crash"} :
                Requests!Reply(Requests!Answer(c, op, res), res)
          BY <2>3, <4>2 DEF Requests!Handle
        <5> QED
          BY <5>1 DEF Requests!Reply
      <4> QED
        BY <4>1, <4>2
    <3>2. request.route \in Requests!AllRoutes
      BY <1>2, <2>3, ApplicationAssumption DEF RequestInv, Requests!RequestsAssumption
    <3>3. Covered(c, op)
      BY <3>2, RoutesTold DEF Told
    <3>4. ASSUME NEW res \in Requests!Raises(c, op), Requests!Answer(c, op, res) = 500
          PROVE  \/ res \in Requests!DataErrors
                 \/ res = "InsufficientStock" /\ <<c, op>> \in Requests!Untold
      BY <3>3, <3>4, ToldByRule DEF Covered
    <3>5. ASSUME NEW res \in Requests!Raises(c, op) \union {"crash"}, Requests!Answer(c, op, res) = 200
          PROVE  res = "ok"
      <4>1. "InsufficientStock" \notin {"ok", "none"} /\ "crash" \notin {"ok", "none"} /\ c \in Controllers
        BY <3>3 DEF Covered
      <4>2. res # "crash" /\ res # "InsufficientStock"
        BY <3>5, <4>1, FailuresAreTold
      <4> QED
        BY <3>3, <3>5, <4>2, ToldByRule DEF Covered
    <3>6. CASE reply' = 400
      BY <3>6 DEF Requests!ResultsAreTold
    <3>7. CASE \E res \in Requests!Raises(c, op) \union {"crash"} :
                 reply' = Requests!Answer(c, op, res) /\ result' = res
      <4>1. reply' = 200 => result' = "ok"
        BY <3>5, <3>7
      <4>2. reply' = 500 => \/ result' = "crash"
                            \/ result' \in Requests!DataErrors
                            \/ result' = "InsufficientStock" /\ <<c, op>> \in Requests!Untold
        BY <3>4, <3>7
      <4>3. request'.route.controller = c /\ request'.route.op = op
        BY <3>1
      <4> HIDE DEF c, op
      <4> QED
        BY <4>1, <4>2, <4>3 DEF Requests!ResultsAreTold
    <3> QED
      BY <3>1, <3>6, <3>7
  <2> QED
    BY <1>2, <2>1, <2>2, <2>3, RequestStep DEF Requests!Next
<1> QED
  BY <1>1, <1>2, RequestInvariant, PTL DEF Spec

\* The services of the catalogue answer with 404, or 400 if a file is missing.
LEMMA TableRules ==
  ASSUME NEW t \in DOMAIN Catalogue!Repo
  PROVE  \A rule \in Catalogue!Service[t] : rule.status \in {400, 404}
<1>1. \A ops : \A rule \in Catalogue!LookupRules(ops) : rule.status \in {400, 404}
  BY DEF Catalogue!LookupRules, Catalogue!Rules
<1>2. \A rule \in Catalogue!MasterDataService \union Catalogue!ProductsService : rule.status \in {400, 404}
  BY <1>1 DEF Catalogue!MasterDataService, Catalogue!ProductsService
<1>3. t \in {"branches", "brands", "categories", "customers", "employees", "gst_rates",
           "hsn_codes", "locations", "racks", "sub_categories", "suppliers", "taxes",
           "transporters", "units", "warehouses", "products", "product_barcodes",
           "product_batches", "product_images", "product_units"}
  BY DEF Catalogue!Repo
<1>4. CASE t \in {"branches", "brands", "categories", "customers", "employees", "gst_rates",
               "hsn_codes", "locations", "racks", "sub_categories", "suppliers", "taxes",
               "transporters", "units", "warehouses", "products"}
  BY <1>2, <1>4 DEF Catalogue!Service, Catalogue!BranchesService, Catalogue!BrandsService,
    Catalogue!CategoriesService, Catalogue!CustomersService, Catalogue!EmployeesService,
    Catalogue!GstRatesService, Catalogue!HsnCodesService, Catalogue!LocationsService,
    Catalogue!RacksService, Catalogue!SubCategoriesService, Catalogue!SuppliersService,
    Catalogue!TaxesService, Catalogue!TransportersService, Catalogue!UnitsService,
    Catalogue!WarehousesService
<1>5. CASE t \in {"product_barcodes", "product_batches", "product_images", "product_units"}
  BY <1>1, <1>5 DEF Catalogue!Rules, Catalogue!Service, Catalogue!ProductBarcodesService,
    Catalogue!ProductBatchesService, Catalogue!ProductImagesService, Catalogue!ProductUnitsService
<1> QED
  BY <1>3, <1>4, <1>5

\* What the statements on a table of the catalogue can end with is told, by the service or by the filter.
LEMMA TablesTold ==
  ASSUME NEW t \in DOMAIN Catalogue!Repo, NEW op, NEW res \in {"ok", "none", "23505", "23503", "23001"}
  PROVE  Catalogue!Answer(t, op, res) # 500
<1>1. \A rule \in Catalogue!Service[t] : rule.status \in {400, 404}
  BY TableRules
<1>2. Catalogue!Filter(res) # 500
  BY DEF Catalogue!Filter
<1> DEFINE rules == {r \in Catalogue!Service[t] : r.op = op /\ r.result = res}
<1>3. rules # {} => (CHOOSE r \in rules : TRUE) \in Catalogue!Service[t]
  OBVIOUS
<1> QED
  BY <1>1, <1>2, <1>3 DEF Catalogue!Answer

\* A request on a row is answered with a server error only if it is a PATCH that PostgreSQL refuses.
LEMMA RowsTold == Spec => []Catalogue!ConstraintsAreTold
<1> DEFINE Inv == DOMAIN rowPc = RowRequest /\ DOMAIN rowReply = RowRequest /\ Catalogue!ConstraintsAreTold
<1>1. Init => Inv
  BY DEF Init, Catalogue!Init, Catalogue!Begin, Catalogue!ConstraintsAreTold
<1>2. ASSUME Inv, [Next]_vars  PROVE Inv'
  <2>1. CASE UNCHANGED catalogueVars
    BY <1>2, <2>1 DEF Catalogue!ConstraintsAreTold, catalogueVars
  <2>2. ASSUME NEW r \in RowRequest, Catalogue!Step(r) \/ Catalogue!Fail(r)  PROVE Inv'
    <3> DEFINE results == {"ok", "none", "23505", "23503", "23001"}
               refused == /\ Catalogue!Op(r) = "update" /\ RowCall[r].set = Catalogue!NoColumns
                          /\ ~Catalogue!Repo[Catalogue!Table(r)].touches
    <3>1. \A id, columns : Catalogue!Stored(id, columns) \in results
      BY DEF Catalogue!Stored
    <3>2. \A id : Catalogue!Deleted(id) \subseteq results
      BY DEF Catalogue!Deleted
    <3>3. \/ \E l : l # "done" /\ Catalogue!Goto(r, l)
          \/ \E res : Catalogue!Finish(r, res) /\ (res \in results \/ refused)
          \/ rowPc' = [rowPc EXCEPT ![r] = "failed"] /\ rowReply' = [rowReply EXCEPT ![r] = 500]
      <4>1. CASE Catalogue!GetOwned(r)
        BY <4>1 DEF Catalogue!GetOwned
      <4>2. CASE Catalogue!Create(r)
        BY <3>1, <4>2 DEF Catalogue!Create
      <4>3. CASE Catalogue!Update(r)
        BY <3>1, <4>3 DEF Catalogue!Update, Catalogue!Ready
      <4>4. CASE Catalogue!RemoveImage(r) \/ Catalogue!Unlink(r) \/ Catalogue!Upload(r)
                  \/ Catalogue!UnsetPrimaryForProduct(r)
        BY <4>4 DEF Catalogue!RemoveImage, Catalogue!Unlink, Catalogue!Upload,
          Catalogue!UnsetPrimaryForProduct
      <4>5. CASE Catalogue!Remove(r)
        BY <3>2, <4>5 DEF Catalogue!Remove
      <4>6. CASE Catalogue!SetPrimary(r)
        BY <3>1, <4>6 DEF Catalogue!SetPrimary
      <4>7. CASE Catalogue!FindDirect(r) \/ Catalogue!FindByUnit(r) \/ Catalogue!FindAdditional(r)
                  \/ Catalogue!GetById(r)
        BY <4>7 DEF Catalogue!FindDirect, Catalogue!FindByUnit, Catalogue!FindAdditional,
          Catalogue!GetById, Catalogue!Look
      <4>8. CASE Catalogue!Fail(r)
        BY <4>8 DEF Catalogue!Fail
      <4> QED
        BY <2>2, <4>1, <4>2, <4>3, <4>4, <4>5, <4>6, <4>7, <4>8 DEF Catalogue!Step
    <3>4. Catalogue!Table(r) \in DOMAIN Catalogue!Repo
      BY ApplicationAssumption DEF Catalogue!CatalogueAssumption, Catalogue!RowsAssumption,
        Catalogue!CallAssumption, Catalogue!Table, Catalogue!Id
    <3>5. \A res \in results : Catalogue!Answer(Catalogue!Table(r), Catalogue!Op(r), res) # 500
      BY <3>4, TablesTold
    <3> QED
      BY <1>2, <3>3, <3>5 DEF Catalogue!Goto, Catalogue!Finish, Catalogue!ConstraintsAreTold
  <2> QED
    BY <1>2, <2>1, <2>2, CatalogueStep DEF Catalogue!Next
<1> QED
  BY <1>1, <1>2, PTL DEF Spec

(***************************************************************************)
(* What a handler ends with is told to the client: success is told of      *)
(* success only, and 500 is left for failures of the system, for values    *)
(* that only PostgreSQL refuses (DataErrors, an UPDATE that sets nothing   *)
(* among them) and for insufficient stock in the two operations of Untold  *)
(* (all-exceptions.filter.ts and the catch clauses of all services).       *)
(***************************************************************************)
THEOREM ClientsAreTold == Spec => []ErrorsAreTold
BY RequestsTold, RowsTold, PTL DEF ErrorsAreTold


-----------------------------------------------------------------------------
(* Rows.                                                                   *)

IsPart(i)  == TableOf[i] \in Catalogue!Parts
OwnerOf(i)   == Catalogue!Get(rows[i], "product")
MarkOf(i)    == Catalogue!Get(rows[i], "primary")
Marks      == {Null, "yes"}

\* What the foreign key of a part and the type of is_primary ask for.
PartsInv ==
  /\ DOMAIN rows \subseteq Row
  /\ \A i \in DOMAIN rows : IsPart(i) => OwnerOf(i) \in Catalogue!Product \intersect DOMAIN rows
  /\ \A i \in DOMAIN rows : IsImage(i) => MarkOf(i) \in Marks

\* The references of parts, and which tables a deletion cascades to.
LEMMA PartReferences ==
  /\ \A t \in Catalogue!Parts :
       /\ t \in DOMAIN Catalogue!Repo /\ "product" \in DOMAIN Catalogue!Repo[t].refs
       /\ Catalogue!Repo[t].refs["product"].onDelete \in {"cascade", "restrict"}
  /\ \A t \in DOMAIN Catalogue!Repo : \A c \in DOMAIN Catalogue!Repo[t].refs :
       Catalogue!Repo[t].refs[c].onDelete = "cascade" => t \in Catalogue!Parts
<1> USE DEF Catalogue!Repository, Catalogue!Restrict, Catalogue!Cascade, Catalogue!SetNull,
  Catalogue!Reference, Catalogue!NoColumns
<1>1. \A t \in Catalogue!Parts :
        /\ t \in DOMAIN Catalogue!Repo /\ "product" \in DOMAIN Catalogue!Repo[t].refs
        /\ Catalogue!Repo[t].refs["product"].onDelete \in {"cascade", "restrict"}
  BY DEF Catalogue!Parts, Catalogue!Repo, Catalogue!ProductUnitKyselyRepository,
    Catalogue!ProductBatchKyselyRepository, Catalogue!ProductBarcodeKyselyRepository,
    Catalogue!ProductImageKyselyRepository
<1> DEFINE Gentle(repository) == \A c \in DOMAIN repository.refs : repository.refs[c].onDelete # "cascade"
<1>2. \A t \in {"branches", "categories", "brands", "units", "suppliers", "customers", "transporters",
               "taxes", "gst_rates", "employees"} : Gentle(Catalogue!Repo[t])
  BY DEF Catalogue!Repo, Catalogue!Plain, Catalogue!BranchKyselyRepository,
    Catalogue!CategoryKyselyRepository, Catalogue!BrandKyselyRepository,
    Catalogue!UnitKyselyRepository, Catalogue!SupplierKyselyRepository,
    Catalogue!CustomerKyselyRepository, Catalogue!TransporterKyselyRepository,
    Catalogue!TaxKyselyRepository, Catalogue!GstRateKyselyRepository,
    Catalogue!EmployeeKyselyRepository
<1>3. /\ Gentle(Catalogue!HsnCodeKyselyRepository) /\ Gentle(Catalogue!SubCategoryKyselyRepository)
      /\ Gentle(Catalogue!RackKyselyRepository) /\ Gentle(Catalogue!LocationKyselyRepository)
  BY DEF Catalogue!HsnCodeKyselyRepository, Catalogue!SubCategoryKyselyRepository,
    Catalogue!RackKyselyRepository, Catalogue!LocationKyselyRepository
<1>4. Gentle(Catalogue!WarehouseKyselyRepository)
  BY DEF Catalogue!WarehouseKyselyRepository
<1>5. Gentle(Catalogue!ProductKyselyRepository)
  BY DEF Catalogue!ProductKyselyRepository
<1>6. \A t \in {"hsn_codes", "sub_categories", "racks", "locations", "warehouses", "products"} :
        Gentle(Catalogue!Repo[t])
  BY <1>3, <1>4, <1>5 DEF Catalogue!Repo
<1>7. \A t \in DOMAIN Catalogue!Repo \ Catalogue!Parts : Gentle(Catalogue!Repo[t])
  BY <1>2, <1>6 DEF Catalogue!Repo, Catalogue!Parts
<1> QED
  BY <1>1, <1>7

\* The constraints of images.
LEMMA ImageConstraints ==
  /\ Catalogue!Repo["product_images"].unique = {{"product", "primary"}}
  /\ DOMAIN Catalogue!Repo["product_images"].refs = {"product"}
BY DEF Catalogue!Repo, Catalogue!Repository, Catalogue!ProductImageKyselyRepository

\* The columns that are sent take their new values.
LEMMA SetColumns ==
  ASSUME NEW columns, NEW new, NEW c
  PROVE  Catalogue!Get(Catalogue!Set(columns, new), c) = IF c \in DOMAIN new THEN new[c]
                                                         ELSE Catalogue!Get(columns, c)
BY DEF Catalogue!Get, Catalogue!Set

\* A row that is stored, with the product of a part.
LEMMA PutKeeps ==
  ASSUME PartsInv, NEW id \in Row, NEW columns, rows' = Catalogue!Put(id, columns),
         IsPart(id) => Catalogue!Get(columns, "product") \in Catalogue!Product \intersect DOMAIN rows,
         IsImage(id) => Catalogue!Get(columns, "primary") \in Marks
  PROVE  PartsInv'
BY DEF PartsInv, Catalogue!Put, IsPart, IsImage, OwnerOf, MarkOf

\* Rows that are deleted leave no part without its product.
LEMMA WithoutKeeps ==
  ASSUME PartsInv, NEW ids, rows' = Catalogue!Without(ids),
         \A i \in DOMAIN rows \ ids : IsPart(i) => OwnerOf(i) \notin ids
  PROVE  PartsInv'
<1>1. DOMAIN rows' = DOMAIN rows \ ids
  BY DEF Catalogue!Without
<1>2. ASSUME NEW i \in DOMAIN rows'
      PROVE  /\ DOMAIN rows'[i] = {c \in DOMAIN rows[i] :
                                     ~(c \in DOMAIN Catalogue!Repo[TableOf[i]].refs /\ rows[i][c] \in ids)}
             /\ \A c \in DOMAIN rows'[i] : rows'[i][c] = rows[i][c]
  BY <1>2 DEF Catalogue!Without
<1>3. ASSUME NEW i \in DOMAIN rows', IsPart(i)
      PROVE  OwnerOf(i)' \in Catalogue!Product \intersect DOMAIN rows'
  <2>1. OwnerOf(i) \in Catalogue!Product \intersect DOMAIN rows /\ OwnerOf(i) \notin ids /\ OwnerOf(i) # Null
    BY <1>1, <1>3, ApplicationAssumption DEF PartsInv, Catalogue!CatalogueAssumption,
      Catalogue!Product
  <2>2. OwnerOf(i)' = OwnerOf(i)
    BY <1>2, <2>1 DEF OwnerOf, Catalogue!Get
  <2> QED
    BY <1>1, <2>1, <2>2
<1>4. ASSUME NEW i \in DOMAIN rows', IsImage(i)  PROVE MarkOf(i)' \in Marks
  <2>1. MarkOf(i) \in Marks
    BY <1>1, <1>4 DEF PartsInv
  <2> QED
    BY <1>2, <2>1 DEF MarkOf, Marks, Catalogue!Get
<1> QED
  BY <1>1, <1>3, <1>4 DEF PartsInv, IsPart, IsImage, Catalogue!Product

\* A part is deleted together with its product.
LEMMA CascadeReachesParts ==
  ASSUME PartsInv, NEW id, Catalogue!Referring(Catalogue!Cascaded(id), "restrict") = {},
         NEW i \in DOMAIN rows \ Catalogue!Cascaded(id), IsPart(i)
  PROVE  OwnerOf(i) \notin Catalogue!Cascaded(id)
<1> DEFINE p == OwnerOf(i)
<1> SUFFICES ASSUME p \in Catalogue!Cascaded(id)  PROVE FALSE
  OBVIOUS
<1>1. /\ TableOf[i] \in Catalogue!Parts /\ i \in DOMAIN rows /\ TableOf[p] = "products"
      /\ "product" \in DOMAIN Catalogue!Repo[TableOf[i]].refs
  BY PartReferences DEF PartsInv, IsPart, Catalogue!Product
<1>2. \A ids : p \notin Catalogue!Referring(ids, "cascade")
  <2>1. p \in DOMAIN rows => TableOf[p] \in DOMAIN Catalogue!Repo
    BY ApplicationAssumption DEF PartsInv, Catalogue!CatalogueAssumption
  <2>2. TableOf[p] \notin Catalogue!Parts
    BY <1>1 DEF Catalogue!Parts
  <2> QED
    BY <2>1, <2>2, PartReferences DEF Catalogue!Referring
<1>3. p = id
  BY <1>2 DEF Catalogue!Cascaded
<1>4. CASE Catalogue!Repo[TableOf[i]].refs["product"].onDelete = "cascade"
  BY <1>1, <1>3, <1>4 DEF Catalogue!Referring, Catalogue!Cascaded, OwnerOf
<1>5. CASE Catalogue!Repo[TableOf[i]].refs["product"].onDelete = "restrict"
  BY <1>1, <1>5 DEF Catalogue!Referring, OwnerOf
<1> QED
  BY <1>1, <1>4, <1>5, PartReferences

\* A stored part refers to a product.
LEMMA StoredPart ==
  ASSUME NEW id, NEW columns, Catalogue!Stored(id, columns) = "ok", IsPart(id),
         Catalogue!Get(columns, "product") \in Catalogue!Product
  PROVE  Catalogue!Get(columns, "product") \in DOMAIN rows
<1>1. ~Catalogue!Dangles(id, columns)
  BY DEF Catalogue!Stored
<1>2. Catalogue!Get(columns, "product") # Null
  BY ApplicationAssumption DEF Catalogue!CatalogueAssumption, Catalogue!Product
<1> QED
  BY <1>1, <1>2, PartReferences DEF Catalogue!Dangles, IsPart

\* What the catalogue may assume of a call.
LEMMA CallOfRoute == \A r \in RowRequest : Catalogue!CallAssumption(r)
BY ApplicationAssumption DEF Catalogue!CatalogueAssumption

\* A new row or one with other columns has what its part needs.
LEMMA StoredKeeps ==
  ASSUME PartsInv, NEW id \in Row, NEW columns, Catalogue!Stored(id, columns) = "ok",
         rows' = Catalogue!Put(id, columns),
         IsPart(id) => Catalogue!Get(columns, "product") \in Catalogue!Product,
         IsImage(id) => Catalogue!Get(columns, "primary") \in Marks
  PROVE  PartsInv'
BY StoredPart, PutKeeps

\* The mark is taken from the images of a product, which stay where they are.
LEMMA UnsetColumns ==
  ASSUME NEW p, NEW i \in DOMAIN rows, rows' = Catalogue!Unset(p)
  PROVE  /\ DOMAIN rows' = DOMAIN rows
         /\ OwnerOf(i)' = OwnerOf(i)
         /\ MarkOf(i)' = IF IsImage(i) /\ OwnerOf(i) = p THEN Null ELSE MarkOf(i)
<1>1. DOMAIN rows' = DOMAIN rows
  BY DEF Catalogue!Unset
<1>2. CASE IsImage(i) /\ OwnerOf(i) = p
  <2>1. rows'[i] = [c \in DOMAIN rows[i] \ {"primary"} |-> rows[i][c]]
    BY <1>2 DEF Catalogue!Unset, IsImage, OwnerOf
  <2> QED
    BY <1>1, <1>2, <2>1 DEF OwnerOf, MarkOf, Catalogue!Get
<1>3. CASE ~(IsImage(i) /\ OwnerOf(i) = p)
  <2>1. rows'[i] = rows[i]
    BY <1>3 DEF Catalogue!Unset, IsImage, OwnerOf
  <2> QED
    BY <1>1, <1>3, <2>1 DEF OwnerOf, MarkOf
<1> QED
  BY <1>2, <1>3

\* Every step of a request keeps the parts with their products.
LEMMA PartsStep ==
  ASSUME PartsInv, NEW r \in RowRequest, Catalogue!Step(r) \/ Catalogue!Fail(r)
  PROVE  PartsInv'
<1> DEFINE id == Catalogue!Id(r)
           set == RowCall[r].set
<1>1. /\ id \in Row /\ Catalogue!CallAssumption(r)
      /\ id \in DOMAIN rows /\ IsPart(id) => OwnerOf(id) \in Catalogue!Product
      /\ id \in DOMAIN rows /\ IsImage(id) => MarkOf(id) \in Marks
  BY CallOfRoute DEF PartsInv, Catalogue!CallAssumption, Catalogue!Id
<1>2. CASE UNCHANGED rows
  BY <1>2 DEF PartsInv, IsPart, IsImage, OwnerOf, MarkOf, Catalogue!Product
<1>3. CASE Catalogue!Create(r) /\ rows' # rows
  <2> DEFINE new == Catalogue!Set(set, Catalogue!NoColumns)
  <2>1. Catalogue!Op(r) = "create" /\ Catalogue!Stored(id, set) = "ok" /\ rows' = Catalogue!Put(id, new)
    BY <1>3 DEF Catalogue!Create, Catalogue!Ready
  <2>2. \A c : Catalogue!Get(new, c) = Catalogue!Get(set, c)
    BY SetColumns DEF Catalogue!NoColumns
  <2>3. ~IsImage(id) /\ (IsPart(id) => Catalogue!Get(set, "product") \in Catalogue!Product)
    BY <1>1, <2>1 DEF Catalogue!CallAssumption, Catalogue!Op, Catalogue!Id, IsImage, IsPart
  <2>4. IsPart(id) => Catalogue!Get(new, "product") \in Catalogue!Product \intersect DOMAIN rows
    BY <2>1, <2>2, <2>3, StoredPart
  <2> QED
    BY <1>1, <2>1, <2>3, <2>4, PutKeeps
<1>4. CASE Catalogue!Update(r) /\ rows' # rows
  <2> DEFINE new == Catalogue!Set(rows[id], set)
  <2>1. /\ Catalogue!Op(r) = "update" /\ id \in DOMAIN rows
        /\ Catalogue!Stored(id, new) = "ok" /\ rows' = Catalogue!Put(id, new)
    BY <1>4 DEF Catalogue!Update, Catalogue!Ready
  <2>2. ~IsImage(id) /\ (IsPart(id) => "product" \notin DOMAIN set)
    BY <1>1, <2>1 DEF Catalogue!CallAssumption, Catalogue!Op, Catalogue!Id, IsImage, IsPart
  <2>3. IsPart(id) => Catalogue!Get(new, "product") = OwnerOf(id)
    BY <2>2, SetColumns DEF OwnerOf
  <2> QED
    BY <1>1, <2>1, <2>2, <2>3, StoredKeeps
<1>5. CASE Catalogue!RemoveImage(r)
  <2>1. rows' = Catalogue!Without({id}) /\ id \notin Catalogue!Product
    BY <1>5 DEF Catalogue!RemoveImage, Catalogue!Table, Catalogue!Id, Catalogue!Product
  <2> QED
    BY <2>1, WithoutKeeps DEF PartsInv
<1>6. CASE Catalogue!Remove(r) /\ rows' # rows
  <2>1. rows' = Catalogue!Without(Catalogue!Cascaded(id)) /\ "ok" \in Catalogue!Deleted(id)
    BY <1>6 DEF Catalogue!Remove
  <2>2. Catalogue!Referring(Catalogue!Cascaded(id), "restrict") = {}
    BY <2>1 DEF Catalogue!Deleted
  <2> QED
    BY <2>1, <2>2, WithoutKeeps, CascadeReachesParts
<1>7. CASE Catalogue!UnsetPrimaryForProduct(r)
  <2>1. rows' = Catalogue!Unset(RowCall[r].product)
    BY <1>7 DEF Catalogue!UnsetPrimaryForProduct
  <2>2. DOMAIN rows' = DOMAIN rows
    BY <2>1 DEF Catalogue!Unset
  <2> QED
    BY <2>1, <2>2, UnsetColumns DEF PartsInv, IsPart, IsImage, Marks, Catalogue!Product
<1>8. CASE Catalogue!SetPrimary(r) /\ rows' # rows
  <2>1. CASE Catalogue!Op(r) = "upload"
    <3>1. Catalogue!Stored(id, set) = "ok" /\ rows' = Catalogue!Put(id, set)
      BY <1>8, <2>1 DEF Catalogue!SetPrimary
    <3>2. /\ IsPart(id) => Catalogue!Get(set, "product") \in Catalogue!Product
          /\ Catalogue!Get(set, "primary") \in Marks
      BY <1>1, <2>1 DEF Catalogue!CallAssumption, Catalogue!Op, Catalogue!Id, IsPart, Marks
    <3> QED
      BY <1>1, <3>1, <3>2, StoredKeeps
  <2>2. CASE Catalogue!Op(r) # "upload"
    <3> DEFINE new == Catalogue!Set(rows[id], [primary |-> "yes"])
    <3>1. id \in DOMAIN rows /\ Catalogue!Stored(id, new) = "ok" /\ rows' = Catalogue!Put(id, new)
      BY <1>8, <2>2 DEF Catalogue!SetPrimary
    <3>2. Catalogue!Get(new, "product") = OwnerOf(id) /\ Catalogue!Get(new, "primary") = "yes"
      BY SetColumns DEF OwnerOf
    <3> QED
      BY <1>1, <3>1, <3>2, StoredKeeps DEF Marks
  <2> QED
    BY <2>1, <2>2
<1>9. Catalogue!GetOwned(r) \/ Catalogue!Unlink(r) \/ Catalogue!Upload(r) \/ Catalogue!FindDirect(r)
        \/ Catalogue!FindByUnit(r) \/ Catalogue!FindAdditional(r) \/ Catalogue!GetById(r)
        \/ Catalogue!Fail(r) => UNCHANGED rows
  BY DEF Catalogue!GetOwned, Catalogue!Unlink, Catalogue!Upload, Catalogue!FindDirect,
    Catalogue!FindByUnit, Catalogue!FindAdditional, Catalogue!GetById, Catalogue!Fail
<1> QED
  BY <1>2, <1>3, <1>4, <1>5, <1>6, <1>7, <1>8, <1>9 DEF Catalogue!Step

\* Parts have a product that exists, at the beginning and after each step.
LEMMA PartsInvariant == Spec => []PartsInv
<1>1. Init => PartsInv
  <2> SUFFICES ASSUME Init  PROVE PartsInv
    OBVIOUS
  <2>1. rows = InitialRows
    BY DEF Init, Catalogue!Init, Catalogue!Begin
  <2> QED
    BY <2>1, ApplicationAssumption DEF Catalogue!CatalogueAssumption, Catalogue!RowsAssumption,
      PartsInv, IsPart, IsImage, OwnerOf, MarkOf, Marks
<1>2. ASSUME PartsInv, [Next]_vars  PROVE PartsInv'
  <2>1. CASE UNCHANGED catalogueVars
    BY <1>2, <2>1 DEF catalogueVars, PartsInv, IsPart, IsImage, OwnerOf, MarkOf, Catalogue!Product
  <2>2. CASE Catalogue!Next
    BY <1>2, <2>2, PartsStep DEF Catalogue!Next
  <2> QED
    BY <1>2, <2>1, <2>2, CatalogueStep
<1> QED
  BY <1>1, <1>2, PTL DEF Spec

-----------------------------------------------------------------------------
(* The primary image of a product.                                         *)

MarkedImages(p) == {i \in DOMAIN rows : IsImage(i) /\ OwnerOf(i) = p /\ MarkOf(i) # Null}

\* No image was removed, and no request died.
Clean ==
  \A r \in RowRequest :
    rowPc[r] # "failed" /\ (Catalogue!Op(r) = "remove" => rowPc[r] \in {"unsent", "start", "write"})

\* r gives the mark to an image of p.
Marking(r, p) ==
  /\ RowCall[r].product = p
  /\ Catalogue!Op(r) = "upload" => Catalogue!Get(RowCall[r].set, "primary") # Null

\* Only requests for a primary image take the mark away, and the image it goes to is there.
MarkerInv(r) ==
  rowPc[r] \in {"unset", "set"} =>
    /\ Catalogue!Op(r) \in {"upload", "setPrimary"}
    /\ rowPc[r] = "unset" => Marking(r, RowCall[r].product)
    /\ Clean /\ Catalogue!Op(r) = "setPrimary" =>
         Catalogue!Id(r) \in DOMAIN rows /\ OwnerOf(Catalogue!Id(r)) = RowCall[r].product

ImagesOfBeginning == {i \in DOMAIN InitialRows : IsImage(i)}

(***************************************************************************)
(* The images of the beginning are still there, a product has one primary  *)
(* image at most, and if it had one it has one or a request is about to    *)
(* give it one.                                                            *)
(***************************************************************************)
Kept ==
  /\ \A i \in ImagesOfBeginning :
       i \in DOMAIN rows /\ OwnerOf(i) = Catalogue!Get(InitialRows[i], "product")
  /\ \A p : \A i, j \in MarkedImages(p) : i = j
  /\ \A p : Catalogue!PrimaryImages(p, InitialRows) # {} =>
       MarkedImages(p) # {} \/ \E r \in RowRequest : rowPc[r] = "set" /\ Marking(r, p)

MarkInv ==
  /\ \A r \in RowRequest : MarkerInv(r)
  /\ Clean => Kept

\* As long as nothing is removed and nobody dies, nothing was removed and nobody had died.
LEMMA CleanStep ==
  ASSUME DOMAIN rowPc = RowRequest, NEW r \in RowRequest, Catalogue!Step(r) \/ Catalogue!Fail(r), Clean'
  PROVE  Clean /\ ~Catalogue!Fail(r) /\ ~Catalogue!Remove(r) /\ ~Catalogue!RemoveImage(r)
<1>1. PICK l : rowPc' = [rowPc EXCEPT ![r] = l]
  BY DEF Catalogue!Step, Catalogue!Fail, Catalogue!GetOwned, Catalogue!Create, Catalogue!Update,
    Catalogue!RemoveImage, Catalogue!Unlink, Catalogue!Remove, Catalogue!Upload,
    Catalogue!UnsetPrimaryForProduct, Catalogue!SetPrimary, Catalogue!FindDirect,
    Catalogue!FindByUnit, Catalogue!FindAdditional, Catalogue!GetById, Catalogue!Look,
    Catalogue!Finish, Catalogue!Goto
<1>2. l # "failed" /\ (Catalogue!Op(r) = "remove" => l \in {"unsent", "start", "write"})
  BY <1>1 DEF Clean
<1>3. ~Catalogue!Fail(r) /\ ~Catalogue!Remove(r) /\ ~Catalogue!RemoveImage(r)
  BY <1>1, <1>2 DEF Catalogue!Fail, Catalogue!Remove, Catalogue!RemoveImage, Catalogue!Ready,
    Catalogue!Finish, Catalogue!Goto
<1>4. rowPc[r] # "failed" /\ (Catalogue!Op(r) = "remove" => rowPc[r] = "start")
  <2>1. CASE Catalogue!GetOwned(r)
    BY <2>1 DEF Catalogue!GetOwned
  <2>2. CASE Catalogue!Create(r) \/ Catalogue!Update(r)
    BY <2>2 DEF Catalogue!Create, Catalogue!Update, Catalogue!Ready
  <2>3. CASE Catalogue!Unlink(r) \/ Catalogue!Upload(r) \/ Catalogue!UnsetPrimaryForProduct(r)
               \/ Catalogue!SetPrimary(r)
    BY <1>1, <1>2, <2>3 DEF Catalogue!Unlink, Catalogue!Upload, Catalogue!UnsetPrimaryForProduct,
      Catalogue!SetPrimary, Catalogue!Finish, Catalogue!Goto
  <2>4. CASE Catalogue!FindDirect(r) \/ Catalogue!FindByUnit(r) \/ Catalogue!FindAdditional(r)
               \/ Catalogue!GetById(r)
    BY <1>1, <1>2, <2>4 DEF Catalogue!FindDirect, Catalogue!FindByUnit, Catalogue!FindAdditional,
      Catalogue!GetById, Catalogue!Look, Catalogue!Finish, Catalogue!Goto
  <2> QED
    BY <1>3, <2>1, <2>2, <2>3, <2>4 DEF Catalogue!Step
<1> QED
  BY <1>1, <1>3, <1>4 DEF Clean

\* A row is neither stored nor deleted nor changed.
Stays(i) ==
  /\ (i \in DOMAIN rows') <=> (i \in DOMAIN rows)
  /\ i \in DOMAIN rows => rows'[i] = rows[i]

\* A step that leaves the images alone, of a request that was not giving the mark.
LEMMA QuietMarks ==
  ASSUME ImageInv, MarkInv, NEW r \in RowRequest, NEW l, rowPc' = [rowPc EXCEPT ![r] = l],
         rowPc[r] # "set", MarkerInv(r)', Clean' => Clean,
         Clean' => \A i : IsImage(i) => Stays(i)
  PROVE  MarkInv'
<1>1. Clean' => \A i \in DOMAIN rows : IsImage(i) => OwnerOf(i)' = OwnerOf(i) /\ MarkOf(i)' = MarkOf(i)
  BY DEF OwnerOf, MarkOf, Stays
<1>2. Clean' => \A p : MarkedImages(p)' = MarkedImages(p)
  BY <1>1 DEF MarkedImages, IsImage, Stays
<1>3. Clean' => Kept'
  <2> SUFFICES ASSUME Clean'  PROVE Kept'
    OBVIOUS
  <2>1. \A s \in RowRequest : rowPc[s] = "set" => rowPc'[s] = "set"
    BY DEF ImageInv
  <2>2. Kept
    BY DEF MarkInv
  <2> QED
    BY <1>1, <1>2, <2>1, <2>2 DEF Kept, Marking, ImagesOfBeginning, IsImage, Stays
<1>4. ASSUME NEW q \in RowRequest, q # r  PROVE MarkerInv(q)'
  <2>1. rowPc'[q] = rowPc[q] /\ MarkerInv(q)
    BY <1>4 DEF ImageInv, MarkInv
  <2>2. Catalogue!Op(q) = "setPrimary" => IsImage(Catalogue!Id(q))
    BY CallOfRoute DEF Catalogue!CallAssumption, IsImage, Catalogue!Op, Catalogue!Id
  <2> QED
    BY <1>1, <2>1, <2>2 DEF MarkerInv, Marking, Stays
<1> QED
  BY <1>3, <1>4 DEF MarkInv

\* The mark is taken from the images of the product of r.
LEMMA UnsetMarks ==
  ASSUME ImageInv, MarkInv, NEW r \in RowRequest, Catalogue!UnsetPrimaryForProduct(r), Clean' => Clean
  PROVE  MarkInv'
<1> DEFINE p == RowCall[r].product
<1>1. rowPc[r] = "unset" /\ rowPc' = [rowPc EXCEPT ![r] = "set"] /\ rows' = Catalogue!Unset(p)
  BY DEF Catalogue!UnsetPrimaryForProduct, Catalogue!Goto
<1>2. /\ DOMAIN rows' = DOMAIN rows
      /\ \A i \in DOMAIN rows : /\ OwnerOf(i)' = OwnerOf(i)
                                /\ MarkOf(i)' = IF IsImage(i) /\ OwnerOf(i) = p THEN Null ELSE MarkOf(i)
  <2>1. DOMAIN rows' = DOMAIN rows
    BY <1>1 DEF Catalogue!Unset
  <2> QED
    BY <1>1, <2>1, UnsetColumns
<1>3. /\ MarkedImages(p)' = {}
      /\ \A q : q # p => MarkedImages(q)' = MarkedImages(q)
  BY <1>2 DEF MarkedImages, IsImage
<1>4. MarkerInv(r) /\ Marking(r, p) /\ DOMAIN rowPc = RowRequest
  BY <1>1 DEF MarkInv, MarkerInv, ImageInv
<1>5. Clean' => Kept'
  <2> SUFFICES ASSUME Clean'  PROVE Kept'
    OBVIOUS
  <2>1. Kept
    BY DEF MarkInv
  <2>2. \A s \in RowRequest : rowPc[s] = "set" => rowPc'[s] = "set"
    BY <1>1, <1>4
  <2>3. rowPc'[r] = "set" /\ Marking(r, p)'
    BY <1>1, <1>4 DEF Marking
  <2>4. \A i \in ImagesOfBeginning :
          (i \in DOMAIN rows /\ OwnerOf(i) = Catalogue!Get(InitialRows[i], "product"))'
    BY <1>2, <2>1 DEF Kept, ImagesOfBeginning
  <2>5. \A q : \A i, j \in MarkedImages(q)' : i = j
    BY <1>3, <2>1 DEF Kept
  <2>6. ASSUME NEW q, Catalogue!PrimaryImages(q, InitialRows) # {}
        PROVE  MarkedImages(q)' # {} \/ \E s \in RowRequest : rowPc'[s] = "set" /\ Marking(s, q)'
    BY <1>3, <2>1, <2>2, <2>3, <2>6 DEF Kept, Marking
  <2> QED
    BY <2>4, <2>5, <2>6 DEF Kept, ImagesOfBeginning, IsImage
<1>6. ASSUME NEW q \in RowRequest  PROVE MarkerInv(q)'
  <2>1. MarkerInv(q) /\ (rowPc'[q] = IF q = r THEN "set" ELSE rowPc[q])
    BY <1>1, <1>4 DEF MarkInv
  <2> QED
    BY <1>1, <1>2, <2>1 DEF MarkerInv, Marking
<1> QED
  BY <1>5, <1>6 DEF MarkInv

\* The image that r gives the mark to, with the columns it stores.
MarkedRow(r) ==
  IF Catalogue!Op(r) = "upload" THEN RowCall[r].set
  ELSE Catalogue!Set(rows[Catalogue!Id(r)], [primary |-> "yes"])

\* What is stored for r: an image of the product in the path, with the mark if r gives one.
LEMMA MarkedColumns ==
  ASSUME PartsInv, MarkInv, Clean, NEW r \in RowRequest, rowPc[r] = "set"
  PROVE  /\ IsImage(Catalogue!Id(r)) /\ RowCall[r].product \in Catalogue!Product
         /\ Catalogue!Get(MarkedRow(r), "product") = RowCall[r].product
         /\ Catalogue!Get(MarkedRow(r), "primary") \in Marks
         /\ Marking(r, RowCall[r].product) <=> Catalogue!Get(MarkedRow(r), "primary") # Null
         /\ MarkedRow(r) # Catalogue!NoColumns
<1> DEFINE id == Catalogue!Id(r)
<1>1. /\ Catalogue!Op(r) \in {"upload", "setPrimary"} /\ Catalogue!CallAssumption(r)
      /\ Catalogue!Op(r) = "setPrimary" => id \in DOMAIN rows /\ OwnerOf(id) = RowCall[r].product
  BY CallOfRoute DEF MarkInv, MarkerInv
<1>2. IsImage(id) /\ IsPart(id)
  BY <1>1 DEF Catalogue!CallAssumption, Catalogue!Op, Catalogue!Id, IsImage, IsPart, Catalogue!Parts
<1>3. Null \notin Catalogue!Product /\ Null # "yes"
  BY ApplicationAssumption DEF Catalogue!CatalogueAssumption, Catalogue!Product
<1>4. CASE Catalogue!Op(r) = "upload"
  <2>1. /\ RowCall[r].product \in Catalogue!Product
        /\ Catalogue!Get(RowCall[r].set, "product") = RowCall[r].product
        /\ Catalogue!Get(RowCall[r].set, "primary") \in Marks
    BY <1>1, <1>2, <1>4 DEF Catalogue!CallAssumption, Catalogue!Op, Catalogue!Id, IsImage, IsPart,
      Marks
  <2>2. RowCall[r].set # Catalogue!NoColumns
    BY <1>3, <2>1 DEF Catalogue!Get, Catalogue!NoColumns
  <2> QED
    BY <1>2, <1>4, <2>1, <2>2 DEF MarkedRow, Marking
<1>5. CASE Catalogue!Op(r) = "setPrimary"
  <2>1. /\ Catalogue!Get(MarkedRow(r), "product") = RowCall[r].product
        /\ Catalogue!Get(MarkedRow(r), "primary") = "yes"
    BY <1>1, <1>5, SetColumns DEF MarkedRow, OwnerOf
  <2>2. MarkedRow(r) # Catalogue!NoColumns
    BY <1>3, <2>1 DEF Catalogue!Get, Catalogue!NoColumns
  <2>3. RowCall[r].product \in Catalogue!Product
    BY <1>1, <1>2, <1>5 DEF PartsInv
  <2> QED
    BY <1>2, <1>3, <1>5, <2>1, <2>2, <2>3 DEF Marking, Marks
<1> QED
  BY <1>1, <1>4, <1>5

\* A product with a primary image has no second one, and what stores none has another.
LEMMA OneMark ==
  ASSUME PartsInv, NEW id, IsImage(id), NEW columns, NEW p,
         Catalogue!Get(columns, "product") = p, Catalogue!Get(columns, "primary") \in Marks \ {Null},
         p \in DOMAIN rows \ {Null}
  PROVE  /\ Catalogue!Stored(id, columns) = "ok" => MarkedImages(p) \subseteq {id}
         /\ Catalogue!Stored(id, columns) # "ok" => MarkedImages(p) # {}
<1>1. \A other \in DOMAIN rows \ {id} : IsImage(other) =>
        (other \in MarkedImages(p)) <=>
           \A c \in {"product", "primary"} :
             Catalogue!Get(columns, c) # Null /\ Catalogue!Get(columns, c) = Catalogue!Get(rows[other], c)
  BY DEF PartsInv, MarkedImages, OwnerOf, MarkOf, Marks
<1>2. Catalogue!Clashes(id, columns) <=> \E other \in DOMAIN rows \ {id} : other \in MarkedImages(p)
  BY <1>1, ImageConstraints DEF Catalogue!Clashes, IsImage, MarkedImages
<1>3. ~Catalogue!Dangles(id, columns)
  BY ImageConstraints DEF Catalogue!Dangles, IsImage
<1> QED
  BY <1>2, <1>3 DEF Catalogue!Stored, MarkedImages

\* The mark is given, or refused because another image has it.
LEMMA SetMarks ==
  ASSUME ImageInv, PartsInv, MarkInv, NEW r \in RowRequest, Catalogue!SetPrimary(r), Clean' => Clean
  PROVE  MarkInv'
<1> DEFINE id  == Catalogue!Id(r)
           new == MarkedRow(r)
           p   == RowCall[r].product
           ok  == Catalogue!Stored(id, new) = "ok"
<1>1. rowPc[r] = "set" /\ rowPc' = [rowPc EXCEPT ![r] = "done"] /\ DOMAIN rowPc = RowRequest
  BY DEF Catalogue!SetPrimary, Catalogue!Finish, ImageInv
<1>2. ASSUME Clean
      PROVE  /\ IsImage(id) /\ p \in Catalogue!Product /\ Null \notin Catalogue!Product
             /\ Catalogue!Get(new, "product") = p /\ Catalogue!Get(new, "primary") \in Marks
             /\ Marking(r, p) <=> Catalogue!Get(new, "primary") # Null
             /\ rows' = IF ok THEN Catalogue!Put(id, new) ELSE rows
  <2>1. /\ Catalogue!Op(r) \in {"upload", "setPrimary"}
        /\ Catalogue!Op(r) = "setPrimary" => id \in DOMAIN rows
    BY <1>1, <1>2 DEF MarkInv, MarkerInv
  <2>2. new # Catalogue!NoColumns
    BY <1>1, <1>2, MarkedColumns
  <2>3. rows' = IF ok THEN Catalogue!Put(id, new) ELSE rows
    BY <2>1, <2>2 DEF Catalogue!SetPrimary, MarkedRow
  <2>4. Null \notin Catalogue!Product
    BY ApplicationAssumption DEF Catalogue!CatalogueAssumption, Catalogue!Product
  <2> QED
    BY <1>1, <1>2, <2>3, <2>4, MarkedColumns
<1>3. ASSUME Clean, id \in DOMAIN rows  PROVE OwnerOf(id) = p
  <2>1. Catalogue!Op(r) \in {"upload", "setPrimary"}
    BY <1>1 DEF MarkInv, MarkerInv
  <2>2. Catalogue!Op(r) # "upload"
    BY <1>1, <1>3 DEF ImageInv, UploadInv, Uploads
  <2> QED
    BY <1>1, <1>3, <2>1, <2>2 DEF MarkInv, MarkerInv
<1>4. ASSUME Clean, ok
      PROVE  /\ DOMAIN rows' = DOMAIN rows \union {id} /\ OwnerOf(id)' = p
             /\ MarkOf(id)' = Catalogue!Get(new, "primary")
             /\ \A i \in DOMAIN rows \ {id} : OwnerOf(i)' = OwnerOf(i) /\ MarkOf(i)' = MarkOf(i)
  BY <1>2, <1>4 DEF Catalogue!Put, OwnerOf, MarkOf
<1>5. ASSUME Clean  PROVE \A i \in DOMAIN rows : i \in DOMAIN rows' /\ OwnerOf(i)' = OwnerOf(i)
  <2>1. CASE ok
    BY <1>3, <1>4, <1>5, <2>1
  <2>2. CASE ~ok
    BY <1>2, <1>5, <2>2 DEF OwnerOf
  <2> QED
    BY <2>1, <2>2
<1>6. ASSUME Clean, NEW q  PROVE MarkedImages(q)' \subseteq MarkedImages(q) \union {id}
  BY <1>2, <1>4, <1>6 DEF MarkedImages, IsImage, OwnerOf, MarkOf
<1>7. ASSUME Clean, NEW q, q # p \/ ~ok  PROVE MarkedImages(q)' = MarkedImages(q)
  BY <1>2, <1>3, <1>4, <1>7 DEF MarkedImages, IsImage, OwnerOf, MarkOf
<1>8. ASSUME NEW s \in RowRequest  PROVE MarkerInv(s)'
  <2>1. MarkerInv(s) /\ (rowPc'[s] = IF s = r THEN "done" ELSE rowPc[s])
    BY <1>1 DEF MarkInv
  <2> QED
    BY <1>5, <2>1 DEF MarkerInv, Marking
<1>9. ASSUME Clean'  PROVE Kept'
  <2>1. Clean /\ Kept /\ \A s \in RowRequest \ {r} : rowPc'[s] = rowPc[s]
    BY <1>1, <1>9 DEF MarkInv
  <2>2. \A i \in ImagesOfBeginning :
          (i \in DOMAIN rows /\ OwnerOf(i) = Catalogue!Get(InitialRows[i], "product"))'
    BY <1>5, <2>1 DEF Kept, ImagesOfBeginning
  <2>3. Marking(r, p) /\ p \in DOMAIN rows /\ ok => MarkedImages(p)' = {id}
    <3> SUFFICES ASSUME Marking(r, p), p \in DOMAIN rows, ok  PROVE MarkedImages(p)' = {id}
      OBVIOUS
    <3>1. MarkedImages(p)' \subseteq {id}
      BY <1>2, <1>6, <2>1, OneMark
    <3>2. id \in MarkedImages(p)'
      BY <1>2, <1>4, <2>1 DEF MarkedImages, IsImage
    <3> QED
      BY <3>1, <3>2
  <2>4. Marking(r, p) /\ p \in DOMAIN rows /\ ~ok => MarkedImages(p)' # {}
    BY <1>2, <1>7, <2>1, OneMark
  <2>5. ok => p \in DOMAIN rows
    BY <1>2, <2>1, ImageConstraints DEF Catalogue!Stored, Catalogue!Dangles, IsImage
  <2>6. ~Marking(r, p) => id \notin DOMAIN rows
    BY <1>1 DEF Marking, ImageInv, UploadInv, Uploads
  <2>7. ~Marking(r, p) => MarkedImages(p)' = MarkedImages(p)
    BY <1>2, <1>4, <1>7, <2>1, <2>6 DEF MarkedImages, IsImage, OwnerOf, MarkOf
  <2>8. ASSUME NEW q, NEW i \in MarkedImages(q)', NEW j \in MarkedImages(q)'  PROVE i = j
    <3>1. \A x, y \in MarkedImages(q) : x = y
      BY <2>1 DEF Kept
    <3> QED
      BY <1>7, <2>1, <2>3, <2>5, <2>7, <2>8, <3>1
  <2>9. ASSUME NEW q, Catalogue!PrimaryImages(q, InitialRows) # {}
        PROVE  MarkedImages(q)' # {} \/ \E s \in RowRequest : rowPc'[s] = "set" /\ Marking(s, q)'
    <3>1. q \in DOMAIN rows
      BY <2>1, <2>9 DEF Kept, ImagesOfBeginning, Catalogue!PrimaryImages, IsImage, PartsInv, IsPart,
        Catalogue!Parts
    <3>2. CASE q = p /\ Marking(r, p)
      BY <2>3, <2>4, <3>1, <3>2
    <3>3. CASE ~(q = p /\ Marking(r, p))
      <4>1. ~Marking(r, q)
        BY <3>3 DEF Marking
      <4>2. MarkedImages(q) # {} \/ \E s \in RowRequest : rowPc[s] = "set" /\ Marking(s, q)
        BY <2>1, <2>9 DEF Kept
      <4>3. MarkedImages(q) # {} => MarkedImages(q)' # {}
        BY <1>7, <2>1, <2>7, <3>3
      <4>4. ASSUME NEW s \in RowRequest, rowPc[s] = "set", Marking(s, q)
            PROVE  rowPc'[s] = "set" /\ Marking(s, q)'
        BY <2>1, <4>1, <4>4 DEF Marking
      <4> QED
        BY <4>2, <4>3, <4>4
    <3> QED
      BY <3>2, <3>3
  <2> QED
    BY <2>2, <2>8, <2>9 DEF Kept, ImagesOfBeginning, IsImage
<1> QED
  BY <1>8, <1>9 DEF MarkInv

\* Every step of a request keeps the marks.
LEMMA MarkInvStep ==
  ASSUME ImageInv, PartsInv, MarkInv, NEW r \in RowRequest, Catalogue!Step(r) \/ Catalogue!Fail(r)
  PROVE  MarkInv'
<1> DEFINE id == Catalogue!Id(r)
<1>1. DOMAIN rowPc = RowRequest /\ Catalogue!CallAssumption(r)
  BY CallOfRoute DEF ImageInv
<1>2. Clean' => Clean /\ ~Catalogue!Fail(r) /\ ~Catalogue!Remove(r) /\ ~Catalogue!RemoveImage(r)
  BY <1>1, CleanStep
<1>3. CASE Catalogue!GetOwned(r)
  <2>1. PICK l : /\ rowPc' = [rowPc EXCEPT ![r] = l] /\ rowPc[r] = "start" /\ rows' = rows
                 /\ l \in {"unset", "set"} => /\ l = "unset" /\ Catalogue!Op(r) = "setPrimary"
                                             /\ id \in DOMAIN rows /\ OwnerOf(id) = RowCall[r].product
    BY <1>3 DEF Catalogue!GetOwned, Catalogue!Goto, Catalogue!Finish, OwnerOf
  <2>2. MarkerInv(r)'
    BY <1>1, <2>1 DEF MarkerInv, Marking, OwnerOf
  <2> QED
    BY <1>2, <2>1, <2>2, QuietMarks DEF Stays
<1>4. CASE Catalogue!Upload(r)
  <2> DEFINE l == IF Catalogue!Get(RowCall[r].set, "primary") = Null THEN "set" ELSE "unset"
  <2>1. /\ rowPc' = [rowPc EXCEPT ![r] = l] /\ rowPc[r] = "start" /\ rows' = rows
        /\ Catalogue!Op(r) = "upload"
    BY <1>4 DEF Catalogue!Upload, Catalogue!Goto
  <2>2. MarkerInv(r)'
    BY <1>1, <2>1 DEF MarkerInv, Marking
  <2> QED
    BY <1>2, <2>1, <2>2, QuietMarks DEF Stays
<1>5. CASE Catalogue!Create(r) \/ Catalogue!Update(r)
  <2>1. /\ rowPc' = [rowPc EXCEPT ![r] = "done"] /\ rowPc[r] # "set"
        /\ Catalogue!Op(r) \in {"create", "update"}
    BY <1>5 DEF Catalogue!Create, Catalogue!Update, Catalogue!Ready, Catalogue!Finish
  <2>2. ~IsImage(id)
    BY <1>1, <2>1 DEF Catalogue!CallAssumption, Catalogue!Op, Catalogue!Id, IsImage
  <2>3. \A i : IsImage(i) => Stays(i)
    <3> SUFFICES ASSUME rows' # rows  PROVE \A i : i # id => Stays(i)
      BY <2>2 DEF Stays
    <3> QED
      BY <1>5 DEF Catalogue!Create, Catalogue!Update, Catalogue!Put, Stays
  <2>4. MarkerInv(r)'
    BY <1>1, <2>1 DEF MarkerInv
  <2> QED
    BY <1>2, <2>1, <2>3, <2>4, QuietMarks
<1>6. CASE Catalogue!RemoveImage(r) \/ Catalogue!Remove(r) \/ Catalogue!Fail(r)
  <2>1. PICK l : rowPc' = [rowPc EXCEPT ![r] = l] /\ l \notin {"unset", "set"}
    BY <1>6 DEF Catalogue!RemoveImage, Catalogue!Remove, Catalogue!Fail, Catalogue!Finish,
      Catalogue!Goto
  <2>2. ~Clean'
    BY <1>2, <1>6
  <2>3. \A q \in RowRequest : MarkerInv(q)'
    BY <1>1, <2>1, <2>2 DEF MarkInv, MarkerInv, Marking
  <2> QED
    BY <2>2, <2>3 DEF MarkInv
<1>7. CASE Catalogue!Unlink(r) \/ Catalogue!FindDirect(r) \/ Catalogue!FindByUnit(r)
             \/ Catalogue!FindAdditional(r) \/ Catalogue!GetById(r)
  <2>1. PICK l : /\ rowPc' = [rowPc EXCEPT ![r] = l] /\ rowPc[r] # "set" /\ rows' = rows
                 /\ l \notin {"unset", "set"}
    BY <1>7 DEF Catalogue!Unlink, Catalogue!FindDirect, Catalogue!FindByUnit,
      Catalogue!FindAdditional, Catalogue!GetById, Catalogue!Look, Catalogue!Finish, Catalogue!Goto
  <2>2. MarkerInv(r)'
    BY <1>1, <2>1 DEF MarkerInv
  <2> QED
    BY <1>2, <2>1, <2>2, QuietMarks DEF Stays
<1>8. CASE Catalogue!UnsetPrimaryForProduct(r)
  BY <1>2, <1>8, UnsetMarks
<1>9. CASE Catalogue!SetPrimary(r)
  BY <1>2, <1>9, SetMarks
<1> QED
  BY <1>3, <1>4, <1>5, <1>6, <1>7, <1>8, <1>9 DEF Catalogue!Step

\* Primary images stay, at the beginning and after each step.
LEMMA MarkInvariant == Spec => []MarkInv
<1>1. Init => MarkInv
  <2> SUFFICES ASSUME Init  PROVE MarkInv
    OBVIOUS
  <2>1. PICK w : Catalogue!Begin(w)
    BY DEF Init, Catalogue!Init
  <2>2. \A r \in RowRequest : rowPc[r] \notin {"unset", "set"}
    BY <2>1 DEF Catalogue!Begin
  <2>3. rows = InitialRows /\ DOMAIN InitialRows \subseteq Row
    BY <2>1, ApplicationAssumption DEF Catalogue!Begin, Catalogue!CatalogueAssumption,
      Catalogue!RowsAssumption
  <2>4. \A p : MarkedImages(p) = Catalogue!PrimaryImages(p, InitialRows)
    BY <2>3 DEF MarkedImages, Catalogue!PrimaryImages, IsImage, OwnerOf, MarkOf
  <2>5. \A p : MarkedImages(p) # {} => p \in Catalogue!Product
    BY <2>3, ApplicationAssumption DEF MarkedImages, IsImage, OwnerOf,
      Catalogue!CatalogueAssumption, Catalogue!RowsAssumption, Catalogue!Parts
  <2>6. \A p : \A i, j \in MarkedImages(p) : i = j
    BY <2>4, <2>5, ApplicationAssumption DEF Catalogue!CatalogueAssumption, Catalogue!RowsAssumption
  <2>7. \A i \in ImagesOfBeginning : i \in DOMAIN rows /\ OwnerOf(i) = Catalogue!Get(InitialRows[i], "product")
    BY <2>3 DEF ImagesOfBeginning, OwnerOf
  <2> QED
    BY <2>2, <2>4, <2>6, <2>7 DEF MarkInv, MarkerInv, Kept
<1>2. ASSUME ImageInv, PartsInv, MarkInv, [Next]_vars  PROVE MarkInv'
  <2>1. CASE UNCHANGED catalogueVars
    BY <1>2, <2>1 DEF catalogueVars, MarkInv, MarkerInv, Marking, Clean, Kept, MarkedImages,
      IsImage, OwnerOf, MarkOf, ImagesOfBeginning
  <2>2. CASE Catalogue!Next
    BY <1>2, <2>2, MarkInvStep DEF Catalogue!Next
  <2> QED
    BY <1>2, <2>1, <2>2, CatalogueStep
<1> QED
  BY <1>1, <1>2, ImageInvariant, PartsInvariant, PTL DEF Spec

\* The operator that Catalogue takes from FiniteSets is the one the theorems of this module are about.
LEMMA SameSize == \A S : Catalogue!Cardinality(S) = Cardinality(S)
BY DEF Catalogue!Cardinality, Cardinality

(***************************************************************************)
(* A product that had a primary image has one, and one only, when requests *)
(* have ended: however uploads and changes of the primary image of any     *)
(* number of products overlap, unless an image was removed or a request    *)
(* died (product-images.service.ts upload and setPrimary).                 *)
(***************************************************************************)
THEOREM PrimaryImagesStay == Spec => []PrimaryImageIsKept
<1>1. ASSUME MarkInv  PROVE PrimaryImageIsKept
  <2> SUFFICES ASSUME Catalogue!UnderWay = {},
                      \A r \in RowRequest : /\ rowPc[r] # "failed"
                                            /\ rowPc[r] = "done" => Catalogue!Op(r) # "remove",
                      NEW p \in DOMAIN rows, Catalogue!PrimaryImages(p, InitialRows) # {}
               PROVE  Cardinality(Catalogue!PrimaryImages(p, rows)) = 1
    BY SameSize DEF PrimaryImageIsKept, Catalogue!PrimaryImageIsKept
  <2>1. \A r \in RowRequest : rowPc[r] \in {"unsent", "start", "done"}
    BY DEF Catalogue!UnderWay
  <2>2. Clean
    BY <2>1 DEF Clean
  <2>3. MarkedImages(p) # {} /\ \A i, j \in MarkedImages(p) : i = j
    BY <1>1, <2>1, <2>2 DEF MarkInv, Kept
  <2>4. PICK i : MarkedImages(p) = {i}
    BY <2>3
  <2>5. MarkedImages(p) = Catalogue!PrimaryImages(p, rows)
    BY DEF MarkedImages, Catalogue!PrimaryImages, IsImage, OwnerOf, MarkOf
  <2> QED
    BY <2>4, <2>5, FS_Singleton
<1> QED
  BY <1>1, MarkInvariant, PTL

-----------------------------------------------------------------------------
(* Scans.                                                                  *)

Scans    == {r \in RowRequest : Catalogue!Op(r) = "findByBarcode"}
Alone(r) == Catalogue!UnderWay = {r}

Carriers(table, r) == Catalogue!Carrying(table, RowCall[r].barcode)

(***************************************************************************)
(* What a scan that nothing has overlapped knows of the tables: those it   *)
(* has read carry nothing, and what it has found belongs to the barcode.   *)
(***************************************************************************)
ScanInv(r) ==
  r \in Catalogue!UnderWay =>
    /\ rowPc[r] \in {"units", "barcodes", "getById"}
    /\ overlapping[r] = {} =>
         /\ Alone(r)
         /\ rowPc[r] \in {"units", "barcodes"} => Carriers("products", r) = {}
         /\ rowPc[r] = "barcodes" => Carriers("product_units", r) = {}
         /\ rowPc[r] = "getById" => found[r] \in Catalogue!Owners(RowCall[r].barcode) \intersect DOMAIN rows

ScansInv ==
  /\ DOMAIN rowPc = RowRequest /\ DOMAIN rowReply = RowRequest
  /\ DOMAIN found = RowRequest /\ DOMAIN overlapping = RowRequest
  /\ \A r \in Scans : ScanInv(r)

\* A product that is scanned is told, and a barcode of nobody is not.
LEMMA ScanAnswers ==
  /\ Catalogue!Answer("products", "findByBarcode", "ok") = 200
  /\ Catalogue!Answer("products", "findByBarcode", "none") = 404
<1>1. Catalogue!Service["products"] = Catalogue!ProductsService
  BY DEF Catalogue!Service
<1>2. \A rule \in Catalogue!ProductsService : rule.result = "none" /\ rule.status = 404
  BY DEF Catalogue!ProductsService, Catalogue!MasterDataService, Catalogue!LookupRules,
    Catalogue!Rules
<1>3. [op |-> "findByBarcode", result |-> "none", status |-> 404] \in Catalogue!ProductsService
  BY DEF Catalogue!ProductsService, Catalogue!LookupRules, Catalogue!Rules
<1>4. Catalogue!Filter("ok") = 200
  BY DEF Catalogue!Filter
<1>5. Catalogue!Answer("products", "findByBarcode", "ok") = 200
  BY <1>1, <1>2, <1>4 DEF Catalogue!Answer
<1> DEFINE rules == {r \in Catalogue!ProductsService : r.op = "findByBarcode" /\ r.result = "none"}
<1>6. rules # {} /\ \A rule \in rules : rule.status = 404
  BY <1>2, <1>3
<1>7. Catalogue!Answer("products", "findByBarcode", "none") = 404
  <2>1. (CHOOSE r \in rules : TRUE).status = 404
    BY <1>6
  <2> QED
    BY <1>1, <1>6, <2>1 DEF Catalogue!Answer
<1> QED
  BY <1>5, <1>7

\* A request that is not under way overlaps with whatever is, and nobody else moves.
LEMMA StepOverlaps ==
  ASSUME ScansInv, NEW q \in RowRequest, Catalogue!Step(q) \/ Catalogue!Fail(q)
  PROVE  /\ \E l : rowPc' = [rowPc EXCEPT ![q] = l]
         /\ \/ q \in Catalogue!UnderWay /\ overlapping' = overlapping
            \/ rowPc[q] = "start" /\ Catalogue!Begins(q)
<1>1. CASE Catalogue!GetOwned(q) \/ Catalogue!Upload(q) \/ Catalogue!FindDirect(q)
  BY <1>1 DEF Catalogue!GetOwned, Catalogue!Upload, Catalogue!FindDirect, Catalogue!Look,
    Catalogue!Finish, Catalogue!Goto
<1>2. CASE Catalogue!Create(q) \/ Catalogue!Update(q) \/ Catalogue!Remove(q)
  <2>1. \E l : rowPc' = [rowPc EXCEPT ![q] = l]
    BY <1>2 DEF Catalogue!Create, Catalogue!Update, Catalogue!Remove, Catalogue!Finish
  <2>2. rowPc[q] \in {"start", "write"} /\ Catalogue!Proceeds(q)
    BY <1>2 DEF Catalogue!Create, Catalogue!Update, Catalogue!Remove, Catalogue!Ready
  <2> QED
    BY <2>1, <2>2 DEF Catalogue!Proceeds, Catalogue!UnderWay
<1>3. CASE Catalogue!RemoveImage(q)
  BY <1>3 DEF Catalogue!RemoveImage, Catalogue!Ready, Catalogue!Goto, Catalogue!UnderWay,
    Catalogue!Table, Catalogue!Parts
<1>4. CASE Catalogue!Unlink(q) \/ Catalogue!UnsetPrimaryForProduct(q) \/ Catalogue!SetPrimary(q)
             \/ Catalogue!FindByUnit(q) \/ Catalogue!FindAdditional(q) \/ Catalogue!GetById(q)
             \/ Catalogue!Fail(q)
  BY <1>4 DEF Catalogue!Unlink, Catalogue!UnsetPrimaryForProduct, Catalogue!SetPrimary,
    Catalogue!FindByUnit, Catalogue!FindAdditional, Catalogue!GetById, Catalogue!Fail,
    Catalogue!Look, Catalogue!Finish, Catalogue!Goto, Catalogue!UnderWay
<1> QED
  BY <1>1, <1>2, <1>3, <1>4 DEF Catalogue!Step

\* Another request's step overlaps with the scan.
LEMMA OthersOverlap ==
  ASSUME ScansInv, NEW r \in Scans, NEW q \in RowRequest, q # r, Catalogue!Step(q) \/ Catalogue!Fail(q)
  PROVE  ScanInv(r)'
<1>1. PICK l : rowPc' = [rowPc EXCEPT ![q] = l]
  BY StepOverlaps
<1>2. rowPc'[r] = rowPc[r] /\ (r \in Catalogue!UnderWay' <=> r \in Catalogue!UnderWay)
  BY <1>1 DEF ScansInv, Scans, Catalogue!UnderWay
<1>3. ASSUME r \in Catalogue!UnderWay  PROVE overlapping'[r] # {}
  <2>1. CASE q \in Catalogue!UnderWay /\ overlapping' = overlapping
    BY <1>3, <2>1 DEF ScansInv, ScanInv, Alone
  <2>2. CASE Catalogue!Begins(q)
    BY <1>3, <2>2 DEF Catalogue!Begins, Scans
  <2> QED
    BY <2>1, <2>2, StepOverlaps
<1> QED
  BY <1>2, <1>3 DEF ScansInv, ScanInv

\* What a table carries has an owner, which is a product that exists.
LEMMA CarrierHasOwner ==
  ASSUME PartsInv, NEW r, NEW t \in {"products", "product_units", "product_barcodes"}, NEW i \in Carriers(t, r)
  PROVE  Catalogue!ProductOf(i) \in Catalogue!Owners(RowCall[r].barcode) \intersect DOMAIN rows
<1>1. Catalogue!ProductOf(i) \in Catalogue!Owners(RowCall[r].barcode)
  BY DEF Catalogue!Owners, Carriers
<1>2. i \in DOMAIN rows /\ TableOf[i] = t
  BY DEF Carriers, Catalogue!Carrying
<1>3. CASE t = "products"
  BY <1>1, <1>2, <1>3 DEF Catalogue!ProductOf
<1>4. CASE t # "products"
  <2>1. IsPart(i) /\ OwnerOf(i) \in Catalogue!Product \intersect DOMAIN rows
    BY <1>2, <1>4 DEF PartsInv, IsPart, Catalogue!Parts
  <2>2. OwnerOf(i) # Null
    BY <2>1, ApplicationAssumption DEF Catalogue!CatalogueAssumption, Catalogue!Product
  <2>3. Catalogue!ProductOf(i) = OwnerOf(i)
    BY <1>2, <1>4, <2>2 DEF OwnerOf, Catalogue!Get, Catalogue!ProductOf
  <2> QED
    BY <1>1, <2>1, <2>3
<1> QED
  BY <1>3, <1>4

\* What the client of a scan is told when nothing has overlapped.
RightAnswer(r) ==
  (rowPc[r] # "done" /\ rowPc'[r] = "done" /\ overlapping'[r] = {}) =>
    IF rowReply'[r] = 200 THEN found'[r] \in Catalogue!Owners(RowCall[r].barcode)
                          ELSE Catalogue!Owners(RowCall[r].barcode) = {}

\* The steps of a scan.
LEMMA ScanSteps ==
  ASSUME ScansInv, NEW r \in Scans, Catalogue!Step(r) \/ Catalogue!Fail(r)
  PROVE  \/ Catalogue!FindDirect(r) \/ Catalogue!FindByUnit(r) \/ Catalogue!FindAdditional(r)
         \/ Catalogue!GetById(r) \/ Catalogue!Fail(r)
<1>1. r \in RowRequest /\ Catalogue!Op(r) = "findByBarcode"
  BY DEF Scans
<1>2. rowPc[r] \notin {"unlink", "unset", "set"}
  BY <1>1 DEF ScansInv, ScanInv, Catalogue!UnderWay
<1> QED
  BY <1>1, <1>2 DEF Catalogue!Step, Catalogue!GetOwned, Catalogue!Create, Catalogue!Update,
    Catalogue!RemoveImage, Catalogue!Unlink, Catalogue!Remove, Catalogue!Upload, Catalogue!Ready,
    Catalogue!UnsetPrimaryForProduct, Catalogue!SetPrimary

\* A look into one table: it carries nothing, or the product of a barcode is found there.
LEMMA LookFinds ==
  ASSUME PartsInv, ScansInv, NEW r \in RowRequest, UNCHANGED rows, NEW next,
         NEW t, t = "products" \/ t = "product_units" \/ t = "product_barcodes", Catalogue!Look(r, t, next)
  PROVE  \/ /\ IF t = "products" THEN Catalogue!Finish(r, "ok") ELSE Catalogue!Goto(r, "getById")
            /\ found'[r] \in Catalogue!Owners(RowCall[r].barcode) \intersect DOMAIN rows
         \/ /\ Carriers(t, r) = {}
            /\ IF next = "none" THEN Catalogue!Finish(r, "none") ELSE Catalogue!Goto(r, next)
<1>1. CASE Carriers(t, r) = {}
  BY <1>1 DEF Catalogue!Look, Carriers
<1>2. CASE Carriers(t, r) # {}
  <2>1. PICK i \in Carriers(t, r) : found' = [found EXCEPT ![r] = Catalogue!ProductOf(i)]
    BY <1>2 DEF Catalogue!Look, Carriers
  <2>2. IF t = "products" THEN Catalogue!Finish(r, "ok") ELSE Catalogue!Goto(r, "getById")
    BY <1>2 DEF Catalogue!Look, Carriers
  <2> QED
    BY <2>1, <2>2, CarrierHasOwner DEF ScansInv
<1> QED
  BY <1>1, <1>2

\* A step of a scan.
LEMMA OwnStep ==
  ASSUME PartsInv, ScansInv, NEW r \in Scans, Catalogue!Step(r) \/ Catalogue!Fail(r)
  PROVE  ScanInv(r)' /\ RightAnswer(r)
<1> DEFINE barcode == RowCall[r].barcode
<1>1. /\ r \in RowRequest /\ ScanInv(r) /\ UNCHANGED rows
      /\ DOMAIN rowPc = RowRequest /\ DOMAIN rowReply = RowRequest
  BY ScanSteps DEF ScansInv, Scans, Catalogue!FindDirect, Catalogue!FindByUnit,
    Catalogue!FindAdditional, Catalogue!GetById, Catalogue!Fail, Catalogue!Look, Catalogue!Finish,
    Catalogue!Goto
<1>2. PICK l : rowPc' = [rowPc EXCEPT ![r] = l]
  BY <1>1, StepOverlaps
<1>3. \A t : Carriers(t, r)' = Carriers(t, r)
  BY <1>1 DEF Carriers, Catalogue!Carrying
<1>4. Catalogue!Owners(barcode)' = Catalogue!Owners(barcode)
  BY <1>1 DEF Catalogue!Owners, Catalogue!Carrying, Catalogue!ProductOf
<1>5. overlapping'[r] = {} => Alone(r)' \/ r \notin Catalogue!UnderWay'
  <2> SUFFICES ASSUME overlapping'[r] = {}  PROVE \A q \in RowRequest \ {r} : q \notin Catalogue!UnderWay
    BY <1>1, <1>2 DEF Alone, Catalogue!UnderWay
  <2>1. CASE r \in Catalogue!UnderWay /\ overlapping' = overlapping
    BY <1>1, <2>1 DEF ScanInv, Alone
  <2>2. CASE Catalogue!Begins(r)
    BY <1>1, <2>2 DEF Catalogue!Begins
  <2> QED
    BY <1>1, <2>1, <2>2, StepOverlaps
<1>6. CASE Catalogue!FindDirect(r)
  <2>1. Catalogue!Look(r, "products", "units")
    BY <1>6 DEF Catalogue!FindDirect
  <2>2. \/ /\ Catalogue!Finish(r, "ok")
           /\ found'[r] \in Catalogue!Owners(barcode) \intersect DOMAIN rows
        \/ Carriers("products", r) = {} /\ Catalogue!Goto(r, "units")
    BY <1>1, <2>1, LookFinds
  <2>3. CASE /\ Catalogue!Finish(r, "ok")
             /\ found'[r] \in Catalogue!Owners(barcode) \intersect DOMAIN rows
    <3>1. Catalogue!Table(r) = "products" /\ Catalogue!Op(r) = "findByBarcode"
      BY <1>1, CallOfRoute DEF Catalogue!CallAssumption, Catalogue!Table, Catalogue!Id,
        Catalogue!Op, Scans
    <3>2. rowReply'[r] = 200 /\ rowPc'[r] = "done" /\ r \notin Catalogue!UnderWay'
      BY <1>1, <2>3, <3>1, ScanAnswers DEF Catalogue!Finish, Catalogue!UnderWay
    <3> QED
      BY <2>3, <3>2 DEF ScanInv, RightAnswer
  <2>4. CASE Carriers("products", r) = {} /\ Catalogue!Goto(r, "units")
    <3>1. rowPc'[r] = "units"
      BY <1>1, <2>4 DEF Catalogue!Goto
    <3> QED
      BY <1>1, <1>3, <1>4, <1>5, <2>4, <3>1 DEF ScanInv, RightAnswer
  <2> QED
    BY <2>2, <2>3, <2>4
<1>7. CASE Catalogue!FindByUnit(r)
  <2>1. /\ rowPc[r] = "units" /\ r \in Catalogue!UnderWay /\ overlapping' = overlapping
        /\ Catalogue!Look(r, "product_units", "barcodes")
    BY <1>1, <1>7 DEF Catalogue!FindByUnit, Catalogue!UnderWay
  <2>2. \/ l = "getById" /\ found'[r] \in Catalogue!Owners(barcode) \intersect DOMAIN rows
        \/ l = "barcodes" /\ Carriers("product_units", r) = {}
    <3>1. \/ /\ Catalogue!Goto(r, "getById")
             /\ found'[r] \in Catalogue!Owners(barcode) \intersect DOMAIN rows
          \/ Carriers("product_units", r) = {} /\ Catalogue!Goto(r, "barcodes")
      BY <1>1, <2>1, LookFinds
    <3> QED
      BY <1>1, <1>2, <3>1 DEF Catalogue!Goto
  <2> QED
    BY <1>1, <1>2, <1>3, <1>4, <1>5, <2>1, <2>2 DEF ScanInv, RightAnswer
<1>8. CASE Catalogue!FindAdditional(r)
  <2>1. /\ rowPc[r] = "barcodes" /\ r \in Catalogue!UnderWay /\ overlapping' = overlapping
        /\ \/ l = "getById" /\ found'[r] \in Catalogue!Owners(barcode) \intersect DOMAIN rows
           \/ l = "done" /\ Carriers("product_barcodes", r) = {}
    BY <1>1, <1>2, <1>8, LookFinds DEF Catalogue!FindAdditional, Catalogue!Finish,
      Catalogue!Goto, Catalogue!UnderWay
  <2>2. CASE l = "getById"
    BY <1>1, <1>2, <1>3, <1>4, <1>5, <2>1, <2>2 DEF ScanInv, RightAnswer
  <2>3. CASE l = "done"
    <3>1. overlapping'[r] = {} => Catalogue!Owners(barcode) = {}
      BY <1>1, <2>1, <2>3 DEF ScanInv, Catalogue!Owners, Carriers
    <3>2. rowReply'[r] # 200 \/ Catalogue!Owners(barcode) # {}
      <4>1. Catalogue!Table(r) = "products" /\ Catalogue!Op(r) = "findByBarcode"
        BY <1>1, CallOfRoute DEF Catalogue!CallAssumption, Catalogue!Table, Catalogue!Id,
          Catalogue!Op, Scans
      <4>2. rowPc'[r] = "done" /\ rowPc'[r] # "getById"
        BY <1>1, <1>2, <2>3
      <4> QED
        BY <1>1, <1>8, <4>1, <4>2, ScanAnswers DEF Catalogue!FindAdditional, Catalogue!Look,
          Catalogue!Finish, Catalogue!Goto
    <3>3. r \notin Catalogue!UnderWay'
      BY <1>1, <1>2, <2>3 DEF Catalogue!UnderWay
    <3> QED
      BY <3>1, <3>2, <3>3 DEF ScanInv, RightAnswer
  <2> QED
    BY <2>1, <2>2, <2>3
<1>9. CASE Catalogue!GetById(r)
  <2>1. /\ rowPc[r] = "getById" /\ r \in Catalogue!UnderWay /\ overlapping' = overlapping /\ found' = found
        /\ l = "done"
    BY <1>1, <1>2, <1>9 DEF Catalogue!GetById, Catalogue!Finish, Catalogue!UnderWay
  <2>2. r \notin Catalogue!UnderWay'
    BY <1>1, <1>2, <2>1 DEF Catalogue!UnderWay
  <2>3. overlapping[r] = {} => found[r] \in Catalogue!Owners(barcode) /\ rowReply'[r] = 200
    <3> SUFFICES ASSUME overlapping[r] = {}
                 PROVE  found[r] \in Catalogue!Owners(barcode) /\ rowReply'[r] = 200
      OBVIOUS
    <3>1. found[r] \in Catalogue!Owners(barcode) /\ found[r] \in DOMAIN rows
      BY <1>1, <2>1 DEF ScanInv
    <3>2. Catalogue!Table(r) = "products" /\ Catalogue!Op(r) = "findByBarcode"
      BY <1>1, CallOfRoute DEF Catalogue!CallAssumption, Catalogue!Table, Catalogue!Id,
        Catalogue!Op, Scans
    <3> QED
      BY <1>1, <1>9, <3>1, <3>2, ScanAnswers DEF Catalogue!GetById, Catalogue!Finish
  <2> QED
    BY <2>1, <2>2, <2>3 DEF ScanInv, RightAnswer
<1>10. CASE Catalogue!Fail(r)
  <2>1. l = "failed"
    BY <1>1, <1>2, <1>10 DEF Catalogue!Fail
  <2> QED
    BY <1>1, <1>2, <2>1 DEF ScanInv, RightAnswer, Catalogue!UnderWay
<1> QED
  BY <1>6, <1>7, <1>8, <1>9, <1>10, ScanSteps

\* Every step of a request keeps what scans know, and a scan that ends tells what it should.
LEMMA ScansStep ==
  ASSUME PartsInv, ScansInv, NEW q \in RowRequest, Catalogue!Step(q) \/ Catalogue!Fail(q)
  PROVE  ScansInv' /\ \A r \in Scans : RightAnswer(r)
<1>1. ASSUME NEW r \in Scans  PROVE ScanInv(r)' /\ RightAnswer(r)
  <2>1. CASE r = q
    BY <1>1, <2>1, OwnStep
  <2>2. CASE r # q
    <3>1. PICK l : rowPc' = [rowPc EXCEPT ![q] = l]
      BY StepOverlaps
    <3>2. rowPc'[r] = rowPc[r]
      BY <1>1, <2>2, <3>1 DEF ScansInv, Scans
    <3> QED
      BY <1>1, <2>2, <3>2, OthersOverlap DEF RightAnswer
  <2> QED
    BY <2>1, <2>2
<1>2. DOMAIN rowPc' = RowRequest /\ DOMAIN overlapping' = RowRequest
  BY StepOverlaps DEF ScansInv, Catalogue!Begins
<1>3. DOMAIN rowReply' = RowRequest /\ DOMAIN found' = RowRequest
  BY DEF ScansInv, Catalogue!Step, Catalogue!Fail, Catalogue!GetOwned, Catalogue!Create,
    Catalogue!Update, Catalogue!RemoveImage, Catalogue!Unlink, Catalogue!Remove, Catalogue!Upload,
    Catalogue!UnsetPrimaryForProduct, Catalogue!SetPrimary, Catalogue!FindDirect,
    Catalogue!FindByUnit, Catalogue!FindAdditional, Catalogue!GetById, Catalogue!Look,
    Catalogue!Finish, Catalogue!Goto
<1> QED
  BY <1>1, <1>2, <1>3 DEF ScansInv

\* What scans know, at the beginning and after each step.
LEMMA ScansInvariant == Spec => []ScansInv
<1>1. Init => ScansInv
  <2> SUFFICES ASSUME Init  PROVE ScansInv
    OBVIOUS
  <2>1. PICK w : Catalogue!Begin(w)
    BY DEF Init, Catalogue!Init
  <2> QED
    BY <2>1 DEF Catalogue!Begin, ScansInv, ScanInv, Scans, Catalogue!UnderWay
<1>2. ASSUME PartsInv, ScansInv, [Next]_vars  PROVE ScansInv'
  <2>1. CASE UNCHANGED catalogueVars
    BY <1>2, <2>1 DEF catalogueVars, ScansInv, ScanInv, Alone, Carriers, Catalogue!Carrying,
      Catalogue!UnderWay, Catalogue!Owners, Catalogue!ProductOf
  <2>2. CASE Catalogue!Next
    BY <1>2, <2>2, ScansStep DEF Catalogue!Next
  <2> QED
    BY <1>2, <2>1, <2>2, CatalogueStep
<1> QED
  BY <1>1, <1>2, PartsInvariant, PTL DEF Spec

\* ScanFindsProduct of one step.
ScanIsRight ==
  \A r \in RowRequest :
    (Catalogue!Op(r) = "findByBarcode" /\ rowPc[r] # "done" /\ rowPc'[r] = "done" /\ overlapping'[r] = {})
      => IF rowReply'[r] = 200 THEN found'[r] \in Catalogue!Owners(RowCall[r].barcode)
                               ELSE Catalogue!Owners(RowCall[r].barcode) = {}

(***************************************************************************)
(* A scan that nothing overlaps finds a product of the barcode, and nothing *)
(* only if none, no unit and no further barcode has it, for tables of any  *)
(* size (product.kysely-repository.ts, products.service.ts findByBarcode). *)
(***************************************************************************)
THEOREM ScansFindProducts == Spec => ScanFindsProduct
<1>1. ASSUME PartsInv, ScansInv, [Next]_vars  PROVE [ScanIsRight]_(Catalogue!vars)
  <2>1. CASE UNCHANGED catalogueVars
    BY <2>1 DEF catalogueVars, Catalogue!vars
  <2>2. CASE Catalogue!Next
    <3>1. \A r \in Scans : RightAnswer(r)
      BY <1>1, <2>2, ScansStep DEF Catalogue!Next
    <3> QED
      BY <3>1 DEF ScanIsRight, RightAnswer, Scans
  <2> QED
    BY <1>1, <2>1, <2>2, CatalogueStep
<1>2. ScanFindsProduct <=> [][ScanIsRight]_(Catalogue!vars)
  BY DEF ScanFindsProduct, Catalogue!ScanFindsProduct, ScanIsRight
<1> QED
  BY <1>1, <1>2, PartsInvariant, ScansInvariant, PTL DEF Spec

-----------------------------------------------------------------------------
(* Costs.                                                                  *)


Documents == Costs!Names
NoRow     == Costs!NoRow
Rows      == [qty : Nat, cost : Nat] \union {NoRow}
Balances  == [Warehouse -> Rows]
CostMoves     == [doc : Documents, at : Warehouse, in : Nat, out : Nat, cost : Nat]

-----------------------------------------------------------------------------
(* Weighted averages, rounded.                                             *)

\* A product of natural numbers grows with either.
LEMMA Products ==
  ASSUME NEW m \in Nat, NEW x \in Nat, NEW y \in Nat, x <= y
  PROVE  m * x \in Nat /\ m * y \in Nat /\ m * x <= m * y
<1>1. y - x \in Nat /\ y = x + (y - x)
  OBVIOUS
<1>2. m * (y - x) \in Nat /\ m * x \in Nat
  BY <1>1
<1>3. m * y = m * x + m * (y - x)
  BY <1>1
<1> QED
  BY <1>2, <1>3

\* A rounded quotient is half a unit off at most.
LEMMA Quotient ==
  ASSUME NEW n \in Nat, NEW m \in Nat \ {0}
  PROVE  /\ Costs!Rounded(n, m) \in Nat
         /\ 2 * (m * Costs!Rounded(n, m)) <= 2 * n + m
         /\ 2 * n < 2 * (m * Costs!Rounded(n, m)) + m
<1> DEFINE a == 2 * n + m
           b == 2 * m
           k == a \div b
<1>1. a \in Nat /\ b \in Nat /\ b > 0
  OBVIOUS
<1> HIDE DEF a, b
<1>2. k \in Int /\ b * k <= a /\ a < b * k + b
  BY <1>1
<1>3. k >= 0
  <2>1. ASSUME k < 0  PROVE FALSE
    <3>1. -k - 1 \in Nat
      BY <1>2, <2>1
    <3>2. b * (-k - 1) \in Nat
      BY <1>1, <3>1
    <3>3. b * (-k - 1) = -(b * k) - b
      BY <1>1, <1>2
    <3> HIDE DEF k
    <3>4. b * k \in Int
      BY <1>1, <1>2
    <3> QED
      BY <1>1, <1>2, <3>2, <3>3, <3>4
  <2> QED
    BY <1>2, <2>1
<1>4. Costs!Rounded(n, m) = k
  BY DEF Costs!Rounded, a, b
<1> HIDE DEF k
<1>5. b * k = 2 * (m * k) /\ m * k \in Nat
  BY <1>2, <1>3 DEF b
<1> QED
  BY <1>2, <1>3, <1>4, <1>5 DEF a, b

\* An average of q at c and i at k is between c and k, and is worth what went into it, but for half a unit each.
LEMMA Average ==
  ASSUME NEW q \in Nat, NEW c \in Nat, NEW i \in Nat \ {0}, NEW k \in Nat
  PROVE  LET a == Costs!Rounded(q * c + i * k, q + i)
         IN  /\ a \in Nat
             /\ \A p \in Nat : (q = 0 \/ c <= p) /\ k <= p => a <= p
             /\ \A p \in Nat : (q = 0 \/ p <= c) /\ p <= k => p <= a
             /\ 2 * ((q + i) * a - (q * c + i * k)) <= q + i
             /\ -(q + i) <= 2 * ((q + i) * a - (q * c + i * k))
<1> DEFINE n == q * c + i * k
           m == q + i
           a == Costs!Rounded(n, m)
<1>1. n \in Nat /\ m \in Nat \ {0} /\ q * c \in Nat /\ i * k \in Nat
  OBVIOUS
<1>2. a \in Nat /\ 2 * (m * a) <= 2 * n + m /\ 2 * n < 2 * (m * a) + m
  <2> HIDE DEF n, m
  <2> QED
    BY <1>1, Quotient
<1> HIDE DEF a
<1>3. ASSUME NEW p \in Nat, q = 0 \/ c <= p, k <= p  PROVE a <= p
  <2>1. q * c <= q * p /\ i * k <= i * p /\ q * p \in Nat /\ i * p \in Nat
    BY <1>3, Products
  <2>2. m * p = q * p + i * p
    OBVIOUS
  <2>3. n <= m * p /\ m * p \in Nat
    BY <1>1, <2>1, <2>2
  <2>4. ASSUME p + 1 <= a  PROVE FALSE
    <3> HIDE DEF n, m
    <3>1. m * (p + 1) <= m * a /\ m * a \in Nat
      BY <1>1, <1>2, <2>4, Products
    <3>2. m * (p + 1) = m * p + m
      BY <1>1
    <3> QED
      BY <1>1, <1>2, <2>3, <3>1, <3>2
  <2> QED
    BY <1>2, <2>4
<1>4. ASSUME NEW p \in Nat, q = 0 \/ p <= c, p <= k  PROVE p <= a
  <2>1. q * p <= q * c /\ i * p <= i * k /\ q * p \in Nat /\ i * p \in Nat
    BY <1>4, Products
  <2>2. m * p = q * p + i * p
    OBVIOUS
  <2>3. m * p <= n /\ m * p \in Nat
    BY <1>1, <2>1, <2>2
  <2>4. ASSUME a + 1 <= p  PROVE FALSE
    <3> HIDE DEF n, m
    <3>1. m * (a + 1) <= m * p
      BY <1>1, <1>2, <2>4, Products
    <3>2. m * (a + 1) = m * a + m /\ m * a \in Nat
      BY <1>1, <1>2
    <3> QED
      BY <1>1, <1>2, <2>3, <3>1, <3>2
  <2> QED
    BY <1>2, <2>4
<1>5. 2 * (m * a - n) <= m /\ -m <= 2 * (m * a - n)
  <2>1. m * a \in Nat
    BY <1>1, <1>2
  <2> HIDE DEF n, m
  <2> QED
    BY <1>1, <1>2, <2>1
<1> QED
  BY <1>2, <1>3, <1>4, <1>5 DEF a

-----------------------------------------------------------------------------
(* One movement.                                                           *)

\* A movement takes out or brings in, and takes out no more than there is.
Possible(b, m) ==
  /\ \/ m.in = 0 /\ m.out > 0
     \/ m.in > 0 /\ m.out = 0
  /\ m.out <= b[m.at].qty

\* What a movement makes of the row of its warehouse.
LEMMA MoveRow ==
  ASSUME NEW b \in Balances, NEW m \in CostMoves, Possible(b, m)
  PROVE  LET row == b[m.at]
             now == Costs!Moved(b, m)[m.at]
         IN  /\ Costs!Moved(b, m) \in Balances
             /\ \A w \in Warehouse \ {m.at} : Costs!Moved(b, m)[w] = b[w]
             /\ now \in [qty : Nat, cost : Nat]
             /\ now.qty = row.qty + m.in - m.out
             /\ m.out > 0 => row # NoRow
             /\ row = NoRow => row.qty = 0 /\ row.qty * row.cost = 0
             /\ row # NoRow => row \in [qty : Nat, cost : Nat]
             /\ ~ Costs!Averages(m) => now.cost = Costs!LiveCost(row, 0)
             /\ Costs!Averages(m) =>
                  /\ m.in > 0 /\ m.out = 0
                  /\ now.cost = Costs!Rounded(row.qty * Costs!LiveCost(row, 0) + m.in * m.cost,
                                              row.qty + m.in)
<1> DEFINE row == b[m.at]
           cost == Costs!NewAverage(row, m)
           new == [qty |-> row.qty + m.in - m.out, cost |-> cost]
           live0 == Costs!LiveCost(row, 0)
<1>1. /\ m.at \in Warehouse /\ m.in \in Nat /\ m.out \in Nat /\ m.cost \in Nat /\ row \in Rows
      /\ DOMAIN b = Warehouse
  BY DEF CostMoves, Balances
<1>2. /\ row = NoRow => row.qty = 0 /\ row.cost = -1 /\ live0 = 0
      /\ row # NoRow => row \in [qty : Nat, cost : Nat] /\ live0 = row.cost
  BY <1>1 DEF Rows, NoRow, Costs!NoRow, Costs!LiveCost
<1>3. row.qty \in Nat /\ live0 \in Nat
  BY <1>2
<1>4. row = NoRow => row.qty * row.cost = 0
  BY <1>2
<1>5. m.out <= row.qty /\ (m.out > 0 => row # NoRow)
  BY <1>1, <1>2 DEF Possible
<1>6. row.qty + m.in - m.out \in Nat
  BY <1>1, <1>3, <1>5
<1>7. Costs!Moved(b, m) = [b EXCEPT ![m.at] = new]
  BY DEF Costs!Moved
<1>8. ~ Costs!Averages(m) => cost = live0
  BY DEF Costs!NewAverage
<1>9. Costs!Averages(m) =>
        /\ m.in > 0 /\ m.out = 0
        /\ cost = Costs!Rounded(row.qty * live0 + m.in * m.cost, row.qty + m.in)
  BY <1>1 DEF Costs!NewAverage, Costs!Averages, Possible
<1>10. cost \in Nat
  <2>1. CASE Costs!Averages(m)
    <3>1. m.in \in Nat \ {0}
      BY <1>1, <1>9, <2>1
    <3> DEFINE q == row.qty
               i == m.in
               k == m.cost
    <3>2. q \in Nat /\ live0 \in Nat /\ i \in Nat \ {0} /\ k \in Nat
      BY <1>1, <1>3, <3>1
    <3>3. cost = Costs!Rounded(q * live0 + i * k, q + i)
      BY <1>9, <2>1
    <3> HIDE DEF q, i, k, live0, cost
    <3> QED
      BY <3>2, <3>3, Average
  <2>2. CASE ~ Costs!Averages(m)
    BY <1>3, <1>8, <2>2
  <2> QED
    BY <2>1, <2>2
<1> HIDE DEF cost, live0, row
<1>11. new \in [qty : Nat, cost : Nat]
  BY <1>6, <1>10
<1>12. Costs!Moved(b, m) \in Balances
  BY <1>1, <1>7, <1>11 DEF Balances, Rows
<1>13. Costs!Moved(b, m)[m.at] = new /\ \A w \in Warehouse \ {m.at} : Costs!Moved(b, m)[w] = b[w]
  BY <1>1, <1>7
<1>14. Costs!Moved(b, m)[m.at].cost = cost
       /\ Costs!Moved(b, m)[m.at].qty = row.qty + m.in - m.out
  BY <1>13
<1> QED
  BY <1>2, <1>4, <1>5, <1>8, <1>9, <1>11, <1>12, <1>13, <1>14 DEF live0, row

\* A cost within the prices paid: not above all of them, nor below unless some stock came in free.
Bounded(c, paid, free) ==
  /\ \E p \in paid \union {0} : c <= p
  /\ free = {} => \E p \in paid : c >= p

\* The average of costs within the prices paid is within them.
LEMMA MoveBounded ==
  ASSUME NEW b \in Balances, NEW m \in CostMoves, Possible(b, m), NEW paid \in SUBSET Nat, NEW free,
         b[m.at] # NoRow => Bounded(b[m.at].cost, paid, free),
         m.in > 0 => Bounded(m.cost, paid, free)
  PROVE  Bounded(Costs!Moved(b, m)[m.at].cost, paid, free)
<1> DEFINE row == b[m.at]
           a == Costs!Moved(b, m)[m.at].cost
           c == Costs!LiveCost(row, 0)
<1>1. m.in \in Nat /\ m.out \in Nat /\ m.cost \in Nat /\ m.at \in Warehouse /\ row \in Rows
  BY DEF CostMoves, Balances
<1>2. /\ m.out > 0 => row # NoRow
      /\ row = NoRow => row.qty = 0 /\ c = 0
      /\ row # NoRow => row.qty \in Nat /\ row.cost \in Nat /\ c = row.cost
      /\ a \in Nat
      /\ ~ Costs!Averages(m) => a = c
      /\ Costs!Averages(m) => m.in > 0 /\ a = Costs!Rounded(row.qty * c + m.in * m.cost, row.qty + m.in)
  BY MoveRow DEF Costs!LiveCost, NoRow
<1>3. row.qty \in Nat /\ c \in Nat
  BY <1>2
<1> HIDE DEF row, a, c
<1>4. CASE Costs!Averages(m)
  <2>1. m.in \in Nat \ {0}
    BY <1>1, <1>2, <1>4
  <2>2. /\ \A p \in Nat : (row.qty = 0 \/ c <= p) /\ m.cost <= p => a <= p
        /\ \A p \in Nat : (row.qty = 0 \/ p <= c) /\ p <= m.cost => p <= a
    <3> DEFINE q == row.qty
               i == m.in
               k == m.cost
    <3>1. q \in Nat /\ i \in Nat \ {0} /\ k \in Nat
      BY <1>1, <1>3, <2>1
    <3>2. a = Costs!Rounded(q * c + i * k, q + i)
      BY <1>2, <1>4
    <3> HIDE DEF q, i, k
    <3>3. /\ \A p \in Nat : (q = 0 \/ c <= p) /\ k <= p => a <= p
          /\ \A p \in Nat : (q = 0 \/ p <= c) /\ p <= k => p <= a
      BY <1>3, <3>1, <3>2, Average
    <3> QED
      BY <3>3 DEF q, k
  <2>3. Bounded(m.cost, paid, free) /\ (row # NoRow => Bounded(c, paid, free))
    BY <1>2, <1>1, <2>1 DEF row
  <2>4. \E p \in paid \union {0} : a <= p
    <3>1. PICK p \in paid \union {0} : m.cost <= p
      BY <2>3 DEF Bounded
    <3>2. CASE row = NoRow
      BY <1>2, <2>2, <3>1, <3>2
    <3>3. CASE row # NoRow
      <4>1. PICK r \in paid \union {0} : c <= r
        BY <2>3, <3>3 DEF Bounded
      <4>2. p \in Nat /\ r \in Nat
        OBVIOUS
      <4>3. CASE p <= r
        BY <1>1, <1>3, <2>2, <3>1, <4>1, <4>2, <4>3
      <4>4. CASE r <= p
        BY <1>1, <1>3, <2>2, <3>1, <4>1, <4>2, <4>4
      <4> QED
        BY <4>2, <4>3, <4>4
    <3> QED
      BY <3>2, <3>3
  <2>5. ASSUME free = {}  PROVE \E p \in paid : a >= p
    <3>1. PICK p \in paid : m.cost >= p
      BY <2>3, <2>5 DEF Bounded
    <3>2. CASE row = NoRow
      BY <1>1, <1>2, <2>2, <3>1, <3>2
    <3>3. CASE row # NoRow
      <4>1. PICK r \in paid : c >= r
        BY <2>3, <2>5, <3>3 DEF Bounded
      <4>2. p \in Nat /\ r \in Nat
        OBVIOUS
      <4>3. CASE p <= r
        BY <1>1, <1>2, <1>3, <2>2, <3>1, <4>1, <4>2, <4>3
      <4>4. CASE r <= p
        BY <1>1, <1>2, <1>3, <2>2, <3>1, <4>1, <4>2, <4>4
      <4> QED
        BY <4>2, <4>3, <4>4
    <3> QED
      BY <3>2, <3>3
  <2> QED
    BY <2>4, <2>5 DEF Bounded, a
<1>5. CASE ~ Costs!Averages(m)
  <2>1. a = c
    BY <1>2, <1>5
  <2>2. CASE row # NoRow
    BY <1>2, <2>1, <2>2 DEF row, a
  <2>3. CASE row = NoRow
    <3>1. m.in > 0
      BY <1>1, <1>2, <2>3 DEF Possible
    <3>2. m.cost = 0 /\ a = 0
      BY <1>1, <1>2, <1>5, <2>1, <2>3, <3>1 DEF Costs!Averages
    <3> QED
      BY <3>1, <3>2 DEF a
  <2> QED
    BY <2>2, <2>3
<1> QED
  BY <1>4, <1>5

-----------------------------------------------------------------------------
(* What rows and movements are worth.                                      *)

Stock(b)   == {w \in Warehouse : b[w] # NoRow}
WorthOf(b) == SumFunctionOnSet([w \in Warehouse |-> b[w].qty * b[w].cost], Stock(b))

WorthOfMoves(ms) == SumFunctionOnSet([m \in ms |-> (m.in - m.out) * m.cost], ms)

QtyAveraged(b, m) == IF Costs!Averages(m) THEN b[m.at].qty ELSE 0

\* The rows are worth what the movements are, but for half a unit for each of so many pieces.
Accounted(b, ms, pieces) ==
  /\ 2 * (WorthOf(b) - WorthOfMoves(ms)) <= pieces
  /\ -pieces <= 2 * (WorthOf(b) - WorthOfMoves(ms))

\* The model's sums are those of the lemmas.
LEMMA SameSum ==
  ASSUME NEW f, NEW S
  PROVE  Costs!SumFunctionOnSet(f, S) = SumFunctionOnSet(f, S)
BY DEF SumFunctionOnSet, FoldFunctionOnSet, MapThenFoldSet,
       Costs!SumFunctionOnSet, Costs!FoldFunctionOnSet, Costs!MapThenFoldSet

\* What a row is worth is an integer.
LEMMA WorthType ==
  ASSUME NEW b \in Balances, IsFiniteSet(Stock(b))
  PROVE  /\ \A w \in Warehouse : b[w].qty * b[w].cost \in Int
         /\ WorthOf(b) \in Int
<1> DEFINE f == [w \in Warehouse |-> b[w].qty * b[w].cost]
<1>1. ASSUME NEW w \in Warehouse  PROVE f[w] \in Int /\ f[w] = b[w].qty * b[w].cost
  <2>1. b[w].qty \in Int /\ b[w].cost \in Int
    BY DEF Balances, Rows, NoRow, Costs!NoRow
  <2> QED
    BY <2>1
<1> HIDE DEF f
<1>2. \A w \in Stock(b) : f[w] \in Int
  BY <1>1 DEF Stock
<1>3. SumFunctionOnSet(f, Stock(b)) \in Int
  BY <1>2, SumType
<1> QED
  BY <1>1, <1>3 DEF WorthOf, f

\* A movement changes the worth of the rows by what it changes in its own.
LEMMA MoveWorth ==
  ASSUME NEW b \in Balances, NEW m \in CostMoves, Possible(b, m), IsFiniteSet(Stock(b))
  PROVE  LET c == Costs!Moved(b, m)
         IN  /\ Stock(c) = Stock(b) \union {m.at} /\ IsFiniteSet(Stock(c))
             /\ WorthOf(c) = WorthOf(b) + (c[m.at].qty * c[m.at].cost - b[m.at].qty * b[m.at].cost)
<1> DEFINE c == Costs!Moved(b, m)
           w == m.at
           f == [x \in Warehouse |-> b[x].qty * b[x].cost]
           g == [x \in Warehouse |-> c[x].qty * c[x].cost]
<1>1. /\ c \in Balances /\ w \in Warehouse
      /\ \A x \in Warehouse \ {w} : c[x] = b[x]
      /\ c[w] \in [qty : Nat, cost : Nat]
      /\ b[w] = NoRow => b[w].qty * b[w].cost = 0
  BY MoveRow DEF CostMoves
<1> HIDE DEF c, w
<1>2. c[w] # NoRow
  <2>1. c[w].cost \in Nat
    BY <1>1
  <2> QED
    BY <2>1 DEF NoRow, Costs!NoRow
<1>3. Stock(c) = Stock(b) \union {w}
  BY <1>1, <1>2 DEF Stock
<1>4. IsFiniteSet(Stock(c))
  BY <1>3, FS_AddElement
<1>5. \A x \in Warehouse : f[x] \in Int /\ g[x] \in Int
  BY <1>1, <1>4, WorthType
<1>6. \A x \in Warehouse \ {w} : g[x] = f[x]
  BY <1>1
<1>7. /\ WorthOf(b) = SumFunctionOnSet(f, Stock(b)) /\ WorthOf(c) = SumFunctionOnSet(g, Stock(c))
      /\ f[w] = b[w].qty * b[w].cost /\ g[w] = c[w].qty * c[w].cost
  BY <1>1 DEF WorthOf
<1>8. Stock(b) \subseteq Warehouse /\ Stock(c) \subseteq Warehouse
  BY DEF Stock
<1>9. b[w] = NoRow => f[w] = 0
  BY <1>1, <1>7
<1> HIDE DEF f, g
<1>10. SumFunctionOnSet(g, Stock(c)) = SumFunctionOnSet(f, Stock(b)) + (g[w] - f[w])
  <2>1. CASE w \in Stock(b)
    <3>1. Stock(c) = Stock(b)
      BY <1>3, <2>1
    <3>2. (\A x \in Stock(b) : f[x] \in Int /\ g[x] \in Int) /\ \A x \in Stock(b) \ {w} : g[x] = f[x]
      BY <1>5, <1>6, <1>8
    <3> QED
      BY <2>1, <3>1, <3>2, SumUpdate
  <2>2. CASE w \notin Stock(b)
    <3>1. f[w] = 0
      BY <1>1, <1>9, <2>2 DEF Stock
    <3>2. \A x \in Stock(b) : f[x] \in Int /\ f[x] = g[x]
      BY <1>5, <1>6, <1>8, <2>2
    <3>3. SumFunctionOnSet(f, Stock(b)) = SumFunctionOnSet(g, Stock(b))
      BY <3>2, SumSame
    <3>4. \A x \in Stock(b) \union {w} : g[x] \in Int
      BY <1>1, <1>5, <1>8
    <3>5. SumFunctionOnSet(g, Stock(b) \union {w}) = SumFunctionOnSet(g, Stock(b)) + g[w]
      BY <2>2, <3>4, SumAdd
    <3>6. g[w] \in Int
      BY <1>1, <1>5
    <3> QED
      BY <1>3, <3>1, <3>3, <3>5, <3>6
  <2> QED
    BY <2>1, <2>2
<1> QED
  BY <1>3, <1>4, <1>7, <1>10 DEF c, w

\* A new movement adds what it is worth.
LEMMA MovesWorth ==
  ASSUME NEW ms \in SUBSET CostMoves, IsFiniteSet(ms), NEW m \in CostMoves
  PROVE  /\ WorthOfMoves(ms) \in Int /\ (m.in - m.out) * m.cost \in Int
         /\ IsFiniteSet(ms \union {m})
         /\ m \notin ms => WorthOfMoves(ms \union {m}) = WorthOfMoves(ms) + (m.in - m.out) * m.cost
<1> DEFINE v(n) == (n.in - n.out) * n.cost
           f == [n \in ms |-> v(n)]
           g == [n \in ms \union {m} |-> v(n)]
<1>1. ASSUME NEW n \in CostMoves  PROVE v(n) \in Int
  BY DEF CostMoves
<1> HIDE DEF v
<1>2. (\A n \in ms : f[n] \in Int /\ f[n] = g[n]) /\ g[m] = v(m)
  BY <1>1
<1>3. \A n \in ms \union {m} : g[n] \in Int
  BY <1>1
<1>4. WorthOfMoves(ms) = SumFunctionOnSet(f, ms)
      /\ WorthOfMoves(ms \union {m}) = SumFunctionOnSet(g, ms \union {m})
  BY DEF WorthOfMoves, v
<1> HIDE DEF f, g
<1>5. SumFunctionOnSet(f, ms) \in Int
  BY <1>2, SumType
<1>6. SumFunctionOnSet(f, ms) = SumFunctionOnSet(g, ms)
  BY <1>2, SumSame
<1>7. m \notin ms => SumFunctionOnSet(g, ms \union {m}) = SumFunctionOnSet(g, ms) + g[m]
  BY <1>3, SumAdd
<1>8. IsFiniteSet(ms \union {m})
  BY FS_AddElement
<1> QED
  BY <1>1, <1>2, <1>4, <1>5, <1>6, <1>7, <1>8 DEF v

\* A movement out at the average cost, or in at a cost, is accounted for.
LEMMA MoveAccounted ==
  ASSUME NEW b \in Balances, NEW m \in CostMoves, Possible(b, m), IsFiniteSet(Stock(b)),
         NEW ms \in SUBSET CostMoves, IsFiniteSet(ms), m \notin ms, NEW pieces \in Nat,
         Accounted(b, ms, pieces),
         m.in > 0 => m.cost > 0,
         m.out > 0 => m.cost = b[m.at].cost
  PROVE  Accounted(Costs!Moved(b, m), ms \union {m}, pieces + QtyAveraged(Costs!Moved(b, m), m))
<1> DEFINE c == Costs!Moved(b, m)
           q == b[m.at].qty
           k == Costs!LiveCost(b[m.at], 0)
           old == b[m.at].qty * b[m.at].cost
           new == c[m.at].qty * c[m.at].cost
           d == (m.in - m.out) * m.cost
           r == QtyAveraged(c, m)
           gap == WorthOf(b) - WorthOfMoves(ms)
<1>1. /\ c \in Balances /\ c[m.at] \in [qty : Nat, cost : Nat]
      /\ c[m.at].qty = q + m.in - m.out
      /\ m.out > 0 => b[m.at] # NoRow
      /\ b[m.at] = NoRow => q = 0 /\ old = 0
      /\ b[m.at] # NoRow => b[m.at] \in [qty : Nat, cost : Nat]
      /\ ~ Costs!Averages(m) => c[m.at].cost = k
      /\ Costs!Averages(m) =>
           m.in > 0 /\ m.out = 0 /\ c[m.at].cost = Costs!Rounded(q * k + m.in * m.cost, q + m.in)
  BY MoveRow
<1>2. /\ m.in \in Nat /\ m.out \in Nat /\ m.cost \in Nat /\ m.at \in Warehouse
  BY DEF CostMoves
<1>3. /\ b[m.at] # NoRow => k = b[m.at].cost
      /\ b[m.at] = NoRow => k = 0
  BY DEF Costs!LiveCost, NoRow
<1>4. q \in Nat /\ k \in Nat /\ old = q * k
  <2>1. CASE b[m.at] = NoRow
    BY <1>1, <1>3, <2>1
  <2>2. CASE b[m.at] # NoRow
    BY <1>1, <1>3, <2>2
  <2> QED
    BY <2>1, <2>2
<1>5. r \in Nat /\ 2 * (new - old - d) <= r /\ -r <= 2 * (new - old - d)
  <2>1. CASE Costs!Averages(m)
    <3> DEFINE i == m.in
               p == m.cost
               a == c[m.at].cost
    <3>1. i \in Nat \ {0} /\ p \in Nat /\ a = Costs!Rounded(q * k + i * p, q + i) /\ m.out = 0
      BY <1>1, <1>2, <2>1
    <3>2. c[m.at].qty = q + i /\ r = q + i /\ d = i * p
      BY <1>1, <1>2, <1>4, <2>1, <3>1 DEF QtyAveraged
    <3>3. new = (q + i) * a
      BY <3>2
    <3> HIDE DEF i, p, a, q, k, new, d, r, old
    <3>4. /\ a \in Nat
          /\ 2 * ((q + i) * a - (q * k + i * p)) <= q + i
          /\ -(q + i) <= 2 * ((q + i) * a - (q * k + i * p))
      BY <1>4, <3>1, Average
    <3>5. q * k \in Nat /\ i * p \in Nat /\ (q + i) * a \in Nat /\ q + i \in Nat
      BY <1>4, <3>1, <3>4
    <3>6. new - old - d = (q + i) * a - (q * k + i * p)
      BY <1>4, <3>2, <3>3, <3>5
    <3> QED
      BY <3>2, <3>4, <3>5, <3>6
  <2>2. CASE ~ Costs!Averages(m)
    <3> DEFINE o == m.out
    <3>1. m.in = 0 /\ o > 0 /\ o \in Nat
      BY <1>2, <2>2 DEF Costs!Averages, Possible
    <3>2. m.cost = k /\ c[m.at].cost = k /\ c[m.at].qty = q - o /\ r = 0
      BY <1>1, <1>2, <1>3, <1>4, <2>2, <3>1 DEF QtyAveraged
    <3>3. new = (q - o) * k /\ d = (0 - o) * k
      BY <3>1, <3>2
    <3> HIDE DEF o, q, k, new, d, r, old
    <3>4. (q - o) * k = q * k - o * k /\ (0 - o) * k = -(o * k) /\ o * k \in Nat /\ q * k \in Nat
      BY <1>4, <3>1
    <3>5. new - old - d = 0
      BY <1>4, <3>3, <3>4
    <3> QED
      BY <3>2, <3>5
  <2> QED
    BY <2>1, <2>2
<1>6. new \in Int /\ old \in Int /\ d \in Int /\ WorthOf(b) \in Int /\ WorthOfMoves(ms) \in Int
  <2>1. new \in Int
    BY <1>1
  <2>2. old \in Int
    BY <1>4
  <2> QED
    BY <2>1, <2>2, WorthType, MovesWorth
<1>7. WorthOf(c) = WorthOf(b) + (new - old) /\ WorthOfMoves(ms \union {m}) = WorthOfMoves(ms) + d
  BY MoveWorth, MovesWorth
<1> DEFINE B == WorthOf(b)
           L == WorthOfMoves(ms)
           B2 == WorthOf(c)
           L2 == WorthOfMoves(ms \union {m})
<1>8. 2 * (B - L) <= pieces /\ -pieces <= 2 * (B - L)
  BY DEF Accounted
<1>9. B \in Int /\ L \in Int /\ B2 = B + (new - old) /\ L2 = L + d
  BY <1>6, <1>7
<1> HIDE DEF B, L, B2, L2, new, old, d, r
<1>10. 2 * (B2 - L2) <= pieces + r /\ -(pieces + r) <= 2 * (B2 - L2)
  BY <1>5, <1>6, <1>8, <1>9
<1> QED
  BY <1>10 DEF Accounted, B2, L2, r

-----------------------------------------------------------------------------
(* The movements of a document: none, one, or the two of a transfer.       *)

MovesIteration(b, ms, iter) ==
  iter = [s \in SUBSET (DOMAIN ms) |->
            IF s = {} THEN b ELSE Costs!Moved(iter[s \ {Costs!Max(s)}], ms[Costs!Max(s)])]

\* The fold of the model is a value of such a function.
LEMMA MovedByIteration ==
  ASSUME NEW b, NEW ms
  PROVE  Costs!MovedAll(b, ms) = (CHOOSE iter : MovesIteration(b, ms, iter))[DOMAIN ms]
BY DEF Costs!MovedAll, Costs!FoldLeft, Costs!MapThenFoldSet, MovesIteration

\* The last of one or two places.
LEMMA LastPlace == Costs!Max({1}) = 1 /\ Costs!Max({2}) = 2 /\ Costs!Max({1, 2}) = 2
<1>1. \A S \in {{1}, {2}, {1, 2}} : \A x \in S :
        (\A y \in S : x >= y) => x = Costs!Max(S)
  <2> TAKE S \in {{1}, {2}, {1, 2}}
  <2> TAKE x \in S
  <2> HAVE \A y \in S : x >= y
  <2>1. Costs!Max(S) \in S /\ \A y \in S : Costs!Max(S) >= y
    BY DEF Costs!Max
  <2> QED
    BY <2>1
<1> QED
  BY <1>1

\* No movement leaves the rows as they are.
LEMMA NoMove ==
  ASSUME NEW b
  PROVE  Costs!MovedAll(b, <<>>) = b
<1> DEFINE ms == <<>>
           g == [s \in SUBSET {} |-> b]
           c == CHOOSE iter : MovesIteration(b, ms, iter)
<1>1. DOMAIN ms = {} /\ SUBSET {} = {{}}
  OBVIOUS
<1>2. MovesIteration(b, ms, g)
  BY <1>1 DEF MovesIteration
<1>3. MovesIteration(b, ms, c)
  BY <1>2
<1>4. Costs!MovedAll(b, ms) = c[{}]
  BY <1>1, MovedByIteration
<1> HIDE DEF c, ms
<1>5. c[{}] = b
  BY <1>1, <1>3 DEF MovesIteration
<1> QED
  BY <1>4, <1>5 DEF ms

\* One movement changes one row.
LEMMA OneMove ==
  ASSUME NEW b, NEW m
  PROVE  Costs!MovedAll(b, <<m>>) = Costs!Moved(b, m)
<1> DEFINE ms == <<m>>
           g == [s \in SUBSET {1} |-> IF s = {} THEN b ELSE Costs!Moved(b, m)]
           c == CHOOSE iter : MovesIteration(b, ms, iter)
<1>1. DOMAIN ms = {1} /\ SUBSET {1} = {{}, {1}} /\ ms[1] = m /\ {1} \ {1} = {}
  OBVIOUS
<1> HIDE DEF ms
<1>2. MovesIteration(b, ms, g)
  <2>1. ASSUME NEW s \in SUBSET {1}
        PROVE  g[s] = IF s = {} THEN b ELSE Costs!Moved(g[s \ {Costs!Max(s)}], ms[Costs!Max(s)])
    <3>1. g[{}] = b /\ g[{1}] = Costs!Moved(b, m)
      OBVIOUS
    <3>2. CASE s = {}
      BY <3>1, <3>2
    <3>3. CASE s = {1}
      BY <1>1, <3>1, <3>3, LastPlace
    <3> QED
      BY <1>1, <3>2, <3>3
  <2>2. g = [s \in SUBSET {1} |-> g[s]]
    OBVIOUS
  <2> HIDE DEF g
  <2> QED
    BY <1>1, <2>1, <2>2 DEF MovesIteration
<1>3. MovesIteration(b, ms, c)
  BY <1>2
<1>4. Costs!MovedAll(b, ms) = c[{1}]
  BY <1>1, MovedByIteration
<1> HIDE DEF c
<1>5. \A s \in SUBSET {1} : c[s] =
        IF s = {} THEN b ELSE Costs!Moved(c[s \ {Costs!Max(s)}], ms[Costs!Max(s)])
  BY <1>1, <1>3 DEF MovesIteration
<1>6. c[{}] = b
  BY <1>5
<1>7. c[{1}] = Costs!Moved(c[{}], ms[1])
  BY <1>1, <1>5, LastPlace
<1> QED
  BY <1>1, <1>4, <1>6, <1>7 DEF ms

\* The second of two movements finds what the first has left.
LEMMA TwoMoves ==
  ASSUME NEW b, NEW m, NEW n
  PROVE  Costs!MovedAll(b, <<m, n>>) = Costs!Moved(Costs!Moved(b, m), n)
<1> DEFINE ms == <<m, n>>
           S == {1, 2}
           g == [s \in SUBSET S |->
                   IF s = {} THEN b ELSE IF s = {1} THEN Costs!Moved(b, m)
                   ELSE IF s = {2} THEN Costs!Moved(b, n) ELSE Costs!Moved(Costs!Moved(b, m), n)]
           c == CHOOSE iter : MovesIteration(b, ms, iter)
<1>1. /\ DOMAIN ms = S /\ SUBSET S = {{}, {1}, {2}, {1, 2}} /\ ms[1] = m /\ ms[2] = n
      /\ {1} \ {1} = {} /\ {2} \ {2} = {} /\ {1, 2} \ {2} = {1}
      /\ {1} # {2} /\ {1, 2} # {1} /\ {1, 2} # {2}
  OBVIOUS
<1> HIDE DEF ms, S
<1>2. MovesIteration(b, ms, g)
  <2>1. ASSUME NEW s \in SUBSET S
        PROVE  g[s] = IF s = {} THEN b ELSE Costs!Moved(g[s \ {Costs!Max(s)}], ms[Costs!Max(s)])
    <3>1. /\ g[{}] = b /\ g[{1}] = Costs!Moved(b, m) /\ g[{2}] = Costs!Moved(b, n)
          /\ g[{1, 2}] = Costs!Moved(Costs!Moved(b, m), n)
      BY <1>1
    <3> HIDE DEF g
    <3>2. CASE s = {}
      BY <3>1, <3>2
    <3>3. CASE s = {1}
      <4>1. Costs!Max(s) = 1 /\ s \ {Costs!Max(s)} = {} /\ s # {}
        BY <1>1, <3>3, LastPlace
      <4> QED
        BY <1>1, <3>1, <3>3, <4>1
    <3>4. CASE s = {2}
      <4>1. Costs!Max(s) = 2 /\ s \ {Costs!Max(s)} = {} /\ s # {}
        BY <1>1, <3>4, LastPlace
      <4> QED
        BY <1>1, <3>1, <3>4, <4>1
    <3>5. CASE s = {1, 2}
      <4>1. Costs!Max(s) = 2 /\ s \ {Costs!Max(s)} = {1} /\ s # {}
        BY <1>1, <3>5, LastPlace
      <4>2. g[s] = Costs!Moved(g[{1}], n)
        BY <3>1, <3>5
      <4>3. ms[Costs!Max(s)] = n
        BY <1>1, <4>1
      <4> QED
        BY <4>1, <4>2, <4>3
    <3> QED
      BY <1>1, <3>2, <3>3, <3>4, <3>5
  <2>2. g = [s \in SUBSET S |-> g[s]]
    OBVIOUS
  <2> HIDE DEF g
  <2> QED
    BY <1>1, <2>1, <2>2 DEF MovesIteration
<1>3. MovesIteration(b, ms, c)
  BY <1>2
<1>4. Costs!MovedAll(b, ms) = c[{1, 2}]
  BY <1>1, MovedByIteration DEF S
<1> HIDE DEF c
<1>5. \A s \in SUBSET S : c[s] =
        IF s = {} THEN b ELSE Costs!Moved(c[s \ {Costs!Max(s)}], ms[Costs!Max(s)])
  BY <1>1, <1>3 DEF MovesIteration
<1>6. c[{}] = b
  BY <1>5
<1>7. c[{1}] = Costs!Moved(c[{}], ms[1])
  BY <1>1, <1>5, LastPlace
<1>8. c[{1, 2}] = Costs!Moved(c[{1}], ms[2])
  BY <1>1, <1>5, LastPlace
<1> QED
  BY <1>1, <1>4, <1>6, <1>7, <1>8 DEF ms

\* No movement rounds nothing.
LEMMA NothingRounded ==
  ASSUME NEW b
  PROVE  Costs!QtyRounded(b, <<>>) = 0
<1> DEFINE f == [k \in {} |-> IF Costs!Averages(<<>>[k]) THEN b[<<>>[k].at].qty ELSE 0]
<1>1. DOMAIN <<>> = {}
  OBVIOUS
<1>2. Costs!QtyRounded(b, <<>>) = SumFunctionOnSet(f, {})
  BY <1>1, SameSum DEF Costs!QtyRounded
<1> HIDE DEF f
<1>3. SumFunctionOnSet(f, {}) = 0
  BY SumZero, FS_EmptySet
<1> QED
  BY <1>2, <1>3

\* What movements round is what each of them rounds.
LEMMA RoundedQty ==
  ASSUME NEW b \in Balances, NEW m \in CostMoves, NEW n \in CostMoves
  PROVE  /\ QtyAveraged(b, m) \in Nat
         /\ Costs!QtyRounded(b, <<m>>) = QtyAveraged(b, m)
         /\ Costs!QtyRounded(b, <<m, n>>) = QtyAveraged(b, m) + QtyAveraged(b, n)
<1> DEFINE Of(ms) == [k \in DOMAIN ms |-> IF Costs!Averages(ms[k]) THEN b[ms[k].at].qty ELSE 0]
<1>1. \A ms : Costs!QtyRounded(b, ms) = SumFunctionOnSet(Of(ms), DOMAIN ms)
  BY SameSum DEF Costs!QtyRounded
<1>2. ASSUME NEW x \in CostMoves  PROVE QtyAveraged(b, x) \in Nat
  <2>1. b[x.at].qty \in Nat
    BY DEF CostMoves, Balances, Rows, NoRow, Costs!NoRow
  <2> QED
    BY <2>1 DEF QtyAveraged
<1>3. DOMAIN <<m>> = {1} /\ DOMAIN <<m, n>> = {1, 2}
  OBVIOUS
<1>4. /\ Of(<<m>>)[1] = QtyAveraged(b, m)
      /\ Of(<<m, n>>)[1] = QtyAveraged(b, m) /\ Of(<<m, n>>)[2] = QtyAveraged(b, n)
  BY <1>3 DEF QtyAveraged
<1> HIDE DEF Of
<1>6. ASSUME NEW f, f[1] \in Int  PROVE SumFunctionOnSet(f, {1}) = f[1]
  <2>1. SumFunctionOnSet(f, {} \union {1}) = SumFunctionOnSet(f, {}) + f[1]
    BY <1>6, SumAdd, FS_EmptySet
  <2>2. SumFunctionOnSet(f, {}) = 0
    BY SumZero, FS_EmptySet
  <2>3. {} \union {1} = {1}
    OBVIOUS
  <2> QED
    BY <1>6, <2>1, <2>2, <2>3
<1>7. ASSUME NEW f, f[1] \in Int, f[2] \in Int  PROVE SumFunctionOnSet(f, {1, 2}) = f[1] + f[2]
  <2>1. IsFiniteSet({1}) /\ 2 \notin {1} /\ {1} \union {2} = {1, 2}
    <3>1. IsFiniteSet({1})
      BY FS_Singleton
    <3>2. 2 \notin {1} /\ {1} \union {2} = {1, 2}
      OBVIOUS
    <3> QED
      BY <3>1, <3>2
  <2>2. \A x \in {1} \union {2} : f[x] \in Int
    BY <1>7
  <2>3. SumFunctionOnSet(f, {1} \union {2}) = SumFunctionOnSet(f, {1}) + f[2]
    BY <2>1, <2>2, SumAdd
  <2> QED
    BY <1>6, <1>7, <2>1, <2>3
<1>8. Costs!QtyRounded(b, <<m>>) = QtyAveraged(b, m)
  BY <1>1, <1>2, <1>3, <1>4, <1>6
<1>9. Costs!QtyRounded(b, <<m, n>>) = QtyAveraged(b, m) + QtyAveraged(b, n)
  <2>1. SumFunctionOnSet(Of(<<m, n>>), {1, 2}) = Of(<<m, n>>)[1] + Of(<<m, n>>)[2]
    BY <1>2, <1>4, <1>7
  <2> QED
    BY <1>1, <1>3, <1>4, <2>1
<1> QED
  BY <1>2, <1>8, <1>9

-----------------------------------------------------------------------------
(* What a document posts.                                                  *)

\* A movement of d: out at the cost it has read, or in at that cost or at a price paid.
Posts(d, seen, m) ==
  /\ m.doc = d
  /\ \/ m.in = 0 /\ m.out > 0
     \/ m.in > 0 /\ m.out = 0
  /\ m.out > 0 => m.at = Document[d].at /\ m.cost = Costs!LiveCost(seen, 0)
  /\ m.in > 0 => \/ m.cost = Costs!LiveCost(seen, 0)
                 \/ Document[d].kind \in {"goodsReceived", "openingStock"}
                 \/ Document[d].kind = "stockReturn" /\ m.cost = PurchasePrice
                 \/ Document[d].kind = "salesReturn" /\ seen = NoRow

\* Only a transfer has two movements, in different warehouses; a count that finds nothing has none.
LEMMA MovementsOf ==
  ASSUME Costs!CostsAssumption, NEW d \in Documents, NEW seen \in Rows
  PROVE  \/ Costs!Movements(d, seen) = <<>>
         \/ \E m \in CostMoves : Posts(d, seen, m) /\ Costs!Movements(d, seen) = <<m>>
         \/ \E m \in CostMoves, n \in CostMoves :
              /\ Posts(d, seen, m) /\ Posts(d, seen, n)
              /\ m.in = 0 /\ n.in > 0 /\ m.at # n.at
              /\ Costs!Movements(d, seen) = <<m, n>>
<1> DEFINE doc == Document[d]
           here == Costs!LiveCost(seen, 0)
           diff == doc.qty - seen.qty
           In(w, q, c) == [doc |-> d, at |-> w, in |-> q, out |-> 0, cost |-> c]
           Out(w, q, c) == [doc |-> d, at |-> w, in |-> 0, out |-> q, cost |-> c]
<1>1. /\ doc.kind \in Costs!Kinds /\ doc.at \in Warehouse /\ doc.to \in Warehouse
      /\ doc.qty \in Nat /\ doc.rate \in Nat /\ doc.factor \in Nat \ {0} /\ PurchasePrice \in Nat
      /\ doc.kind # "count" => doc.qty > 0
      /\ doc.kind = "transfer" => doc.at # doc.to
  BY DEF Costs!CostsAssumption, Documents
<1>2. /\ seen.qty \in Nat /\ here \in Nat /\ diff \in Int
      /\ seen # NoRow => Costs!LiveCost(seen, PurchasePrice) = here
      /\ seen = NoRow => Costs!LiveCost(seen, PurchasePrice) = PurchasePrice
  BY <1>1 DEF Rows, NoRow, Costs!NoRow, Costs!LiveCost
<1>3. ASSUME NEW w \in Warehouse, NEW q \in Nat, NEW c \in Nat
      PROVE  In(w, q, c) \in CostMoves /\ Out(w, q, c) \in CostMoves
  BY DEF CostMoves
<1>4. CASE doc.kind = "goodsReceived"
  <2> DEFINE m == In(doc.at, doc.qty * doc.factor, Costs!Rounded(doc.rate, doc.factor))
  <2>1. Costs!Movements(d, seen) = <<m>>
    BY <1>4 DEF Costs!Movements, Costs!In
  <2>2. doc.qty * doc.factor \in Nat /\ doc.qty * doc.factor > 0
    <3> DEFINE q == doc.qty
               f == doc.factor
    <3>1. q \in Nat /\ f \in Nat /\ 0 < q /\ 0 < f
      BY <1>1, <1>4
    <3> HIDE DEF q, f
    <3>2. q * f \in Nat /\ q * f > 0
      BY <3>1
    <3> QED
      BY <3>2 DEF q, f
  <2>3. Costs!Rounded(doc.rate, doc.factor) \in Nat
    BY <1>1, Quotient
  <2>4. m \in CostMoves
    BY <1>1, <1>3, <2>2, <2>3
  <2>5. Posts(d, seen, m)
    BY <1>4, <2>2 DEF Posts
  <2> QED
    BY <2>1, <2>4, <2>5
<1>5. CASE doc.kind = "openingStock"
  <2> DEFINE m == In(doc.at, doc.qty, PurchasePrice)
  <2>1. Costs!Movements(d, seen) = <<m>>
    BY <1>5 DEF Costs!Movements, Costs!In
  <2>2. m \in CostMoves
    BY <1>1, <1>3
  <2>3. Posts(d, seen, m)
    BY <1>1, <1>5 DEF Posts
  <2> QED
    BY <2>1, <2>2, <2>3
<1>6. CASE doc.kind = "transfer"
  <2> DEFINE m == Out(doc.at, doc.qty, here)
             n == In(doc.to, doc.qty, here)
  <2>1. Costs!Movements(d, seen) = <<m, n>>
    BY <1>6 DEF Costs!Movements, Costs!In, Costs!Out
  <2>2. m \in CostMoves /\ n \in CostMoves
    BY <1>1, <1>2, <1>3
  <2>3. /\ m.doc = d /\ m.at = doc.at /\ m.in = 0 /\ m.out = doc.qty /\ m.cost = here
        /\ n.doc = d /\ n.at = doc.to /\ n.in = doc.qty /\ n.out = 0 /\ n.cost = here
    OBVIOUS
  <2>4. doc.qty \in Nat /\ doc.qty > 0 /\ doc.at # doc.to
    BY <1>1, <1>6
  <2> HIDE DEF m, n
  <2>5. Posts(d, seen, m)
    BY <2>3, <2>4 DEF Posts
  <2>6. Posts(d, seen, n)
    BY <2>3, <2>4 DEF Posts
  <2> QED
    BY <2>1, <2>2, <2>3, <2>4, <2>5, <2>6
<1>7. CASE doc.kind = "issue"
  <2> DEFINE m == Out(doc.at, doc.qty, here)
  <2>1. Costs!Movements(d, seen) = <<m>>
    BY <1>7 DEF Costs!Movements, Costs!Out
  <2>2. m \in CostMoves
    BY <1>1, <1>2, <1>3
  <2>3. m.doc = d /\ m.at = doc.at /\ m.in = 0 /\ m.out = doc.qty /\ m.cost = here
    OBVIOUS
  <2>4. doc.qty \in Nat /\ doc.qty > 0
    BY <1>1, <1>7
  <2> HIDE DEF m
  <2>5. Posts(d, seen, m)
    <3>1. m.doc = d
      BY <2>3
    <3>2. m.in = 0 /\ m.out > 0
      BY <2>3, <2>4
    <3>3. m.at = Document[d].at /\ m.cost = Costs!LiveCost(seen, 0)
      BY <2>3
    <3>4. ~ (m.in > 0)
      BY <3>2
    <3> QED
      BY <3>1, <3>2, <3>3, <3>4 DEF Posts
  <2> QED
    BY <2>1, <2>2, <2>5
<1>8. CASE doc.kind \in {"stockReturn", "salesReturn"}
  <2> DEFINE cost == Costs!LiveCost(seen, PurchasePrice)
             m == In(doc.at, doc.qty, cost)
  <2>1. Costs!Movements(d, seen) = <<m>>
    BY <1>8 DEF Costs!Movements, Costs!In
  <2>2. /\ seen # NoRow => cost = here
        /\ seen = NoRow => cost = PurchasePrice
        /\ cost \in Nat
    BY <1>1, <1>2
  <2> HIDE DEF cost, here
  <2>3. m \in CostMoves
    BY <1>1, <1>3, <2>2
  <2>4. Posts(d, seen, m)
    BY <1>1, <1>8, <2>2 DEF Posts, here
  <2> QED
    BY <2>1, <2>3, <2>4
<1>9. CASE doc.kind = "count"
  <2>0. Costs!Movements(d, seen) =
          IF diff > 0 THEN <<In(doc.at, diff, here)>>
          ELSE IF diff < 0 THEN <<Out(doc.at, -diff, here)>> ELSE <<>>
    BY <1>9 DEF Costs!Movements, Costs!In, Costs!Out
  <2> HIDE DEF diff
  <2>1. CASE diff > 0
    <3> DEFINE m == In(doc.at, diff, here)
    <3>1. diff \in Nat
      BY <1>2, <2>1
    <3>2. m \in CostMoves
      BY <1>1, <1>2, <1>3, <3>1
    <3>3. m.doc = d /\ m.in = diff /\ m.out = 0 /\ m.cost = here
      OBVIOUS
    <3>4. Costs!Movements(d, seen) = <<m>>
      BY <2>0, <2>1
    <3> HIDE DEF m, here
    <3>5. Posts(d, seen, m)
      BY <2>1, <3>1, <3>3 DEF Posts, here
    <3> QED
      BY <3>2, <3>4, <3>5
  <2>2. CASE diff < 0
    <3> DEFINE m == Out(doc.at, -diff, here)
    <3>1. -diff \in Nat /\ -diff > 0 /\ ~ (diff > 0)
      BY <1>2, <2>2
    <3>2. m \in CostMoves
      BY <1>1, <1>2, <1>3, <3>1
    <3>3. m.doc = d /\ m.at = doc.at /\ m.in = 0 /\ m.out = -diff /\ m.cost = here
      OBVIOUS
    <3>4. Costs!Movements(d, seen) = <<m>>
      BY <2>0, <2>2, <3>1
    <3> HIDE DEF m, here
    <3>5. Posts(d, seen, m)
      BY <3>1, <3>3 DEF Posts, here
    <3> QED
      BY <3>2, <3>4, <3>5
  <2>3. CASE diff = 0
    BY <2>0, <2>3
  <2> QED
    BY <1>2, <2>1, <2>2, <2>3
<1> QED
  BY <1>1, <1>4, <1>5, <1>6, <1>7, <1>8, <1>9 DEF Costs!Kinds

-----------------------------------------------------------------------------
(* The invariant.                                                          *)

\* Rows that are finitely many, each at a cost within the prices paid.
Priced(b, paid, free) ==
  /\ b \in Balances /\ IsFiniteSet(Stock(b))
  /\ \A w \in Stock(b) : Bounded(b[w].cost, paid, free)

Within(c) == Bounded(c, Costs!Paid, Costs!Free)

\* Nothing came in free, and nothing went out at a cost that another document had changed.
Undisturbed == Costs!Free = {} /\ \A m \in ledger : m.doc \in stale => m.out = 0

(***************************************************************************)
(* StockIsWorthWhatWasPaid with what the documents under way have read:    *)
(* costs that were within the prices paid stay within them, since prices   *)
(* are only added.  A document posts once, so its movements are new.       *)
(***************************************************************************)
CostInv ==
  /\ Priced(balance, Costs!Paid, Costs!Free)
  /\ ledger \in SUBSET CostMoves /\ IsFiniteSet(ledger)
  /\ \A m \in ledger : documentPc[m.doc] = "posted"
  /\ documentPc \in [Documents -> {"absent", "draft", "approving", "posted"}]
  /\ live \in [Documents -> Rows]
  /\ stale \subseteq Documents /\ rounded \in Nat
  /\ \A d \in Documents : live[d] # NoRow => Within(live[d].cost)
  /\ \A d \in Documents :
       documentPc[d] = "approving" /\ Document[d].kind = "salesReturn" => live[d] # NoRow
  /\ Undisturbed => Accounted(balance, ledger, rounded)

\* A step of the application is a step of a document or leaves stock alone.
LEMMA CostStep ==
  ASSUME [Next]_vars
  PROVE  \/ \E d \in Documents : Costs!ReadLiveBalance(d) \/ Costs!Post(d) \/ Costs!Refuse(d)
         \/ UNCHANGED costVars
BY DEF Next, vars, costVars, Costs!Next, Documents

\* Costs within the prices paid stay there when more are paid.
LEMMA BoundedGrows ==
  ASSUME NEW paid, NEW more, paid \subseteq more, NEW free, NEW freer, free \subseteq freer,
         NEW c, Bounded(c, paid, free)
  PROVE  Bounded(c, more, freer)
<1>1. freer = {} => free = {}
  OBVIOUS
<1>2. \E p \in more \union {0} : c <= p
  BY DEF Bounded
<1>3. free = {} => \E p \in more : c >= p
  BY DEF Bounded
<1> QED
  BY <1>1, <1>2, <1>3 DEF Bounded

\* A movement keeps costs within the prices.
LEMMA MovePriced ==
  ASSUME NEW paid \in SUBSET Nat, NEW free, NEW b, Priced(b, paid, free),
         NEW m \in CostMoves, Possible(b, m), m.in > 0 => Bounded(m.cost, paid, free)
  PROVE  Priced(Costs!Moved(b, m), paid, free)
<1> DEFINE c == Costs!Moved(b, m)
<1>1. b \in Balances /\ IsFiniteSet(Stock(b)) /\ m.at \in Warehouse
  BY DEF Priced, CostMoves
<1>2. c \in Balances /\ \A w \in Warehouse \ {m.at} : c[w] = b[w]
  BY <1>1, MoveRow
<1>3. IsFiniteSet(Stock(c))
  BY <1>1, MoveWorth
<1>4. b[m.at] # NoRow => Bounded(b[m.at].cost, paid, free)
  BY <1>1 DEF Priced, Stock
<1>5. Bounded(c[m.at].cost, paid, free)
  BY <1>1, <1>4, MoveBounded
<1> HIDE DEF c
<1>6. ASSUME NEW w \in Stock(c)  PROVE Bounded(c[w].cost, paid, free)
  <2>1. CASE w = m.at
    BY <1>5, <2>1
  <2>2. CASE w # m.at
    <3>1. c[w] = b[w] /\ w \in Stock(b)
      BY <1>2, <1>6, <2>2 DEF Stock
    <3> QED
      BY <3>1 DEF Priced
  <2> QED
    BY <2>1, <2>2
<1> QED
  BY <1>2, <1>3, <1>6 DEF Priced, c

\* Posting keeps the rows priced and accounted for.
LEMMA PostStep ==
  ASSUME Costs!CostsAssumption, CostInv, NEW d \in Documents, Costs!Post(d)
  PROVE  CostInv'
<1> DEFINE seen == live[d]
           ms == Costs!Movements(d, seen)
           here == Costs!LiveCost(seen, 0)
<1>1. /\ balance' = Costs!MovedAll(balance, ms)
      /\ ledger' = ledger \union Costs!ToSet(ms)
      /\ documentPc' = [documentPc EXCEPT ![d] = "posted"]
      /\ live' = live /\ documentPc[d] = "approving"
      /\ rounded' = rounded + Costs!QtyRounded(balance', ms)
      /\ stale' = IF live[d].cost # balance[Document[d].at].cost THEN stale \union {d} ELSE stale
      /\ \A k \in 1..Len(ms) : ms[k].out <= balance[ms[k].at].qty
  BY DEF Costs!Post, Costs!Sufficient
<1>2. /\ balance \in Balances /\ IsFiniteSet(Stock(balance))
      /\ ledger \in SUBSET CostMoves /\ IsFiniteSet(ledger) /\ rounded \in Nat
      /\ seen \in Rows /\ live \in [Documents -> Rows] /\ stale \subseteq Documents
      /\ documentPc \in [Documents -> {"absent", "draft", "approving", "posted"}]
  BY DEF CostInv, Priced
<1>3. /\ documentPc'[d] = "posted"
      /\ \A e \in Documents : documentPc[e] = "posted" => documentPc'[e] = "posted"
      /\ \A e \in Documents \ {d} : documentPc'[e] = documentPc[e]
      /\ documentPc' \in [Documents -> {"absent", "draft", "approving", "posted"}]
      /\ stale \subseteq stale' /\ stale' \subseteq Documents
  BY <1>1, <1>2
<1>4. ledger \subseteq ledger'
  BY <1>1
<1>5. \A kind : Costs!Posted(kind) \subseteq Costs!Posted(kind)'
  BY <1>3 DEF Costs!Posted, Documents
<1>6. Costs!Paid \subseteq Costs!Paid' /\ Costs!Free \subseteq Costs!Free'
  <2>1. Costs!Free \subseteq Costs!Free'
    BY <1>4 DEF Costs!Free
  <2>2. Costs!Paid \subseteq Costs!Paid'
    BY <1>4, <1>5 DEF Costs!Paid
  <2> QED
    BY <2>1, <2>2
<1>7. Priced(balance, Costs!Paid', Costs!Free')
  BY <1>6, BoundedGrows DEF CostInv, Priced
<1>8. \A e \in Documents : live[e] # NoRow => Within(live[e].cost)'
  <2>1. ASSUME NEW e \in Documents, live[e] # NoRow  PROVE Bounded(live[e].cost, Costs!Paid', Costs!Free')
    BY <1>6, <2>1, BoundedGrows DEF CostInv, Within
  <2> QED
    BY <1>1, <2>1 DEF Within
<1>9. \A e \in Documents :
        documentPc'[e] = "approving" /\ Document[e].kind = "salesReturn" => live'[e] # NoRow
  BY <1>1, <1>3 DEF CostInv
<1> HIDE DEF seen, ms, here
<1>10. ASSUME NEW m \in CostMoves, Posts(d, seen, m)  PROVE m \notin ledger
  BY <1>1, <1>10 DEF CostInv, Posts
<1>11. ASSUME NEW m \in CostMoves, Posts(d, seen, m), m \in ledger', m.in > 0
       PROVE  Bounded(m.cost, Costs!Paid', Costs!Free')
  <2>1. m.cost \in Nat /\ m.doc = d
    BY <1>11 DEF CostMoves, Posts
  <2>2. CASE m.cost = 0
    <3>1. m \in Costs!Free'
      BY <1>11, <2>2 DEF Costs!Free
    <3> QED
      BY <2>2, <3>1 DEF Bounded
  <2>3. CASE m.cost \in Costs!Paid'
    BY <2>1, <2>3 DEF Bounded
  <2>4. CASE m.cost = here /\ m.cost # 0
    <3>1. seen # NoRow /\ here = seen.cost
      BY <2>4 DEF here, Costs!LiveCost, NoRow
    <3> QED
      BY <1>1, <1>8, <2>4, <3>1 DEF Within, seen
  <2>5. CASE Document[d].kind \in {"goodsReceived", "openingStock"}
    <3>1. d \in Costs!Posted("goodsReceived")' \union Costs!Posted("openingStock")'
      BY <1>3, <2>5 DEF Costs!Posted, Documents
    <3>2. m.cost \in Costs!Paid'
      BY <1>11, <2>1, <3>1 DEF Costs!Paid
    <3> QED
      BY <2>3, <3>2
  <2>6. CASE Document[d].kind = "stockReturn" /\ m.cost = PurchasePrice
    <3>1. d \in Costs!Posted("stockReturn")'
      BY <1>3, <2>6 DEF Costs!Posted, Documents
    <3>2. m.cost \in Costs!Paid'
      BY <2>6, <3>1 DEF Costs!Paid
    <3> QED
      BY <2>3, <3>2
  <2>7. ~ (Document[d].kind = "salesReturn" /\ seen = NoRow)
    BY <1>1 DEF CostInv, seen
  <2> QED
    BY <1>11, <2>2, <2>4, <2>5, <2>6, <2>7 DEF Posts, here
<1>12. ASSUME NEW m \in CostMoves, Posts(d, seen, m), m \in ledger', Undisturbed', Possible(balance, m)
       PROVE  (m.in > 0 => m.cost > 0) /\ (m.out > 0 => m.cost = balance[m.at].cost)
  <2>1. m.cost \in Nat /\ m.out \in Nat /\ m.doc = d /\ m.at \in Warehouse
    BY <1>12 DEF CostMoves, Posts
  <2>2. m.in > 0 => m.cost > 0
    <3>1. Costs!Free' = {}
      BY <1>12 DEF Undisturbed
    <3>2. m.in > 0 /\ m.cost = 0 => m \in Costs!Free'
      BY <1>12 DEF Costs!Free
    <3> QED
      BY <2>1, <3>1, <3>2
  <2>3. ASSUME m.out > 0  PROVE m.cost = balance[m.at].cost
    <3>1. m.at = Document[d].at /\ m.cost = Costs!LiveCost(seen, 0)
      BY <1>12, <2>3 DEF Posts
    <3>2. d \notin stale'
      BY <1>12, <2>1, <2>3 DEF Undisturbed
    <3>3. seen.cost = balance[m.at].cost
      BY <1>1, <3>1, <3>2 DEF seen
    <3>4. balance[m.at] # NoRow
      BY <1>2, <1>12, <2>3, MoveRow
    <3>5. balance[m.at].cost \in Nat
      BY <1>2, <2>1, <3>4 DEF Balances, Rows
    <3>6. seen # NoRow
      BY <3>3, <3>5 DEF NoRow, Costs!NoRow
    <3> QED
      BY <3>1, <3>3, <3>6 DEF Costs!LiveCost, NoRow
  <2> QED
    BY <2>2, <2>3
<1>13. Undisturbed' => Accounted(balance, ledger, rounded)
  BY <1>3, <1>4, <1>6 DEF CostInv, Undisturbed
<1>14. ASSUME ledger' \in SUBSET CostMoves  PROVE Costs!Paid' \in SUBSET Nat
  <2>1. PurchasePrice \in Nat
    BY DEF Costs!CostsAssumption
  <2>2. \A m \in ledger' : m.cost \in Nat
    BY <1>14 DEF CostMoves
  <2> QED
    BY <2>1, <2>2 DEF Costs!Paid
<1> DEFINE Goal ==
             /\ Priced(balance', Costs!Paid', Costs!Free')
             /\ ledger' \in SUBSET CostMoves /\ IsFiniteSet(ledger') /\ rounded' \in Nat
             /\ \A m \in ledger' : documentPc'[m.doc] = "posted"
             /\ Undisturbed' => Accounted(balance', ledger', rounded')
<1>15. \A m \in ledger : documentPc'[m.doc] = "posted"
  BY <1>2, <1>3 DEF CostInv, CostMoves
<1>16. ASSUME ms = <<>>  PROVE Goal
  <2>1. Costs!ToSet(ms) = {}
    BY <1>16 DEF Costs!ToSet
  <2>2. balance' = balance /\ ledger' = ledger /\ rounded' = rounded
    BY <1>1, <1>2, <1>16, <2>1, NoMove, NothingRounded
  <2> QED
    BY <1>2, <1>7, <1>13, <1>15, <2>2
<1>17. ASSUME NEW m \in CostMoves, Posts(d, seen, m), ms = <<m>>  PROVE Goal
  <2>1. Costs!ToSet(ms) = {m} /\ m.out <= balance[m.at].qty
    <3>1. DOMAIN ms = {1} /\ 1 \in 1..Len(ms) /\ ms[1] = m
      BY <1>17
    <3> QED
      BY <1>1, <3>1 DEF Costs!ToSet
  <2>2. Possible(balance, m)
    BY <1>17, <2>1 DEF Possible, Posts
  <2>3. ledger' = ledger \union {m}
    BY <1>1, <2>1
  <2>4. ledger' \in SUBSET CostMoves /\ IsFiniteSet(ledger')
    BY <1>2, <1>17, <2>3, FS_AddElement
  <2>5. balance' = Costs!Moved(balance, m) /\ balance' \in Balances
    BY <1>1, <1>2, <1>17, <2>2, OneMove, MoveRow
  <2>6. rounded' = rounded + QtyAveraged(balance', m) /\ QtyAveraged(balance', m) \in Nat
    BY <1>1, <1>17, <2>5, RoundedQty
  <2>7. m \in ledger' /\ m \notin ledger
    BY <1>10, <1>17, <2>3
  <2>8. Priced(balance', Costs!Paid', Costs!Free')
    <3>1. m.in > 0 => Bounded(m.cost, Costs!Paid', Costs!Free')
      BY <1>11, <1>17, <2>7
    <3> QED
      BY <1>7, <1>14, <2>2, <2>4, <2>5, <3>1, MovePriced
  <2>9. Undisturbed' => Accounted(balance', ledger', rounded')
    <3>1. HAVE Undisturbed'
    <3>2. (m.in > 0 => m.cost > 0) /\ (m.out > 0 => m.cost = balance[m.at].cost)
      BY <1>12, <1>17, <2>2, <2>7, <3>1
    <3> QED
      BY <1>2, <1>13, <2>2, <2>3, <2>5, <2>6, <2>7, <3>1, <3>2, MoveAccounted
  <2>10. \A x \in ledger' : documentPc'[x.doc] = "posted"
    BY <1>3, <1>15, <1>17, <2>3 DEF Posts
  <2> QED
    BY <1>2, <2>4, <2>6, <2>8, <2>9, <2>10
<1>18. ASSUME NEW m \in CostMoves, NEW n \in CostMoves, Posts(d, seen, m), Posts(d, seen, n),
              m.in = 0, n.in > 0, m.at # n.at, ms = <<m, n>>
       PROVE  Goal
  <2> DEFINE b == Costs!Moved(balance, m)
             moves == ledger \union {m}
  <2>1. Costs!ToSet(ms) = {m, n} /\ m.out <= balance[m.at].qty
    <3>1. DOMAIN ms = {1, 2} /\ 1 \in 1..Len(ms) /\ ms[1] = m /\ ms[2] = n
      BY <1>18
    <3> QED
      BY <1>1, <3>1 DEF Costs!ToSet
  <2>2. Possible(balance, m) /\ n.out = 0
    BY <1>18, <2>1 DEF Possible, Posts
  <2>3. b \in Balances /\ IsFiniteSet(Stock(b)) /\ b[n.at] = balance[n.at] /\ balance[n.at].qty \in Nat
    <3>1. n.at \in Warehouse \ {m.at}
      BY <1>18 DEF CostMoves
    <3>2. b \in Balances /\ b[n.at] = balance[n.at]
      BY <1>2, <2>2, <3>1, MoveRow
    <3>3. IsFiniteSet(Stock(b))
      BY <1>2, <2>2, MoveWorth
    <3>4. balance[n.at].qty \in Nat
      BY <1>2, <3>1 DEF Balances, Rows, NoRow, Costs!NoRow
    <3> QED
      BY <3>2, <3>3, <3>4
  <2>4. Possible(b, n) /\ Possible(balance, n)
    <3>1. n.out <= b[n.at].qty /\ n.out <= balance[n.at].qty
      BY <2>2, <2>3
    <3> QED
      BY <1>18, <2>2, <3>1 DEF Possible
  <2>5. ledger' = moves \union {n} /\ m \in ledger' /\ n \in ledger' /\ m \notin ledger
        /\ n \notin moves
    BY <1>1, <1>10, <1>18, <2>1
  <2>6. moves \in SUBSET CostMoves /\ IsFiniteSet(moves) /\ ledger' \in SUBSET CostMoves /\ IsFiniteSet(ledger')
    BY <1>2, <1>18, <2>5, FS_AddElement
  <2>7. balance' = Costs!Moved(b, n) /\ balance' \in Balances
    <3>1. balance' = Costs!Moved(b, n)
      BY <1>1, <1>18, TwoMoves
    <3> HIDE DEF b
    <3> QED
      BY <2>3, <2>4, <3>1, MoveRow
  <2>8. QtyAveraged(b, m) = 0 /\ QtyAveraged(balance', m) = 0
    <3>1. ~ Costs!Averages(m)
      BY <1>18 DEF Costs!Averages
    <3> QED
      BY <3>1 DEF QtyAveraged
  <2>9. rounded' = rounded + QtyAveraged(balance', n) /\ QtyAveraged(balance', n) \in Nat
    <3>1. QtyAveraged(balance', n) \in Nat
          /\ Costs!QtyRounded(balance', ms) = QtyAveraged(balance', m) + QtyAveraged(balance', n)
      BY <1>18, <2>7, RoundedQty
    <3> QED
      BY <1>1, <1>2, <2>8, <3>1
  <2>10. Priced(balance', Costs!Paid', Costs!Free')
    <3>1. /\ m.in > 0 => Bounded(m.cost, Costs!Paid', Costs!Free')
          /\ n.in > 0 => Bounded(n.cost, Costs!Paid', Costs!Free')
      BY <1>11, <1>18, <2>5
    <3>2. Priced(b, Costs!Paid', Costs!Free')
      BY <1>7, <1>14, <2>2, <2>6, <3>1, MovePriced
    <3> HIDE DEF b
    <3> QED
      BY <1>14, <2>4, <2>6, <2>7, <3>1, <3>2, MovePriced
  <2>11. Undisturbed' => Accounted(balance', ledger', rounded')
    <3>1. HAVE Undisturbed'
    <3>2. /\ (m.in > 0 => m.cost > 0) /\ (m.out > 0 => m.cost = balance[m.at].cost)
          /\ (n.in > 0 => n.cost > 0) /\ (n.out > 0 => n.cost = b[n.at].cost)
      BY <1>12, <1>18, <2>2, <2>3, <2>4, <2>5, <3>1
    <3>3. Accounted(b, moves, rounded + QtyAveraged(b, m))
      BY <1>2, <1>13, <2>2, <2>5, <3>1, <3>2, MoveAccounted
    <3>4. Accounted(b, moves, rounded)
      BY <1>2, <2>8, <3>3
    <3> HIDE DEF b, moves
    <3> QED
      BY <1>2, <2>3, <2>4, <2>5, <2>6, <2>7, <2>9, <3>2, <3>4, MoveAccounted
  <2>12. \A x \in ledger' : documentPc'[x.doc] = "posted"
    BY <1>3, <1>15, <1>18, <2>5 DEF Posts
  <2> QED
    BY <1>2, <2>6, <2>9, <2>10, <2>11, <2>12
<1>19. live' \in [Documents -> Rows]
       /\ \A e \in Documents : live'[e] # NoRow => Within(live[e].cost)'
  BY <1>1, <1>2, <1>8
<1> HIDE DEF Goal
<1>20. Goal
  BY <1>2, <1>16, <1>17, <1>18, MovementsOf DEF ms
<1> QED
  <2>1. Goal
    BY <1>20
  <2> QED
    BY <1>3, <1>9, <1>19, <2>1 DEF Goal, CostInv

\* Reading the live balance notes a cost that is within the prices.
LEMMA ReadStep ==
  ASSUME CostInv, NEW d \in Documents, Costs!ReadLiveBalance(d)
  PROVE  CostInv'
<1> DEFINE w == Document[d].at
<1>1. /\ live' = [live EXCEPT ![d] = balance[w]]
      /\ documentPc' = [documentPc EXCEPT ![d] = "approving"] /\ documentPc[d] = "draft"
      /\ Document[d].kind = "salesReturn" => balance[w] # NoRow
      /\ balance' = balance /\ ledger' = ledger /\ stale' = stale /\ rounded' = rounded
  BY DEF Costs!ReadLiveBalance, NoRow
<1>2. w \in Warehouse /\ balance \in Balances
      /\ documentPc \in [Documents -> {"absent", "draft", "approving", "posted"}]
      /\ live \in [Documents -> Rows]
  BY ApplicationAssumption DEF CostInv, Priced, Costs!CostsAssumption, Documents
<1>3. /\ documentPc' \in [Documents -> {"absent", "draft", "approving", "posted"}]
      /\ \A e \in Documents : documentPc'[e] = "posted" <=> documentPc[e] = "posted"
  BY <1>1, <1>2
<1>4. Costs!Paid' = Costs!Paid /\ Costs!Free' = Costs!Free
  <2>1. \A kind : Costs!Posted(kind)' = Costs!Posted(kind)
    BY <1>3 DEF Costs!Posted, Documents
  <2> QED
    BY <1>1, <2>1 DEF Costs!Paid, Costs!Free
<1>5. live' \in [Documents -> Rows]
  BY <1>1, <1>2 DEF Balances
<1>6. \A e \in Documents : live'[e] # NoRow => Bounded(live'[e].cost, Costs!Paid, Costs!Free)
  <2> SUFFICES ASSUME NEW e \in Documents, live'[e] # NoRow
               PROVE  Bounded(live'[e].cost, Costs!Paid, Costs!Free)
    OBVIOUS
  <2>1. CASE e = d
    <3>1. live'[e] = balance[w] /\ w \in Stock(balance)
      BY <1>1, <1>2, <2>1 DEF Stock
    <3> QED
      BY <3>1 DEF CostInv, Priced
  <2>2. CASE e # d
    <3>1. live'[e] = live[e]
      BY <1>1, <1>2, <2>2
    <3> QED
      BY <3>1 DEF CostInv, Within
  <2> QED
    BY <2>1, <2>2
<1>7. \A e \in Documents :
        documentPc'[e] = "approving" /\ Document[e].kind = "salesReturn" => live'[e] # NoRow
  BY <1>1, <1>2 DEF CostInv
<1>8. \A m \in ledger : documentPc'[m.doc] = "posted"
  BY <1>3 DEF CostInv, CostMoves
<1>9. Undisturbed' <=> Undisturbed
  BY <1>1, <1>4 DEF Undisturbed
<1> QED
  BY <1>1, <1>3, <1>4, <1>5, <1>6, <1>7, <1>8, <1>9 DEF CostInv, Within

\* A refused document has read nothing.
LEMMA RefuseStep ==
  ASSUME CostInv, NEW d \in Documents, Costs!Refuse(d)
  PROVE  CostInv'
<1>1. /\ live' = [live EXCEPT ![d] = NoRow]
      /\ documentPc' = [documentPc EXCEPT ![d] = "draft"] /\ documentPc[d] = "approving"
      /\ balance' = balance /\ ledger' = ledger /\ stale' = stale /\ rounded' = rounded
  BY DEF Costs!Refuse, NoRow
<1>2. /\ documentPc \in [Documents -> {"absent", "draft", "approving", "posted"}]
      /\ live \in [Documents -> Rows]
  BY DEF CostInv
<1>3. /\ documentPc' \in [Documents -> {"absent", "draft", "approving", "posted"}]
      /\ \A e \in Documents : documentPc'[e] = "posted" <=> documentPc[e] = "posted"
  BY <1>1, <1>2
<1>4. Costs!Paid' = Costs!Paid /\ Costs!Free' = Costs!Free
  <2>1. \A kind : Costs!Posted(kind)' = Costs!Posted(kind)
    BY <1>3 DEF Costs!Posted, Documents
  <2> QED
    BY <1>1, <2>1 DEF Costs!Paid, Costs!Free
<1>5. live' \in [Documents -> Rows]
  BY <1>1, <1>2 DEF Rows
<1>6. \A e \in Documents : live'[e] # NoRow => Bounded(live'[e].cost, Costs!Paid, Costs!Free)
  BY <1>1, <1>2 DEF CostInv, Within
<1>7. \A e \in Documents :
        documentPc'[e] = "approving" /\ Document[e].kind = "salesReturn" => live'[e] # NoRow
  BY <1>1, <1>2 DEF CostInv
<1>8. \A m \in ledger : documentPc'[m.doc] = "posted"
  BY <1>3 DEF CostInv, CostMoves
<1>9. Undisturbed' <=> Undisturbed
  BY <1>1, <1>4 DEF Undisturbed
<1> QED
  BY <1>1, <1>3, <1>4, <1>5, <1>6, <1>7, <1>8, <1>9 DEF CostInv, Within

\* Stock begins with nothing.
LEMMA CostsBegin ==
  ASSUME Init
  PROVE  CostInv
<1>1. PICK drafts : Costs!Begin(drafts)
  BY DEF Init, Costs!Init
<1>2. /\ balance = [w \in Warehouse |-> NoRow] /\ ledger = {}
      /\ documentPc = [d \in Documents |-> IF d \in drafts THEN "draft" ELSE "absent"]
      /\ live = [d \in Documents |-> NoRow] /\ stale = {} /\ rounded = 0
  BY <1>1 DEF Costs!Begin, NoRow, Documents
<1>3. Stock(balance) = {} /\ balance \in Balances
  BY <1>2 DEF Stock, Balances, Rows
<1>4. Priced(balance, Costs!Paid, Costs!Free)
  BY <1>3, FS_EmptySet DEF Priced
<1>5. Accounted(balance, ledger, rounded)
  <2>1. WorthOf(balance) = 0
    BY <1>3, FS_EmptySet, SumZero DEF WorthOf
  <2>2. WorthOfMoves(ledger) = 0
    BY <1>2, FS_EmptySet, SumZero DEF WorthOfMoves
  <2> QED
    BY <1>2, <2>1, <2>2 DEF Accounted
<1>6. live \in [Documents -> Rows]
      /\ documentPc \in [Documents -> {"absent", "draft", "approving", "posted"}]
      /\ \A d \in Documents : documentPc[d] # "approving" /\ live[d] = NoRow
  BY <1>2 DEF Rows
<1> QED
  BY <1>2, <1>4, <1>5, <1>6, FS_EmptySet DEF CostInv

\* The invariant holds of every reachable state.
LEMMA CostInvariant == Spec => []CostInv
<1>1. ASSUME CostInv, [Next]_vars  PROVE CostInv'
  <2>1. CASE UNCHANGED costVars
    BY <1>1, <2>1 DEF costVars, CostInv, Within, Undisturbed, Costs!Paid, Costs!Free, Costs!Posted
  <2>2. ASSUME NEW d \in Documents, Costs!ReadLiveBalance(d)  PROVE CostInv'
    BY <1>1, <2>2, ReadStep
  <2>3. ASSUME NEW d \in Documents, Costs!Post(d)  PROVE CostInv'
    BY <1>1, <2>3, PostStep, ApplicationAssumption
  <2>4. ASSUME NEW d \in Documents, Costs!Refuse(d)  PROVE CostInv'
    BY <1>1, <2>4, RefuseStep
  <2> QED
    BY <1>1, <2>1, <2>2, <2>3, <2>4, CostStep
<1> QED
  BY <1>1, CostsBegin, PTL DEF Spec

\* What it says of types.
LEMMA CostTypes == CostInv => Costs!TypeOK
<1> SUFFICES ASSUME CostInv  PROVE Costs!TypeOK
  OBVIOUS
<1>1. \A w \in Warehouse :
        balance[w] = Costs!NoRow \/ (balance[w].qty \in Nat /\ balance[w].cost \in Nat)
  BY DEF CostInv, Priced, Balances, Rows, NoRow
<1>2. \A m \in ledger : m.doc \in Documents /\ m.at \in Warehouse /\ {m.in, m.out, m.cost} \subseteq Nat
  BY DEF CostInv, CostMoves
<1> QED
  BY <1>1, <1>2 DEF CostInv, Costs!TypeOK, Documents

(***************************************************************************)
(* Average costs stay within the prices paid, and the value of the stock   *)
(* is that of the ledger but for half a unit for each rounded piece,       *)
(* whatever the documents, however they interleave.                        *)
(* trg_stock_ledger_to_balance, v_warehouse_stock_value.                   *)
(***************************************************************************)
THEOREM StockKeepsItsWorth == Spec => []StockIsWorthWhatWasPaid
<1>1. ASSUME CostInv  PROVE StockIsWorthWhatWasPaid
  <2>1. Costs!Stocked = Stock(balance)
    BY DEF Costs!Stocked, Stock, NoRow
  <2>2. \A w \in Costs!Stocked :
          /\ \E p \in Costs!Paid \union {0} : balance[w].cost <= p
          /\ Costs!Free = {} => \E p \in Costs!Paid : balance[w].cost >= p
    BY <1>1, <2>1 DEF CostInv, Priced, Bounded
  <2>3. Costs!StockValue = WorthOf(balance) /\ Costs!LedgerValue = WorthOfMoves(ledger)
    BY <2>1, SameSum DEF Costs!StockValue, Costs!LedgerValue, WorthOf, WorthOfMoves
  <2>4. WorthOf(balance) \in Int /\ WorthOfMoves(ledger) \in Int /\ rounded \in Nat
    <3>1. WorthOf(balance) \in Int
      BY <1>1, WorthType DEF CostInv, Priced
    <3>2. WorthOfMoves(ledger) \in Int
      <4> DEFINE f == [m \in ledger |-> (m.in - m.out) * m.cost]
      <4>1. IsFiniteSet(ledger) /\ \A m \in ledger : f[m] \in Int
        BY <1>1 DEF CostInv, CostMoves
      <4> HIDE DEF f
      <4>2. SumFunctionOnSet(f, ledger) \in Int
        BY <4>1, SumType
      <4> QED
        BY <4>2 DEF WorthOfMoves, f
    <3> QED
      BY <1>1, <3>1, <3>2 DEF CostInv
  <2>5. Undisturbed => 2 * (Costs!StockValue - Costs!LedgerValue) \in -rounded..rounded
    BY <1>1, <2>3, <2>4 DEF CostInv, Accounted
  <2> QED
    BY <2>2, <2>5 DEF StockIsWorthWhatWasPaid, Costs!StockIsWorthWhatWasPaid, Undisturbed
<1> QED
  BY <1>1, CostInvariant, PTL

-----------------------------------------------------------------------------
(* Types.                                                                  *)

\* The variables of a request have their types, at the beginning and after each step.
LEMMA RequestsTypes == Spec => []Requests!TypeOK
<1> DEFINE Statuses == {0, 200, 400, 401, 403, 404, 409, 500}
           Steps    == {"middleware", "authenticate", "authorize", "handler", "answered"}
           Types    == at \in Steps /\ reply \in Statuses
<1>1. Init => Types
  <2>1. \A q : Requests!Begin(q) => at = "middleware" /\ reply = 0
    BY DEF Requests!Begin
  <2>2. Init => \E q : Requests!Begin(q)
    BY DEF Init, Requests!Init
  <2> QED
    BY <2>1, <2>2
<1>2. ASSUME RequestInv, Types, [Next]_vars  PROVE Types'
  <2>1. CASE UNCHANGED requestVars
    BY <1>2, <2>1 DEF requestVars
  <2>2. CASE Requests!Use \/ Requests!Authenticate \/ Requests!Authorize
    <3>1. Requests!Use => (at' = "authenticate" /\ reply' = reply) \/ (at' = "answered" /\ reply' = 404)
      BY DEF Requests!Use, Requests!To, Requests!Reply
    <3>2. Requests!Authenticate => (at' = "authorize" /\ reply' = reply) \/ (at' = "answered" /\ reply' = 401)
      BY DEF Requests!Authenticate, Requests!To, Requests!Reply
    <3>3. Requests!Authorize => (at' = "handler" /\ reply' = reply) \/ (at' = "answered" /\ reply' = 403)
      BY DEF Requests!Authorize, Requests!To, Requests!Reply
    <3> QED
      BY <1>2, <2>2, <3>1, <3>2, <3>3
  <2>3. CASE part = "requests" /\ Requests!Handle
    <3> DEFINE c == request.route.controller
               op == request.route.op
    <3>1. at' = "answered" /\ (reply' = 400 \/ \E res : reply' = Requests!Answer(c, op, res))
      BY <2>3 DEF Requests!Handle, Requests!Reply
    <3>2. request.route \in Requests!AllRoutes
      BY <1>2, <2>3, ApplicationAssumption DEF RequestInv, Requests!RequestsAssumption
    <3>3. c \in Controllers
      BY <3>2, RoutesTold DEF Told, Covered
    <3> HIDE DEF c, op
    <3>4. ASSUME NEW res  PROVE Requests!Answer(c, op, res) \in Statuses
      <4>1. \A rule \in Requests!Service[c] : rule.status \in Refusals
        BY <3>3, RulesArePolite DEF Polite
      <4>2. Requests!Filter(res) \in {200, 400, 409, 500}
        BY DEF Requests!Filter
      <4> QED
        BY <4>1, <4>2 DEF Requests!Answer, Refusals
    <3> QED
      BY <3>1, <3>4
  <2> QED
    BY <1>2, <2>1, <2>2, <2>3, RequestStep DEF Requests!Next
<1>3. RequestInv /\ Types => Requests!TypeOK
  BY ApplicationAssumption DEF RequestInv, Requests!TypeOK, Requests!RequestsAssumption
<1> HIDE DEF Types
<1> QED
  BY <1>1, <1>2, <1>3, RequestInvariant, PTL DEF Spec

\* The variables of quotations have their types, at the beginning and after each step.
LEMMA QuotationTypes == Spec => []Quotations!TypeOK
<1> DEFINE Statuses  == {0, 200, 404, 409, 500}
           Stages    == {"absent", "draft", "sent", "accepted", "rejected", "converted", "deleted"}
           PlacesOf  == {"unsent", "start", "write", "done"}
           Types     == /\ status \in [Quotation -> Stages] /\ overlapped \subseteq Quotation
                        /\ quotationPc \in [QuotationRequest -> PlacesOf]
                        /\ quotationReply \in [QuotationRequest -> Statuses]
<1>1. Init => Types
  BY DEF Init, Quotations!Init, Quotations!Begin
<1>2. ASSUME Types, [Next]_vars  PROVE Types'
  <2>1. CASE UNCHANGED quotationVars
    BY <1>2, <2>1 DEF quotationVars
  <2>2. ASSUME NEW r \in QuotationRequest, Quotations!Step(r) \/ Quotations!Fail(r)  PROVE Types'
    <3>1. OnQuotation[r] \in Quotation
      BY ApplicationAssumption DEF Quotations!QuotationAssumption
    <3>2. ASSUME NEW res \in {"ok", "none", "crash", "DocumentNotFound", "DocumentNotDraft"}
          PROVE  Quotations!Answer("quotations", QuotationOp[r], res) \in Statuses
      <4>1. \A rule \in Quotations!Service["quotations"] : rule.status \in {404, 409}
        BY DEF Quotations!Service, Quotations!QuotationsService, Quotations!DocumentRules,
          Quotations!LookupRules, Quotations!Rules
      <4>2. Quotations!Filter(res) \in {200, 500}
        BY DEF Quotations!Filter
      <4> QED
        BY <4>1, <4>2 DEF Quotations!Answer
    <3>3. /\ \E l \in PlacesOf : quotationPc' = [quotationPc EXCEPT ![r] = l]
          /\ quotationReply' = quotationReply
               \/ \E res \in {"ok", "none", "crash", "DocumentNotFound", "DocumentNotDraft"} : Quotations!Finish(r, res)
          /\ status' = status \/ \E s \in Stages : status' = [status EXCEPT ![OnQuotation[r]] = s]
          /\ overlapped' \subseteq overlapped \union {OnQuotation[r]}
      <4> USE DEF Quotations!Finish, Quotations!SetStatus, Quotations!Begins, Quotations!To
      <4>1. CASE Quotations!CreateWithLines(r)
        BY <4>1 DEF Quotations!CreateWithLines
      <4>2. CASE Quotations!Check(r)
        BY <4>2 DEF Quotations!Check
      <4>3. CASE Quotations!TransitionStatus(r)
        BY <4>3 DEF Quotations!TransitionStatus
      <4>4. CASE Quotations!ConvertToSalesOrder(r)
        BY <4>4 DEF Quotations!ConvertToSalesOrder
      <4>5. CASE Quotations!Delete(r)
        BY <4>5 DEF Quotations!Delete
      <4>6. CASE Quotations!Fail(r)
        BY <4>6 DEF Quotations!Fail
      <4> QED
        BY <2>2, <4>1, <4>2, <4>3, <4>4, <4>5, <4>6 DEF Quotations!Step
    <3>4. quotationReply' = quotationReply
            \/ \E told \in Statuses : quotationReply' = [quotationReply EXCEPT ![r] = told]
      BY <3>2, <3>3 DEF Quotations!Finish
    <3> HIDE DEF Statuses, Stages, PlacesOf
    <3> QED
      BY <1>2, <3>1, <3>3, <3>4
  <2> QED
    BY <1>2, <2>1, <2>2, QuotationStep DEF Quotations!Next
<1>3. QuotationInv /\ Types => Quotations!TypeOK
  BY DEF QuotationInv, Quotations!TypeOK
<1> HIDE DEF Types
<1> QED
  BY <1>1, <1>2, <1>3, QuotationInvariant, PTL DEF Spec

\* Rows have columns that there are.
Columns == \A i \in DOMAIN rows : DOMAIN rows[i] \subseteq Column

\* A step stores the columns that a call or the row has, and the mark.
LEMMA ColumnsStep ==
  ASSUME Columns, PartsInv, NEW r \in RowRequest, Catalogue!Step(r) \/ Catalogue!Fail(r)
  PROVE  Columns'
<1> DEFINE id == Catalogue!Id(r)
           set == RowCall[r].set
<1>1. DOMAIN set \subseteq Column /\ "primary" \in Column
  BY CallOfRoute, ApplicationAssumption DEF Catalogue!CallAssumption, Catalogue!CatalogueAssumption
<1>2. \A old, new : DOMAIN Catalogue!Set(old, new) \subseteq DOMAIN old \union DOMAIN new
  BY DEF Catalogue!Set
<1>3. ASSUME NEW new, DOMAIN new \subseteq Column, rows' = Catalogue!Put(id, new)  PROVE Columns'
  BY <1>3 DEF Catalogue!Put, Columns
<1>4. ASSUME NEW ids, rows' = Catalogue!Without(ids)  PROVE Columns'
  BY <1>4 DEF Catalogue!Without, Columns
<1>5. CASE UNCHANGED rows
  BY <1>5 DEF Columns
<1>6. CASE Catalogue!Create(r) /\ rows' # rows
  <2>1. rows' = Catalogue!Put(id, Catalogue!Set(set, Catalogue!NoColumns))
    BY <1>6 DEF Catalogue!Create
  <2>2. DOMAIN Catalogue!NoColumns = {}
    BY DEF Catalogue!NoColumns
  <2>3. DOMAIN Catalogue!Set(set, Catalogue!NoColumns) \subseteq Column
    BY <1>1, <1>2, <2>2
  <2> QED
    BY <1>3, <2>1, <2>3
<1>7. CASE Catalogue!Update(r) /\ rows' # rows
  <2>1. id \in DOMAIN rows /\ rows' = Catalogue!Put(id, Catalogue!Set(rows[id], set))
    BY <1>7 DEF Catalogue!Update
  <2>2. DOMAIN Catalogue!Set(rows[id], set) \subseteq Column
    BY <1>1, <1>2, <2>1 DEF Columns
  <2> QED
    BY <1>3, <2>1, <2>2
<1>8. CASE Catalogue!RemoveImage(r)
  BY <1>4, <1>8 DEF Catalogue!RemoveImage
<1>9. CASE Catalogue!Remove(r) /\ rows' # rows
  BY <1>4, <1>9 DEF Catalogue!Remove
<1>10. CASE Catalogue!UnsetPrimaryForProduct(r)
  BY <1>10 DEF Catalogue!UnsetPrimaryForProduct, Catalogue!Unset, Columns
<1>11. CASE Catalogue!SetPrimary(r) /\ rows' # rows
  <2>1. CASE Catalogue!Op(r) = "upload"
    BY <1>1, <1>3, <1>11, <2>1 DEF Catalogue!SetPrimary
  <2>2. CASE Catalogue!Op(r) # "upload"
    <3> DEFINE mark == [primary |-> "yes"]
    <3>1. id \in DOMAIN rows /\ rows' = Catalogue!Put(id, Catalogue!Set(rows[id], mark))
      BY <1>11, <2>2 DEF Catalogue!SetPrimary
    <3>2. DOMAIN mark = {"primary"}
      OBVIOUS
    <3> HIDE DEF mark
    <3>3. DOMAIN Catalogue!Set(rows[id], mark) \subseteq Column
      BY <1>1, <1>2, <3>1, <3>2 DEF Columns
    <3> QED
      BY <1>3, <3>1, <3>3
  <2> QED
    BY <2>1, <2>2
<1>12. Catalogue!GetOwned(r) \/ Catalogue!Unlink(r) \/ Catalogue!Upload(r) \/ Catalogue!FindDirect(r)
        \/ Catalogue!FindByUnit(r) \/ Catalogue!FindAdditional(r) \/ Catalogue!GetById(r)
        \/ Catalogue!Fail(r) => UNCHANGED rows
  BY DEF Catalogue!GetOwned, Catalogue!Unlink, Catalogue!Upload, Catalogue!FindDirect,
    Catalogue!FindByUnit, Catalogue!FindAdditional, Catalogue!GetById, Catalogue!Fail
<1> QED
  BY <1>5, <1>6, <1>7, <1>8, <1>9, <1>10, <1>11, <1>12 DEF Catalogue!Step

\* The places of a request on a row.
RowPlaces == {"unsent", "start", "write", "unlink", "unset", "set", "units", "barcodes", "getById", "done", "failed"}

\* What is kept for a request on a row.
RowTypes ==
  /\ files \subseteq Row
  /\ rowPc \in [RowRequest -> RowPlaces]
  /\ rowReply \in [RowRequest -> {0, 200, 400, 404, 409, 500}]
  /\ found \in [RowRequest -> Row \union {Null}]
  /\ overlapping \in [RowRequest -> SUBSET RowRequest]

\* A step assigns it values of its types.
LEMMA RowTypesStep ==
  ASSUME PartsInv, RowTypes, NEW r \in RowRequest, Catalogue!Step(r) \/ Catalogue!Fail(r)
  PROVE  RowTypes'
<1> DEFINE Statuses == {0, 200, 400, 404, 409, 500}
<1>1. Catalogue!Table(r) \in DOMAIN Catalogue!Repo /\ Catalogue!Id(r) \in Row
  BY ApplicationAssumption DEF Catalogue!CatalogueAssumption, Catalogue!RowsAssumption,
    Catalogue!CallAssumption, Catalogue!Table, Catalogue!Id
<1>2. ASSUME NEW res  PROVE Catalogue!Answer(Catalogue!Table(r), Catalogue!Op(r), res) \in Statuses
  <2>1. \A rule \in Catalogue!Service[Catalogue!Table(r)] : rule.status \in {400, 404}
    BY <1>1, TableRules
  <2>2. Catalogue!Filter(res) \in {200, 400, 409, 500}
    BY DEF Catalogue!Filter
  <2> QED
    BY <2>1, <2>2 DEF Catalogue!Answer
<1>3. ASSUME NEW t \in {"products", "product_units", "product_barcodes"}, NEW i \in Carriers(t, r)
      PROVE  Catalogue!ProductOf(i) \in Row
  BY <1>3, CarrierHasOwner DEF PartsInv
<1>4. /\ files' \subseteq files \union {Catalogue!Id(r)}
      /\ \E l \in RowPlaces : rowPc' = [rowPc EXCEPT ![r] = l]
      /\ rowReply' = rowReply \/ (\E told \in Statuses : rowReply' = [rowReply EXCEPT ![r] = told])
      /\ found' = found \/ (\E i \in Row : found' = [found EXCEPT ![r] = i])
      /\ overlapping' = overlapping \/ Catalogue!Begins(r)
  <2> USE DEF Catalogue!Goto, RowPlaces, Catalogue!Proceeds
  <2>1. ASSUME NEW res, Catalogue!Finish(r, res)
        PROVE  /\ rowPc' = [rowPc EXCEPT ![r] = "done"]
               /\ \E told \in Statuses : rowReply' = [rowReply EXCEPT ![r] = told]
    <3>1. Catalogue!Answer(Catalogue!Table(r), Catalogue!Op(r), res) \in Statuses
      BY <1>2
    <3> HIDE DEF Statuses
    <3> QED
      BY <2>1, <3>1 DEF Catalogue!Finish
  <2>2. ASSUME NEW t \in {"products", "product_units", "product_barcodes"},
               NEW next \in {"units", "barcodes", "none"}, Catalogue!Look(r, t, next)
        PROVE  /\ \E l \in RowPlaces : rowPc' = [rowPc EXCEPT ![r] = l]
               /\ rowReply' = rowReply \/ (\E told \in Statuses : rowReply' = [rowReply EXCEPT ![r] = told])
               /\ found' = found \/ (\E i \in Row : found' = [found EXCEPT ![r] = i])
    BY <1>3, <2>1, <2>2 DEF Catalogue!Look, Carriers
  <2>3. CASE Catalogue!GetOwned(r)
    BY <2>1, <2>3 DEF Catalogue!GetOwned
  <2>4. CASE Catalogue!Create(r)
    BY <2>1, <2>4 DEF Catalogue!Create
  <2>5. CASE Catalogue!Update(r)
    BY <2>1, <2>5 DEF Catalogue!Update
  <2>6. CASE Catalogue!RemoveImage(r)
    BY <2>6 DEF Catalogue!RemoveImage
  <2>7. CASE Catalogue!Unlink(r)
    BY <2>1, <2>7 DEF Catalogue!Unlink
  <2>8. CASE Catalogue!Remove(r)
    BY <2>1, <2>8 DEF Catalogue!Remove
  <2>9. CASE Catalogue!Upload(r)
    BY <2>9 DEF Catalogue!Upload
  <2>10. CASE Catalogue!UnsetPrimaryForProduct(r)
    BY <2>10 DEF Catalogue!UnsetPrimaryForProduct
  <2>11. CASE Catalogue!SetPrimary(r)
    BY <2>1, <2>11 DEF Catalogue!SetPrimary
  <2>12. CASE Catalogue!FindDirect(r)
    BY <2>1, <2>2, <2>12 DEF Catalogue!FindDirect
  <2>13. CASE Catalogue!FindByUnit(r)
    BY <2>2, <2>13 DEF Catalogue!FindByUnit
  <2>14. CASE Catalogue!FindAdditional(r)
    BY <2>2, <2>14 DEF Catalogue!FindAdditional
  <2>15. CASE Catalogue!GetById(r)
    BY <2>1, <2>15 DEF Catalogue!GetById
  <2>16. CASE Catalogue!Fail(r)
    BY <2>16 DEF Catalogue!Fail
  <2> QED
    BY <2>3, <2>4, <2>5, <2>6, <2>7, <2>8, <2>9, <2>10, <2>11, <2>12, <2>13, <2>14, <2>15, <2>16
    DEF Catalogue!Step
<1>5. overlapping' \in [RowRequest -> SUBSET RowRequest]
  BY <1>4 DEF RowTypes, Catalogue!Begins, Catalogue!UnderWay
<1>6. rowReply \in [RowRequest -> Statuses]
  BY DEF RowTypes
<1> HIDE DEF Statuses
<1>7. rowReply' \in [RowRequest -> Statuses]
  BY <1>4, <1>6
<1>8. rowPc' \in [RowRequest -> RowPlaces] /\ found' \in [RowRequest -> Row \union {Null}] /\ files' \subseteq Row
  BY <1>1, <1>4 DEF RowTypes
<1> QED
  BY <1>5, <1>7, <1>8 DEF RowTypes, Statuses

\* The variables of the catalogue have their types, at the beginning and after each step.
LEMMA CatalogueTypes == Spec => []Catalogue!TypeOK
<1> DEFINE Types == Columns /\ RowTypes
<1>1. Init => Types
  <2> SUFFICES ASSUME Init  PROVE Types
    OBVIOUS
  <2>1. PICK w : Catalogue!Begin(w)
    BY DEF Init, Catalogue!Init
  <2>2. Catalogue!RowsAssumption
    BY ApplicationAssumption DEF Catalogue!CatalogueAssumption
  <2>3. Columns
    BY <2>1, <2>2 DEF Catalogue!Begin, Catalogue!RowsAssumption, Columns
  <2>4. RowTypes
    BY <2>1, <2>2 DEF Catalogue!Begin, Catalogue!RowsAssumption, RowTypes, RowPlaces
  <2> QED
    BY <2>3, <2>4
<1>2. ASSUME PartsInv, Types, [Next]_vars  PROVE Types'
  <2>1. CASE UNCHANGED catalogueVars
    BY <1>2, <2>1 DEF catalogueVars, Columns, RowTypes
  <2>2. CASE Catalogue!Next
    BY <1>2, <2>2, ColumnsStep, RowTypesStep DEF Catalogue!Next
  <2> QED
    BY <1>2, <2>1, <2>2, CatalogueStep
<1>3. PartsInv /\ Types => Catalogue!TypeOK
  BY DEF PartsInv, Columns, RowTypes, RowPlaces, Catalogue!TypeOK
<1> HIDE DEF Types
<1> QED
  BY <1>1, <1>2, <1>3, PartsInvariant, PTL DEF Spec

\* Every variable of every part has its type: what is read of it is always there.
THEOREM EveryPartKeepsItsTypes == Spec => []TypeOK
<1>1. CostInv => Costs!TypeOK
  BY CostTypes
<1> QED
  BY <1>1, TenantTypes, RequestsTypes, UserTypes, CatalogueTypes, QuotationTypes, CostInvariant, PTL DEF TypeOK
=============================================================================
