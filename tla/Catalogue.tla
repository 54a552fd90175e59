------------------------------- MODULE Catalogue -------------------------------
(***************************************************************************)
(* Master data, and products with their units, batches, barcodes and       *)
(* images: the repositories, the constraints of their tables, the services *)
(* that take more than one statement, and the answers of all of them.      *)
(*                                                                         *)
(* A repository is described by what its table and its UPDATE add to the   *)
(* five operations they all share: the sets of columns that are unique,    *)
(* the columns that refer to another table and what a delete there does,   *)
(* and whether an update sets updated_at whatever else it sets.            *)
(***************************************************************************)
EXTENDS Services, FiniteSets

CONSTANTS
  Row,          \* identifiers of rows
  TableOf,      \* the table of each
  Column,
  InitialRows,  \* function from the rows that exist to their columns
  Request,
  Workloads,    \* which requests run at the same time
  Call,         \* [op, row, product, set, barcode] of each request
  Null          \* the SQL NULL; also: no column

Reference(table, onDelete) == [to |-> table, onDelete |-> onDelete]
Restrict(table) == Reference(table, "restrict")
Cascade(table)  == Reference(table, "cascade")
SetNull(table)  == Reference(table, "setNull")

Repository(unique, refs, touches) == [unique |-> unique, refs |-> refs, touches |-> touches]

NoColumns    == [c \in {} |-> Null]
ByCode  == {{"code"}}
Plain   == Repository(ByCode, NoColumns, TRUE)

BranchKyselyRepository      == Plain
CategoryKyselyRepository    == Plain
BrandKyselyRepository       == Plain
UnitKyselyRepository        == Plain
SupplierKyselyRepository    == Plain
CustomerKyselyRepository    == Plain
TransporterKyselyRepository == Plain
TaxKyselyRepository         == Repository(ByCode, NoColumns, FALSE)
GstRateKyselyRepository     == Repository(ByCode, NoColumns, FALSE)
HsnCodeKyselyRepository     == Repository(ByCode, [gst |-> SetNull("gst_rates")], FALSE)
EmployeeKyselyRepository    == Repository(ByCode, NoColumns, TRUE)
SubCategoryKyselyRepository ==
  Repository({{"category", "code"}}, [category |-> Restrict("categories")], TRUE)
RackKyselyRepository ==
  Repository({{"warehouse", "code"}}, [warehouse |-> Restrict("warehouses")], TRUE)
LocationKyselyRepository    == Repository({{"rack", "code"}}, [rack |-> Restrict("racks")], TRUE)
WarehouseKyselyRepository ==
  Repository(ByCode, [branch |-> Restrict("branches"), manager |-> SetNull("employees")], TRUE)

ProductKyselyRepository ==
  Repository({{"sku"}, {"barcode"}, {"qr_code"}},
             [category |-> Restrict("categories"), sub_category |-> Restrict("sub_categories"),
              brand |-> Restrict("brands"), hsn |-> Restrict("hsn_codes"),
              gst |-> Restrict("gst_rates"), unit |-> Restrict("units")], TRUE)

ProductUnitKyselyRepository ==
  Repository({{"product", "unit"}, {"barcode"}, {"product", "base"}},
             [product |-> Cascade("products"), unit |-> Restrict("units")], FALSE)

ProductBatchKyselyRepository ==
  Repository({{"product", "code"}}, [product |-> Restrict("products")], FALSE)

ProductBarcodeKyselyRepository ==
  Repository({{"barcode"}}, [product |-> Cascade("products"), of_unit |-> Cascade("product_units")],
             FALSE)

ProductImageKyselyRepository ==
  Repository({{"product", "primary"}}, [product |-> Cascade("products")], FALSE)

Repo ==
  [branches |-> BranchKyselyRepository, categories |-> CategoryKyselyRepository,
   brands |-> BrandKyselyRepository, units |-> UnitKyselyRepository,
   suppliers |-> SupplierKyselyRepository, customers |-> CustomerKyselyRepository,
   transporters |-> TransporterKyselyRepository, taxes |-> TaxKyselyRepository,
   gst_rates |-> GstRateKyselyRepository, hsn_codes |-> HsnCodeKyselyRepository,
   employees |-> EmployeeKyselyRepository, sub_categories |-> SubCategoryKyselyRepository,
   racks |-> RackKyselyRepository, locations |-> LocationKyselyRepository,
   warehouses |-> WarehouseKyselyRepository, products |-> ProductKyselyRepository,
   product_units |-> ProductUnitKyselyRepository, product_batches |-> ProductBatchKyselyRepository,
   product_barcodes |-> ProductBarcodeKyselyRepository,
   product_images |-> ProductImageKyselyRepository]

Get(columns, c) == IF c \in DOMAIN columns THEN columns[c] ELSE Null

Parts   == {"product_units", "product_batches", "product_barcodes", "product_images"}
Product == {i \in Row : TableOf[i] = "products"}

PrimaryImages(product, table) ==
  {i \in DOMAIN table : TableOf[i] = "product_images" /\ Get(table[i], "product") = product
                          /\ Get(table[i], "primary") # Null}

\* At the beginning the rows keep what the constraints of parts and images ask for.
RowsAssumption ==
  /\ DOMAIN InitialRows \subseteq Row
  /\ \A i \in DOMAIN InitialRows :
       /\ DOMAIN InitialRows[i] \subseteq Column
       /\ TableOf[i] \in Parts =>
            Get(InitialRows[i], "product") \in Product \intersect DOMAIN InitialRows
       /\ TableOf[i] = "product_images" => Get(InitialRows[i], "primary") \in {Null, "yes"}
  /\ \A p \in Product : \A i, j \in PrimaryImages(p, InitialRows) : i = j

\* A call is one of a route: the product of a part is in its path and never changed, an image
\* comes by an upload, under an identifier nobody has used.
CallAssumption(r) ==
  LET table == TableOf[Call[r].row]
      set   == Call[r].set
  IN  /\ Call[r].row \in Row /\ DOMAIN set \subseteq Column
      /\ Call[r].op \in {"create", "update"} => table # "product_images"
      /\ Call[r].op \in {"upload", "setPrimary"} => table = "product_images"
      /\ Call[r].op = "findByBarcode" => table = "products"
      /\ Call[r].op \in {"create", "upload"} /\ table \in Parts =>
           Call[r].product \in Product /\ Get(set, "product") = Call[r].product
      /\ Call[r].op = "update" /\ table \in Parts => "product" \notin DOMAIN set
      /\ Call[r].op = "upload" =>
           /\ Get(set, "primary") \in {Null, "yes"} /\ Call[r].row \notin DOMAIN InitialRows
           /\ \A q \in Request \ {r} : Call[q].op = "upload" => Call[q].row # Call[r].row

CatalogueAssumption ==
  /\ TableOf \in [Row -> DOMAIN Repo] /\ Null \notin Row \union {"yes"} /\ "primary" \in Column
  /\ Workloads \subseteq SUBSET Request
  /\ RowsAssumption /\ \A r \in Request : CallAssumption(r)

VARIABLES
  rows,         \* function from the rows that exist to their columns (NULLs left out)
  files,        \* rows of product_images whose file is on the disk
  pc, reply,
  found,        \* the product a scan has found
  overlapping   \* for each request, those that were under way at some moment of it

vars == <<rows, files, pc, reply, found, overlapping>>

\* At the beginning, the requests of w are about to come.
Begin(w) ==
  /\ rows = InitialRows
  /\ files = {r \in DOMAIN InitialRows : TableOf[r] = "product_images"}
  /\ pc = [r \in Request |-> IF r \in w THEN "start" ELSE "unsent"]
  /\ reply = [r \in Request |-> 0]
  /\ found = [r \in Request |-> Null]
  /\ overlapping = [r \in Request |-> {}]

Init == \E w \in Workloads : Begin(w)

Op(r)    == Call[r].op
Id(r)    == Call[r].row
Table(r) == TableOf[Id(r)]
Set(columns, new) ==
  LET value(c) == IF c \in DOMAIN new THEN new[c] ELSE columns[c]
  IN  [c \in {d \in DOMAIN new \union DOMAIN columns : value(d) # Null} |-> value(c)]

-----------------------------------------------------------------------------
(* One INSERT, UPDATE or DELETE: its result, and the rows it leaves.       *)

Clashes(id, columns) ==
  \E other \in DOMAIN rows \ {id} : TableOf[other] = TableOf[id] /\
    \E u \in Repo[TableOf[id]].unique :
      \A c \in u : Get(columns, c) # Null /\ Get(columns, c) = Get(rows[other], c)

Dangles(id, columns) ==
  \E c \in DOMAIN Repo[TableOf[id]].refs : Get(columns, c) \notin DOMAIN rows \union {Null}

Stored(id, columns) ==
  IF Clashes(id, columns) THEN "23505" ELSE IF Dangles(id, columns) THEN "23503" ELSE "ok"

\* The rows with an inserted or changed one.
Put(id, columns) == [i \in DOMAIN rows \union {id} |-> IF i = id THEN columns ELSE rows[i]]

\* Rows with a column that refers to one of ids, by what its deletion does to them.
Referring(ids, onDelete) ==
  {r \in DOMAIN rows : \E c \in DOMAIN Repo[TableOf[r]].refs :
     Repo[TableOf[r]].refs[c].onDelete = onDelete /\ Get(rows[r], c) \in ids}

\* Products cascade to their units, and both to barcodes.
Cascaded(id) == {id} \union Referring({id}, "cascade")
                  \union Referring(Referring({id}, "cascade"), "cascade")

\* RESTRICT has an SQLSTATE of its own since PostgreSQL 18.
Deleted(id) ==
  IF Referring(Cascaded(id), "restrict") # {} THEN {"23001", "23503"} ELSE {"ok"}

Without(ids) ==
  [r \in DOMAIN rows \ ids |->
     [c \in {c \in DOMAIN rows[r] :
               ~(c \in DOMAIN Repo[TableOf[r]].refs /\ rows[r][c] \in ids)} |-> rows[r][c]]]

-----------------------------------------------------------------------------
(* Requests.                                                               *)

UnderWay == {r \in Request : pc[r] \notin {"unsent", "start", "done", "failed"}}

\* r begins: it overlaps with what is under way.
Begins(r) ==
  overlapping' = [q \in Request |-> IF q = r THEN UnderWay
                                    ELSE IF q \in UnderWay THEN overlapping[q] \union {r}
                                    ELSE overlapping[q]]

Proceeds(r) == IF pc[r] = "start" THEN Begins(r) ELSE UNCHANGED overlapping

Goto(r, l) == pc' = [pc EXCEPT ![r] = l] /\ UNCHANGED reply

Finish(r, result) ==
  /\ pc' = [pc EXCEPT ![r] = "done"]
  /\ reply' = [reply EXCEPT ![r] = Answer(Table(r), Op(r), result)]

\* Variant: the image of any product will do.
GetOwned_Any(r) ==
  /\ pc[r] = "start" /\ Table(r) \in Parts /\ Op(r) \in {"update", "remove", "setPrimary"}
  /\ Begins(r)
  /\ IF Id(r) \in DOMAIN rows
     THEN Goto(r, IF Op(r) = "setPrimary" THEN "unset" ELSE "write")
     ELSE Finish(r, "none")
  /\ UNCHANGED <<rows, files, found>>

\* Operations on a part of a product look first whether it is that product's.
GetOwned(r) ==
  /\ pc[r] = "start" /\ Table(r) \in Parts /\ Op(r) \in {"update", "remove", "setPrimary"}
  /\ Begins(r)
  /\ IF Id(r) \in DOMAIN rows /\ Get(rows[Id(r)], "product") = Call[r].product
     THEN Goto(r, IF Op(r) = "setPrimary" THEN "unset" ELSE "write")
     ELSE Finish(r, "none")
  /\ UNCHANGED <<rows, files, found>>

Ready(r, op) == Op(r) = op /\ pc[r] = IF Table(r) \in Parts /\ op # "create" THEN "write" ELSE "start"

Create(r) ==
  LET result == Stored(Id(r), Call[r].set)
  IN  /\ Ready(r, "create") /\ Id(r) \notin DOMAIN rows
      /\ rows' = IF result = "ok" THEN Put(Id(r), Set(Call[r].set, NoColumns)) ELSE rows
      /\ Finish(r, result) /\ Proceeds(r)
      /\ UNCHANGED <<files, found>>

\* UPDATE ... SET with nothing to set is no statement.
Update(r) ==
  LET new    == Set(rows[Id(r)], Call[r].set)
      result == IF Call[r].set = NoColumns /\ ~Repo[Table(r)].touches THEN "42601"
                ELSE IF Id(r) \notin DOMAIN rows THEN "none" ELSE Stored(Id(r), new)
  IN  /\ Ready(r, "update")
      /\ rows' = IF result = "ok" THEN Put(Id(r), new) ELSE rows
      /\ Finish(r, result) /\ Proceeds(r)
      /\ UNCHANGED <<files, found>>

\* Variant: the file is deleted before the row.
RemoveImage_FileFirst(r) ==
  /\ Ready(r, "remove") /\ Table(r) = "product_images"
  /\ files' = files \ {Id(r)}
  /\ Goto(r, "unlink")
  /\ UNCHANGED <<rows, found, overlapping>>

\* The service does not look whether its DELETE found the row.
RemoveImage(r) ==
  /\ Ready(r, "remove") /\ Table(r) = "product_images"
  /\ rows' = Without({Id(r)})
  /\ Goto(r, "unlink")
  /\ UNCHANGED <<files, found, overlapping>>

Unlink(r) ==
  /\ pc[r] = "unlink"
  /\ files' = files \ {Id(r)}
  /\ Finish(r, "ok")
  /\ UNCHANGED <<rows, found, overlapping>>

\* Services of parts ignore that there was nothing left to delete.
Remove(r) ==
  /\ Ready(r, "remove") /\ Table(r) # "product_images"
  /\ IF Id(r) \notin DOMAIN rows
     THEN Finish(r, IF Table(r) \in Parts THEN "ok" ELSE "none") /\ UNCHANGED rows
     ELSE \E result \in Deleted(Id(r)) :
            /\ rows' = IF result = "ok" THEN Without(Cascaded(Id(r))) ELSE rows
            /\ Finish(r, result)
  /\ Proceeds(r)
  /\ UNCHANGED <<files, found>>

\* The file is stored before the service is called.
Upload(r) ==
  /\ pc[r] = "start" /\ Op(r) = "upload" /\ Begins(r)
  /\ files' = files \union {Id(r)}
  /\ Goto(r, IF Get(Call[r].set, "primary") = Null THEN "set" ELSE "unset")
  /\ UNCHANGED <<rows, found>>

Unset(product) ==
  [i \in DOMAIN rows |->
     IF TableOf[i] = "product_images" /\ Get(rows[i], "product") = product
     THEN [c \in DOMAIN rows[i] \ {"primary"} |-> rows[i][c]] ELSE rows[i]]

UnsetPrimaryForProduct(r) ==
  /\ pc[r] = "unset"
  /\ rows' = Unset(Call[r].product)
  /\ Goto(r, "set")
  /\ UNCHANGED <<files, found, overlapping>>

SetPrimary(r) ==
  LET new    == IF Op(r) = "upload" THEN Call[r].set
                ELSE IF Id(r) \in DOMAIN rows THEN Set(rows[Id(r)], [primary |-> "yes"]) ELSE NoColumns
      result == IF new = NoColumns THEN "none" ELSE Stored(Id(r), new)
  IN  /\ pc[r] = "set"
      /\ rows' = IF result = "ok" THEN Put(Id(r), new) ELSE rows
      /\ Finish(r, result)
      /\ UNCHANGED <<files, found, overlapping>>

\* findByBarcode reads one table after the other; a product it has found there is the answer, of
\* anything else the product is read next.
Carrying(table, barcode) == {i \in DOMAIN rows : TableOf[i] = table /\ Get(rows[i], "barcode") = barcode}

ProductOf(i) == IF TableOf[i] = "products" THEN i ELSE rows[i]["product"]

Look(r, table, next) ==
  LET hits == Carrying(table, Call[r].barcode)
  IN  IF hits # {}
      THEN /\ \E i \in hits : found' = [found EXCEPT ![r] = ProductOf(i)]
           /\ IF table = "products" THEN Finish(r, "ok") ELSE Goto(r, "getById")
      ELSE /\ IF next = "none" THEN Finish(r, "none") ELSE Goto(r, next)
           /\ UNCHANGED found

FindDirect(r) ==
  /\ pc[r] = "start" /\ Op(r) = "findByBarcode" /\ Begins(r)
  /\ Look(r, "products", "units")
  /\ UNCHANGED <<rows, files>>

\* Variant: the barcodes of units are left out.
FindByUnit_Skipped(r) ==
  pc[r] = "units" /\ Goto(r, "barcodes") /\ UNCHANGED <<rows, files, found, overlapping>>

FindByUnit(r) ==
  pc[r] = "units" /\ Look(r, "product_units", "barcodes") /\ UNCHANGED <<rows, files, overlapping>>

FindAdditional(r) ==
  pc[r] = "barcodes" /\ Look(r, "product_barcodes", "none") /\ UNCHANGED <<rows, files, overlapping>>

GetById(r) ==
  /\ pc[r] = "getById"
  /\ Finish(r, IF found[r] \in DOMAIN rows THEN "ok" ELSE "none")
  /\ UNCHANGED <<rows, files, found, overlapping>>

\* A statement fails or times out, or the server is restarted.
Fail(r) ==
  /\ r \in UnderWay
  /\ pc' = [pc EXCEPT ![r] = "failed"] /\ reply' = [reply EXCEPT ![r] = 500]
  /\ UNCHANGED <<rows, files, found, overlapping>>

Step(r) ==
  \/ GetOwned(r) \/ Create(r) \/ Update(r) \/ RemoveImage(r) \/ Unlink(r) \/ Remove(r) \/ Upload(r)
  \/ UnsetPrimaryForProduct(r) \/ SetPrimary(r)
  \/ FindDirect(r) \/ FindByUnit(r) \/ FindAdditional(r) \/ GetById(r)

Next == \E r \in Request : Step(r) \/ Fail(r)

Spec == Init /\ [][Next]_vars

-----------------------------------------------------------------------------
TypeOK ==
  /\ DOMAIN rows \subseteq Row /\ files \subseteq Row
  /\ \A i \in DOMAIN rows : DOMAIN rows[i] \subseteq Column
  /\ pc \in [Request -> {"unsent", "start", "write", "unlink", "unset", "set", "units", "barcodes",
                         "getById", "done", "failed"}]
  /\ reply \in [Request -> {0, 200, 400, 404, 409, 500}]
  /\ found \in [Request -> Row \union {Null}]
  /\ overlapping \in [Request -> SUBSET Request]

(***************************************************************************)
(* Every image a product shows has its file: whatever overlaps and         *)
(* wherever a request stops, the file is there before the row              *)
(* (FileInterceptor runs before the handler) and goes after it.            *)
(* product-images.service.ts upload and remove.                            *)
(***************************************************************************)
ImagesHaveFiles == {i \in DOMAIN rows : TableOf[i] = "product_images"} \subseteq files

(***************************************************************************)
(* A product with a primary image keeps one, however requests that move    *)
(* the mark overlap, unless an image is removed or a request dies between  *)
(* taking the mark from one image and giving it to the other, which are    *)
(* two transactions.  product-images.service.ts upload and setPrimary;     *)
(* uq_product_images_primary lets one of two overlapping ones fail.        *)
(***************************************************************************)
PrimaryImageIsKept ==
  (UnderWay = {} /\ \A r \in Request : pc[r] # "failed" /\ (pc[r] = "done" => Op(r) # "remove"))
    => \A p \in DOMAIN rows :
         PrimaryImages(p, InitialRows) # {} => Cardinality(PrimaryImages(p, rows)) = 1

(***************************************************************************)
(* A request is answered with a server error only if it died, or if it is  *)
(* a PATCH without fields of a table without updated_at: Kysely then       *)
(* writes an UPDATE that sets nothing, which PostgreSQL refuses (42601).   *)
(* Every constraint that a legal request can break is told as a conflict.  *)
(* all-exceptions.filter.ts, PG_ERROR_STATUS.                              *)
(***************************************************************************)
ConstraintsAreTold ==
  \A r \in Request : (pc[r] = "done" /\ reply[r] = 500)
                       => Op(r) = "update" /\ Call[r].set = NoColumns /\ ~Repo[Table(r)].touches

(***************************************************************************)
(* A scan that nothing overlaps finds a product the barcode belongs to,    *)
(* and "not found" means that no product, unit or further barcode has it,  *)
(* although the three tables are read one after the other.                 *)
(* product.kysely-repository.ts and products.service.ts findByBarcode.     *)
(***************************************************************************)
Owners(barcode) ==
  {ProductOf(i) : i \in UNION {Carrying(t, barcode) : t \in {"products", "product_units", "product_barcodes"}}}

ScanFindsProduct ==
  [][\A r \in Request :
       (Op(r) = "findByBarcode" /\ pc[r] # "done" /\ pc'[r] = "done" /\ overlapping'[r] = {})
         => IF reply'[r] = 200 THEN found'[r] \in Owners(Call[r].barcode)
                               ELSE Owners(Call[r].barcode) = {}]_vars
=============================================================================
