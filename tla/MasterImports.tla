---------------------------- MODULE MasterImports ----------------------------
(***************************************************************************)
(* Excel imports of the Project masters of one project, and the versions   *)
(* they create: upload, confirm and delete of project_master_imports.py,   *)
(* publish and retire of project_masters.py, run by several administrators *)
(* at a time.                                                              *)
(*                                                                         *)
(* A request is one READ COMMITTED transaction.  The status of an import   *)
(* is read once, without a lock; version numbers are MAX(version_no) + 1;  *)
(* only the unique keys of the tables stand between two writers.  What a   *)
(* transaction writes is kept in txn[r] until it commits.                  *)
(*                                                                         *)
(* A workbook row is a SKU code and the canonical configuration (model,    *)
(* variant, colour) it is given; a Price List or Discount Scheme row names *)
(* only the SKU.  Each of these two has one code, so one parent row; they  *)
(* behave alike.                                                           *)
(***************************************************************************)
EXTENDS Integers, Sequences, FiniteSets, FiniteSetsExt

CONSTANTS
    Requests,  \* requests of administrators that may run at the same time
    Ids,       \* import ids; a bound of the model: uploads that are stored
    Keys,      \* Idempotency-Key header values
    Books      \* workbooks: [master, wef, rows]

ASSUME BooksAssumption ==
    \A b \in Books :
        /\ b.master \in {"PRODUCT_MASTER", "PRICE_LIST", "DISCOUNT_SCHEME"}
        /\ b.wef \in Nat
        /\ b.rows \in Seq([sku : STRING, model : STRING]) \ {<<>>}
        /\ \A k \in DOMAIN b.rows : b.rows[k].model # "none"

VARIABLES
    imports,   \* project_master_imports
    parents,   \* number of rows of each parent table: product masters, lists
    versions,  \* the version tables with their items
    skus,      \* product_skus: the configuration of each SKU code
    pc,        \* pc[r]: the statement request r runs next
    job,       \* job[r]: what request r was asked
    txn,       \* txn[r]: what request r has written and not committed
    overtaken, \* history: imports confirmed after another request read them
    twinned    \* history: two requests at once found no product master

vars == <<imports, parents, versions, skus, pc, job, txn, overtaken, twinned>>
history == <<overtaken, twinned>>
tables == <<imports, parents, versions, skus>>

Masters == {"PRODUCT_MASTER", "PRICE_LIST", "DISCOUNT_SCHEME"}
NoBook  == [master |-> "-", wef |-> 0, rows |-> <<>>]
Unused  == [status |-> "UNUSED", key |-> "-", book |-> NoBook,
            version |-> <<0, 0>>]
NoJob   == [op |-> "NONE", id |-> "-", key |-> "-", book |-> NoBook]
NoTxn   == [parent |-> 0, no |-> 0, left |-> <<>>, items |-> {}, skus |-> {}]

\* The row of a deleted import is gone; the model keeps its id from reuse.
Present(i) == imports[i].status \notin {"UNUSED", "DELETED"}

VersionsOf(m, p) == {v \in versions : v.master = m /\ v.parent = p}
RowsOf(b) == {b.rows[k] : k \in DOMAIN b.rows}
SkuRow    == UNION {RowsOf(b) : b \in Books}
SkuCodes  == {x.sku : x \in SkuRow}
NoModel   == "none"
Models    == {x.model : x \in SkuRow} \union {NoModel}

-----------------------------------------------------------------------------
(***************************************************************************)
(* resolve_effective_project_product_master_version: the latest WEF wins;  *)
(* two versions that share it are a conflict.                              *)
(***************************************************************************)
MutApplicable(on) ==
    {v \in versions : v.master = "PRODUCT_MASTER" /\ v.status = "PUBLISHED"}

Applicable(on) ==
    {v \in versions : /\ v.master = "PRODUCT_MASTER"
                      /\ v.status = "PUBLISHED"
                      /\ v.wef <= on}
Winners(on) ==
    {v \in Applicable(on) : \A w \in Applicable(on) : w.wef <= v.wef}

\* _effective_sku
SkuIsEffective(sku, on) ==
    /\ skus[sku] # NoModel
    /\ Cardinality(Winners(on)) = 1
    /\ \A v \in Winners(on) : \E x \in v.rows : x.sku = sku

\* _validate_rows: what makes a row an ERROR.
RowIsWrong(b, x) ==
    IF b.master = "PRODUCT_MASTER"
    THEN skus[x.sku] \notin {NoModel, x.model}
    ELSE ~SkuIsEffective(x.sku, b.wef)

HasErrors(b) == \E x \in RowsOf(b) : RowIsWrong(b, x)

-----------------------------------------------------------------------------
Init ==
    /\ imports = [i \in Ids |-> Unused]
    /\ parents = [m \in Masters |-> 0]
    /\ versions = {}
    /\ skus = [s \in SkuCodes |-> NoModel]
    /\ pc = [r \in Requests |-> "idle"]
    /\ job = [r \in Requests |-> NoJob]
    /\ txn = [r \in Requests |-> NoTxn]
    /\ overtaken = {}
    /\ twinned = FALSE

Goto(r, step) == pc' = [pc EXCEPT ![r] = step] /\ UNCHANGED job

\* The transaction ends, committed or not.
End(r) ==
    /\ pc' = [pc EXCEPT ![r] = "idle"]
    /\ job' = [job EXCEPT ![r] = NoJob]
    /\ txn' = [txn EXCEPT ![r] = NoTxn]

Begin(r, op, i, k, b) ==
    /\ pc[r] = "idle"
    /\ op # "UPLOAD" => Present(i)
    /\ pc' = [pc EXCEPT ![r] = "reading"]
    /\ job' = [job EXCEPT ![r] = [op |-> op, id |-> i, key |-> k, book |-> b]]
    /\ UNCHANGED <<tables, txn, history>>

\* Connection lost, statement timeout, deadlock or unique key violated.
Abort(r) ==
    /\ pc[r] # "idle"
    /\ End(r)
    /\ UNCHANGED <<tables, history>>

-----------------------------------------------------------------------------
(***************************************************************************)
(* upload_master_import                                                    *)
(***************************************************************************)
SameKey(i, k, m) ==
    Present(i) /\ imports[i].key = k /\ imports[i].book.master = m

\* UNIQUE (tenant_id, owner_module, master_key, idempotency_key)
KeyTaken(b, k) == \E i \in Ids : SameKey(i, k, b.master)

\* A known key is answered with its import, or refused (VAC-CONFLICT-003).
LookUpKey(r) ==
    /\ pc[r] = "reading" /\ job[r].op = "UPLOAD"
    /\ IF KeyTaken(job[r].book, job[r].key)
       THEN End(r)
       ELSE Goto(r, "storing") /\ UNCHANGED txn
    /\ UNCHANGED <<tables, history>>

\* The INSERT fails on a key that another upload has taken meanwhile (Abort).
StoreImport(r) ==
    /\ pc[r] = "storing"
    /\ ~KeyTaken(job[r].book, job[r].key)
    /\ \E i \in Ids :
          /\ imports[i] = Unused
          /\ imports' = [imports EXCEPT ![i] =
                [status  |-> IF HasErrors(job[r].book)
                             THEN "VALIDATION_FAILED" ELSE "PREVIEW_READY",
                 key     |-> job[r].key,
                 book    |-> job[r].book,
                 version |-> <<0, 0>>]]
    /\ End(r)
    /\ UNCHANGED <<parents, versions, skus, history>>

-----------------------------------------------------------------------------
(***************************************************************************)
(* confirm_master_import                                                   *)
(***************************************************************************)
Book(r) == imports[job[r].id].book

MutMayConfirm(i) == imports[i].status \in {"PREVIEW_READY", "CONFIRMED"}

\* A CONFIRMED import is answered as it is; one with errors is refused.
MayConfirm(i) == imports[i].status = "PREVIEW_READY"

ReadForConfirm(r) ==
    /\ pc[r] = "reading" /\ job[r].op = "CONFIRM"
    /\ IF MayConfirm(job[r].id)
       THEN Goto(r, "locating") /\ UNCHANGED txn
       ELSE End(r)
    /\ UNCHANGED <<tables, history>>

\* _load_parsed_rows: an import deleted meanwhile has no rows left.
LoadedRows(r) == IF Present(job[r].id) THEN Book(r).rows ELSE <<>>

\* Another request has found no parent of master m and not ended.
OtherMakes(r, m) ==
    \E q \in Requests \ {r} :
        /\ pc[q] \in {"numbering", "inserting", "filling", "confirming"}
        /\ txn[q].parent = 0
        /\ Book(q).master = m

MutFoundParent(m) == 0

\* The parent row the SELECT finds; 0 is a new row of this transaction.
FoundParent(m) == parents[m]

\* ensure_project_product_master, which refuses a second one, or the SELECT and
\* INSERT of a price list or discount scheme.  The code of a list is unique, so
\* its INSERT waits for another that has not ended; a product master has no
\* such key.  rows[0] of a list import that was deleted meanwhile raises (Abort).
Locate(r) ==
    LET m == Book(r).master IN
    /\ pc[r] = "locating"
    /\ IF m = "PRODUCT_MASTER"
       THEN parents[m] <= 1
       ELSE LoadedRows(r) # <<>> /\ (parents[m] = 0 => ~OtherMakes(r, m))
    /\ txn' = [txn EXCEPT ![r].parent = FoundParent(m), ![r].left = LoadedRows(r)]
    /\ Goto(r, "numbering")
    /\ twinned' = (twinned \/ (parents[m] = 0 /\ OtherMakes(r, m)))
    /\ UNCHANGED <<tables, overtaken>>

MutNextNo(m, p) == 1 + Max({0} \union {v.no : v \in {w \in versions : w.master = m}})

\* SELECT COALESCE(MAX(version_no), 0) + 1
NextNo(m, p) == 1 + Max({0} \union {v.no : v \in VersionsOf(m, p)})

TakeNumber(r) ==
    /\ pc[r] = "numbering"
    /\ txn' = [txn EXCEPT ![r].no = NextNo(Book(r).master, txn[r].parent)]
    /\ Goto(r, "inserting")
    /\ UNCHANGED <<tables, history>>

\* UNIQUE (tenant_id, parent, version_no), over rows committed or not: the
\* INSERT waits for another of the same number and fails if that committed.
NumberFree(r) ==
    \/ txn[r].parent = 0
    \/ /\ \A v \in VersionsOf(Book(r).master, txn[r].parent) :
             v.no # txn[r].no
       /\ \A q \in Requests \ {r} :
             ~(/\ pc[q] \in {"filling", "confirming"}
               /\ Book(q).master = Book(r).master
               /\ txn[q].parent = txn[r].parent
               /\ txn[q].no = txn[r].no)

InsertVersion(r) ==
    /\ pc[r] = "inserting"
    /\ NumberFree(r)
    /\ Goto(r, IF txn[r].left = <<>> THEN "confirming" ELSE "filling")
    /\ UNCHANGED <<tables, txn, history>>

\* What the transaction itself sees of a SKU code.
ModelSeen(r, sku) ==
    IF \E x \in txn[r].skus : x.sku = sku
    THEN (CHOOSE x \in txn[r].skus : x.sku = sku).model
    ELSE skus[sku]

\* UNIQUE (oem_id, sku_code): the INSERT waits for another of the same code.
SkuFree(r, sku) ==
    \A q \in Requests \ {r} : \A x \in txn[q].skus : x.sku # sku

MutCreates(r, x) == SkuFree(r, x.sku)

\* _resolve_or_create_product_sku makes a SKU the catalogue does not have ...
Creates(r, x) == ModelSeen(r, x.sku) = NoModel /\ SkuFree(r, x.sku)

\* ... and takes one it has only with the same configuration
\* (VAC-CONFLICT-004); a list needs its SKUs to exist (VAC-CONFLICT-006).
Resolves(r, x) ==
    IF Book(r).master = "PRODUCT_MASTER"
    THEN ModelSeen(r, x.sku) = x.model
    ELSE ModelSeen(r, x.sku) # NoModel

AddItem(r) ==
    LET x == Head(txn[r].left)
        rest == Tail(txn[r].left)
    IN  /\ pc[r] = "filling"
        /\ \/ /\ Resolves(r, x)
              /\ txn' = [txn EXCEPT ![r].left = rest, ![r].items = @ \union {x}]
           \/ /\ Book(r).master = "PRODUCT_MASTER"
              /\ Creates(r, x)
              /\ txn' = [txn EXCEPT ![r].left = rest, ![r].items = @ \union {x},
                                    ![r].skus = @ \union {x}]
        /\ Goto(r, IF rest = <<>> THEN "confirming" ELSE "filling")
        /\ UNCHANGED <<tables, history>>

\* The parent a committing transaction has: a new one if it is 0.
ParentOf(r) ==
    IF txn[r].parent = 0 THEN parents[Book(r).master] + 1 ELSE txn[r].parent

NewVersion(r) ==
    [master |-> Book(r).master, parent |-> ParentOf(r), no |-> txn[r].no,
     wef |-> Book(r).wef, status |-> "DRAFT", import |-> job[r].id,
     rows |-> txn[r].items]

MutStillThere(r) == TRUE

\* The UPDATE names no status; if it finds no row, _import_row answers 404 and
\* everything is rolled back (Abort).
StillThere(r) == Present(job[r].id)

Confirm(r) ==
    /\ pc[r] = "confirming"
    /\ StillThere(r)
    /\ imports' = [imports EXCEPT
          ![job[r].id].status = "CONFIRMED",
          ![job[r].id].version = <<ParentOf(r), txn[r].no>>]
    /\ versions' = versions \union {NewVersion(r)}
    /\ parents' = [parents EXCEPT ![Book(r).master] =
                      IF txn[r].parent = 0 THEN @ + 1 ELSE @]
    /\ skus' = [s \in SkuCodes |-> ModelSeen(r, s)]
    /\ overtaken' =
          IF \E q \in Requests \ {r} :
                job[q].id = job[r].id /\ pc[q] # "reading"
          THEN overtaken \union {job[r].id} ELSE overtaken
    /\ End(r)
    /\ UNCHANGED twinned

-----------------------------------------------------------------------------
(***************************************************************************)
(* delete_master_import                                                    *)
(***************************************************************************)
ReadForDelete(r) ==
    /\ pc[r] = "reading" /\ job[r].op = "DELETE"
    /\ IF Present(job[r].id) /\ imports[job[r].id].status # "CONFIRMED"
       THEN Goto(r, "deleting") /\ UNCHANGED txn
       ELSE End(r)
    /\ UNCHANGED <<tables, history>>

\* DELETE ... WHERE import_id: the status is not looked at again.
Delete(r) ==
    /\ pc[r] = "deleting"
    /\ imports' = [imports EXCEPT ![job[r].id].status = "DELETED"]
    /\ End(r)
    /\ UNCHANGED <<parents, versions, skus, history>>

-----------------------------------------------------------------------------
(***************************************************************************)
(* publish_audit_core_version and retire_audit_core_version: one UPDATE    *)
(* that names the status it leaves.                                        *)
(***************************************************************************)
Moves(v, from, to) ==
    /\ v.status = from
    /\ versions' = (versions \ {v}) \union {[v EXCEPT !.status = to]}
    /\ UNCHANGED <<imports, parents, skus, pc, job, txn, history>>

\* A product master version needs an item, any other version none.
Publish(v) ==
    /\ v.master = "PRODUCT_MASTER" => v.rows # {}
    /\ Moves(v, "DRAFT", "PUBLISHED")

Retire(v) == Moves(v, "PUBLISHED", "RETIRED")

Next ==
    \/ \E r \in Requests :
          \/ \E k \in Keys, b \in Books : Begin(r, "UPLOAD", "-", k, b)
          \/ \E i \in Ids, op \in {"CONFIRM", "DELETE"} :
                Begin(r, op, i, "-", NoBook)
          \/ LookUpKey(r)
          \/ StoreImport(r)
          \/ ReadForConfirm(r)
          \/ Locate(r)
          \/ TakeNumber(r)
          \/ InsertVersion(r)
          \/ AddItem(r)
          \/ Confirm(r)
          \/ ReadForDelete(r)
          \/ Delete(r)
          \/ Abort(r)
    \/ \E v \in versions : Publish(v) \/ Retire(v)

Spec == Init /\ [][Next]_vars
-----------------------------------------------------------------------------
Steps == {"idle", "reading", "storing", "locating", "numbering", "inserting",
          "filling", "confirming", "deleting"}

Import ==
    [status : {"UNUSED", "PREVIEW_READY", "VALIDATION_FAILED", "CONFIRMED", "DELETED"},
     key : Keys \union {"-"}, book : Books \union {NoBook}, version : Nat \X Nat]
Version ==
    [master : Masters, parent : Nat, no : Nat, wef : Nat,
     status : {"DRAFT", "PUBLISHED", "RETIRED"}, import : Ids, rows : SUBSET SkuRow]
Job ==
    [op : {"NONE", "UPLOAD", "CONFIRM", "DELETE"}, id : Ids \union {"-"},
     key : Keys \union {"-"}, book : Books \union {NoBook}]
Txn == [parent : Nat, no : Nat, left : Seq(SkuRow), items : SUBSET SkuRow, skus : SUBSET SkuRow]

\* The types of the tables and of what the transactions hold.
TypeOK ==
    /\ imports \in [Ids -> Import]
    /\ parents \in [Masters -> Nat]
    /\ versions \subseteq Version
    /\ skus \in [SkuCodes -> Models]
    /\ pc \in [Requests -> Steps]
    /\ job \in [Requests -> Job]
    /\ txn \in [Requests -> Txn]
    /\ twinned \in BOOLEAN

\* The versions of a product master or list are numbered 1, 2, 3 ... without a
\* gap or a duplicate, although the number is computed without a lock.
NumbersAreDense ==
    \A m \in Masters : \A p \in 1 .. parents[m] :
        /\ {v.no : v \in VersionsOf(m, p)} = 1 .. Cardinality(VersionsOf(m, p))
        /\ VersionsOf(m, p) # {}

\* "existing canonical IDs are never reinterpreted": the SKUs of a product
\* master version mean what its workbook said, whoever created them, and the
\* SKUs of a price list or discount version exist.
SkusKeepTheirMeaning ==
    \A v \in versions : \A x \in v.rows :
        IF v.master = "PRODUCT_MASTER"
        THEN skus[x.sku] = x.model
        ELSE skus[x.sku] # NoModel

\* A price list or discount version rests on product masters: each SKU of it
\* is in a product master version that was published (it may be retired since)
\* and whose WEF is not later than its own.
PricesRestOnProducts ==
    \A v \in versions : \A x \in v.rows :
        v.master # "PRODUCT_MASTER" =>
            \E w \in versions : /\ w.master = "PRODUCT_MASTER"
                                /\ w.status \in {"PUBLISHED", "RETIRED"}
                                /\ w.wef <= v.wef
                                /\ x.sku \in {y.sku : y \in w.rows}

\* A confirmed import names a version made from its rows and its WEF, and no
\* version comes from an import that is still staged: a confirmation is there
\* completely or not at all.
ConfirmedExactly ==
    /\ \A i \in Ids : imports[i].status = "CONFIRMED" =>
          \E v \in versions :
              /\ v.import = i /\ <<v.parent, v.no>> = imports[i].version
              /\ v.master = imports[i].book.master
              /\ v.wef = imports[i].book.wef
              /\ v.rows = RowsOf(imports[i].book)
    /\ \A v \in versions : imports[v.import].status \in {"CONFIRMED", "DELETED"}

\* "A confirmed import cannot be deleted through the staging delete operation",
\* and confirming it again changes nothing - unless another request had read
\* the import before it was confirmed: neither statement names the status.
LoneConfirmationIsFinal ==
    [][\A i \in Ids \ overtaken : imports[i].status = "CONFIRMED" =>
          imports'[i] = imports[i]]_vars

\* A project has one product master, but for two first confirmations that ran
\* at once: with a second one ensure_project_product_master refuses every later
\* confirmation, and no operation removes it.  Price lists and discount schemes
\* have the unique code, and stay one each.
SecondMasterWasRaced ==
    \A m \in Masters : parents[m] <= 1 \/ (m = "PRODUCT_MASTER" /\ twinned)
=============================================================================
