-------------------------- MODULE MasterImportsProofs --------------------------
(***************************************************************************)
(* Proofs about the imports of the Project masters: for every number of    *)
(* requests, imports, keys and workbooks.                                  *)
(*                                                                         *)
(* The inductive invariant says what each transaction between its reads    *)
(* and its commit can rely on, although it holds no lock: Carries (its     *)
(* rows), Takes (its number), Makes (its new SKUs), Based (what validation *)
(* saw), Overtakes and Alone (who else is under way).                      *)
(***************************************************************************)
EXTENDS MasterImports, TLAPS, FiniteSetTheorems, FunctionTheorems

\* The statements of a confirmation after it has read the status.
Confirming == {"locating", "numbering", "inserting", "filling", "confirming"}

\* A request past its first statement knows which import it works on.
AskedOf(r) ==
    /\ pc[r] = "idle" => job[r] = NoJob
    /\ pc[r] # "idle" => job[r].op # "NONE"
    /\ pc[r] = "storing" => job[r].op = "UPLOAD"
    /\ job[r].op = "UPLOAD" => job[r].book \in Books /\ pc[r] \in {"reading", "storing"}
    /\ job[r].op \in {"CONFIRM", "DELETE"} =>
          job[r].id \in Ids /\ imports[job[r].id].status # "UNUSED"
    /\ pc[r] \in Confirming =>
          /\ job[r].op = "CONFIRM"
          /\ imports[job[r].id].status \notin {"UNUSED", "VALIDATION_FAILED"}
    /\ pc[r] = "deleting" => job[r].op = "DELETE"
    /\ pc[r] \in {"idle", "reading", "storing", "locating", "deleting"} => txn[r] = NoTxn

Asked ==
    /\ \A r \in Requests : AskedOf(r)
    /\ \A i \in Ids : imports[i].status # "UNUSED" => imports[i].book \in Books

\* A transaction carries the rows of its workbook, added or still left.
CarriesOf(r) ==
    /\ pc[r] = "confirming" => txn[r].left = <<>>
    /\ pc[r] = "filling" => txn[r].left # <<>>
    /\ pc[r] \in {"numbering", "inserting", "filling", "confirming"} =>
          /\ txn[r].items \union {txn[r].left[k] : k \in DOMAIN txn[r].left}
                 \subseteq RowsOf(Book(r))
          /\ Present(job[r].id) =>
                RowsOf(Book(r)) \subseteq
                    txn[r].items \union {txn[r].left[k] : k \in DOMAIN txn[r].left}

Carries == \A r \in Requests : CarriesOf(r)

\* The numbers of a parent's versions.
Numbers(m, p) == {v.no : v \in VersionsOf(m, p)}

\* Numbers run from 1, each of one version.
Numbered ==
    /\ \A v \in versions : v.parent \in 1 .. parents[v.master]
    /\ \A v, w \in versions :
          v.master = w.master /\ v.parent = w.parent /\ v.no = w.no => v = w
    /\ \A m \in Masters : \A p \in 1 .. parents[m] :
          \E n \in Nat \ {0} : Numbers(m, p) = 1 .. n

\* A transaction's number is the next one of its parent, or taken by now; once
\* its row is inserted, nobody else has that number.
TakesOf(r) ==
    /\ pc[r] \in {"numbering", "inserting", "filling", "confirming"} =>
          txn[r].parent \in 0 .. parents[Book(r).master]
    /\ pc[r] \in {"inserting", "filling", "confirming"} =>
          /\ txn[r].no # 0 /\ (txn[r].parent = 0 => txn[r].no = 1)
          /\ txn[r].parent # 0 =>
                1 .. (txn[r].no - 1) \subseteq Numbers(Book(r).master, txn[r].parent)
    /\ pc[r] \in {"filling", "confirming"} /\ txn[r].parent # 0 =>
          txn[r].no \notin Numbers(Book(r).master, txn[r].parent)

Takes ==
    /\ \A r \in Requests : TakesOf(r)
    /\ \A r, q \in Requests :
          /\ r # q /\ pc[r] \in {"filling", "confirming"}
          /\ pc[q] \in {"filling", "confirming"}
          /\ Book(r).master = Book(q).master
          /\ txn[r].parent = txn[q].parent /\ txn[r].parent # 0
          => txn[r].no # txn[q].no

\* SKUs that a transaction makes are new, and no other transaction's.
MakesOf(r) ==
    /\ \A x \in txn[r].skus : skus[x.sku] = NoModel
    /\ \A x, y \in txn[r].skus : x.sku = y.sku => x = y
    /\ \A q \in Requests \ {r} : \A x \in txn[r].skus, y \in txn[q].skus : x.sku # y.sku
    /\ \A x \in txn[r].items :
          IF Book(r).master = "PRODUCT_MASTER"
          THEN ModelSeen(r, x.sku) = x.model
          ELSE ModelSeen(r, x.sku) # NoModel

Makes == \A r \in Requests : MakesOf(r)

\* An import that was accepted rests on published products.
Based ==
    \A i \in Ids :
        /\ imports[i].status \in {"PREVIEW_READY", "CONFIRMED"}
        /\ imports[i].book.master # "PRODUCT_MASTER"
        => \A x \in RowsOf(imports[i].book) :
              \E w \in versions : /\ w.master = "PRODUCT_MASTER"
                                  /\ w.status \in {"PUBLISHED", "RETIRED"}
                                  /\ w.wef <= imports[i].book.wef
                                  /\ x.sku \in {y.sku : y \in w.rows}

\* Who works on an import that is confirmed has been overtaken.
Overtakes ==
    \A r \in Requests :
        /\ pc[r] \in Confirming \union {"deleting"}
        /\ imports[job[r].id].status = "CONFIRMED"
        => job[r].id \in overtaken

\* One transaction at most makes a parent, but for two that raced to make the
\* product master.
MakesParent(r, m) ==
    /\ pc[r] \in {"numbering", "inserting", "filling", "confirming"}
    /\ txn[r].parent = 0 /\ Book(r).master = m

AloneFor(m) ==
    /\ parents[m] <= 1
    /\ \A r \in Requests : MakesParent(r, m) => parents[m] = 0
    /\ \A r, q \in Requests : MakesParent(r, m) /\ MakesParent(q, m) => r = q

Alone == \A m \in Masters : AloneFor(m) \/ (m = "PRODUCT_MASTER" /\ twinned)
-----------------------------------------------------------------------------
\* A workbook has rows, and the catalogue's codes and models are theirs.
LEMMA BooksHaveRows ==
    ASSUME NEW b \in Books
    PROVE  /\ b.master \in Masters /\ b.wef \in Nat
           /\ b.rows \in Seq(SkuRow) /\ RowsOf(b) \subseteq SkuRow
           /\ \A x \in RowsOf(b) : x.sku \in SkuCodes /\ x.model \in Models
                                    /\ x.model # NoModel
<1>1. RowsOf(b) \subseteq SkuRow
  BY DEF SkuRow
<1>2. PICK t \in Seq([sku : STRING, model : STRING]) : t = b.rows
  BY BooksAssumption
<1>3. \A k \in DOMAIN t : t[k] \in SkuRow
  BY <1>1, <1>2 DEF RowsOf
<1>4. t \in Seq(SkuRow)
  <2>1. Len(t) \in Nat /\ DOMAIN t = 1 .. Len(t) /\ t = [k \in DOMAIN t |-> t[k]]
    BY <1>2
  <2>2. [k \in 1 .. Len(t) |-> t[k]] \in Seq(SkuRow)
    BY <1>3, <2>1
  <2> QED  BY <2>1, <2>2
<1>5. \A x \in RowsOf(b) : x.sku \in SkuCodes /\ x.model \in Models
  BY <1>1 DEF SkuCodes, Models
<1>6. \A x \in RowsOf(b) : x.model # NoModel
  BY BooksAssumption DEF RowsOf, NoModel
<1> QED  BY <1>1, <1>2, <1>4, <1>5, <1>6, BooksAssumption DEF Masters

\* A pair of naturals.
LEMMA Pair ==
    ASSUME NEW a \in Nat, NEW b \in Nat
    PROVE  \E e \in Nat \X Nat : e = <<a, b>>
  OBVIOUS

\* What TypeOK says of one request, import and version.
LEMMA Types ==
    ASSUME TypeOK
    PROVE  /\ \A i \in Ids : imports[i] \in Import
           /\ \A r \in Requests : pc[r] \in Steps /\ job[r] \in Job /\ txn[r] \in Txn
           /\ \A m \in Masters : parents[m] \in Nat
           /\ \A v \in versions : v \in Version
           /\ \A x \in SkuCodes : skus[x] \in Models
  BY DEF TypeOK

\* Requests go on, and end, in their types.
LEMMA PassTypes ==
    ASSUME TypeOK, NEW r \in Requests, NEW step \in Steps
    PROVE  /\ Goto(r, step) => /\ pc' \in [Requests -> Steps] /\ job' = job
                               /\ pc'[r] = step
                               /\ \A q \in Requests \ {r} : pc'[q] = pc[q]
           /\ End(r) => /\ pc' \in [Requests -> Steps] /\ job' \in [Requests -> Job]
                        /\ txn' \in [Requests -> Txn]
                        /\ pc'[r] = "idle" /\ job'[r] = NoJob /\ txn'[r] = NoTxn
                        /\ \A q \in Requests \ {r} :
                              pc'[q] = pc[q] /\ job'[q] = job[q] /\ txn'[q] = txn[q]
<1>1. NoJob \in Job
  BY DEF NoJob, Job
<1>2. NoTxn \in Txn
  BY DEF NoTxn, Txn
<1>3. "idle" \in Steps
  BY DEF Steps
<1> QED  BY <1>1, <1>2, <1>3 DEF TypeOK, Goto, End

\* The initial state has its types.
LEMMA TypeInit == Init => TypeOK
<1> SUFFICES ASSUME Init PROVE TypeOK
  OBVIOUS
<1>1. Unused \in Import /\ NoJob \in Job /\ NoTxn \in Txn
  BY DEF Unused, Import, NoBook, NoJob, Job, NoTxn, Txn
<1>2. /\ imports \in [Ids -> Import] /\ job \in [Requests -> Job]
      /\ txn \in [Requests -> Txn]
  BY <1>1 DEF Init
<1>3. parents \in [Masters -> Nat] /\ pc \in [Requests -> Steps] /\ twinned \in BOOLEAN
  BY DEF Init, Steps
<1>4. skus \in [SkuCodes -> Models]
  BY DEF Init, Models
<1> QED  BY <1>2, <1>3, <1>4 DEF Init, TypeOK

\* A confirmation has a workbook.
LEMMA BookIsKnown ==
    ASSUME TypeOK, Asked, NEW r \in Requests, pc[r] \in Confirming
    PROVE  /\ job[r].id \in Ids /\ Book(r) \in Books /\ Book(r).master \in Masters
           /\ Book(r).wef \in Nat /\ Book(r).rows \in Seq(SkuRow)
  BY BooksHaveRows DEF Asked, AskedOf, Confirming, Book

\* The largest number of an interval from 0.
LEMMA MaxOfInterval ==
    ASSUME NEW n \in Nat
    PROVE  Max(0 .. n) = n
<1>1. n \in 0 .. n /\ \A y \in 0 .. n : n >= y
  OBVIOUS
<1>2. Max(0 .. n) \in 0 .. n /\ \A y \in 0 .. n : Max(0 .. n) >= y
  BY <1>1, Zenon DEF Max
<1> QED  BY <1>1, <1>2

\* The elements of a sequence are its head and those of its tail.
LEMMA HeadAndTail ==
    ASSUME NEW S, NEW t \in Seq(S), t # <<>>
    PROVE  /\ Head(t) \in S /\ Tail(t) \in Seq(S)
           /\ {t[k] : k \in DOMAIN t} = {Head(t)} \union {Tail(t)[k] : k \in DOMAIN Tail(t)}
<1> DEFINE A == {t[k] : k \in DOMAIN t}
           B == {Head(t)} \union {Tail(t)[k] : k \in DOMAIN Tail(t)}
<1>1. /\ Head(t) = t[1] /\ 1 \in DOMAIN t /\ Tail(t) \in Seq(S)
      /\ DOMAIN Tail(t) = 1 .. (Len(t) - 1) /\ DOMAIN t = 1 .. Len(t)
      /\ \A k \in 1 .. (Len(t) - 1) : Tail(t)[k] = t[k + 1]
  OBVIOUS
<1>2. \A k \in DOMAIN t : k = 1 \/ (k - 1 \in DOMAIN Tail(t) /\ t[k] = Tail(t)[k - 1])
  BY <1>1
<1>3. \A k \in DOMAIN Tail(t) : k + 1 \in DOMAIN t /\ Tail(t)[k] = t[k + 1]
  BY <1>1
<1>4. Head(t) \in S
  BY <1>1
<1>5. ASSUME NEW y \in A
      PROVE  y \in B
  <2>1. PICK k \in DOMAIN t : y = t[k]
    OBVIOUS
  <2> QED  BY <2>1, <1>1, <1>2
<1>6. ASSUME NEW y \in B
      PROVE  y \in A
  <2>1. CASE y = Head(t)
    BY <2>1, <1>1
  <2>2. CASE y \in {Tail(t)[k] : k \in DOMAIN Tail(t)}
    <3>1. PICK k \in DOMAIN Tail(t) : y = Tail(t)[k]
      BY <2>2
    <3> QED  BY <3>1, <1>3
  <2> QED  BY <2>1, <2>2
<1>7. A = B
  BY <1>5, <1>6
<1> QED  BY <1>1, <1>4, <1>7

\* The next number of a parent follows its last one.
LEMMA NextNumber ==
    ASSUME TypeOK, Numbered, NEW m \in Masters, NEW p \in 0 .. parents[m]
    PROVE  /\ NextNo(m, p) \in Nat \ {0}
           /\ p = 0 => NextNo(m, p) = 1
           /\ p # 0 => Numbers(m, p) = 1 .. (NextNo(m, p) - 1)
<1>1. ASSUME NEW n \in Nat, Numbers(m, p) = 1 .. n
      PROVE  NextNo(m, p) = n + 1
  <2>1. {0} \union Numbers(m, p) = 0 .. n
    BY <1>1
  <2>2. NextNo(m, p) = 1 + Max({0} \union Numbers(m, p))
    BY Zenon DEF NextNo, Numbers
  <2>3. Max({0} \union Numbers(m, p)) = n
    BY <2>1, MaxOfInterval, Zenon
  <2> QED  BY <2>2, <2>3
<1>2. CASE p = 0
  <2>1. Numbers(m, p) = {}
    BY <1>2, Types DEF Numbers, VersionsOf, Numbered, Version
  <2>2. Numbers(m, p) = 1 .. 0
    BY <2>1
  <2>3. NextNo(m, p) = 0 + 1
    BY <1>1, <2>2
  <2> QED  BY <1>2, <2>2, <2>3
<1>3. CASE p # 0
  <2>1. PICK n \in Nat \ {0} : Numbers(m, p) = 1 .. n
    BY <1>3, Types DEF Numbered
  <2>2. NextNo(m, p) = n + 1
    BY <1>1, <2>1
  <2> QED  BY <1>3, <2>1, <2>2
<1> QED  BY <1>2, <1>3

\* The row a transaction adds, and what it keeps of its rows.
LEMMA AddShape ==
    ASSUME TypeOK, Asked, Carries, NEW r \in Requests, AddItem(r)
    PROVE  LET x == Head(txn[r].left) IN
           /\ pc[r] = "filling"
           /\ x \in SkuRow /\ x \in RowsOf(Book(r)) /\ x.sku \in SkuCodes
           /\ txn' \in [Requests -> Txn]
           /\ \A q \in Requests \ {r} : txn'[q] = txn[q]
           /\ txn'[r].parent = txn[r].parent /\ txn'[r].no = txn[r].no
           /\ txn'[r].items = txn[r].items \union {x}
           /\ {txn[r].left[k] : k \in DOMAIN txn[r].left} =
                 {x} \union {txn'[r].left[k] : k \in DOMAIN txn'[r].left}
           /\ \/ Resolves(r, x) /\ txn'[r].skus = txn[r].skus
              \/ /\ Book(r).master = "PRODUCT_MASTER" /\ Creates(r, x)
                 /\ txn'[r].skus = txn[r].skus \union {x}
           /\ pc' \in [Requests -> Steps] /\ job' = job
           /\ pc'[r] = IF txn'[r].left = <<>> THEN "confirming" ELSE "filling"
           /\ \A q \in Requests \ {r} : pc'[q] = pc[q]
           /\ UNCHANGED <<tables, history>>
<1> DEFINE x == Head(txn[r].left)
           rest == Tail(txn[r].left)
<1>1. pc[r] = "filling" /\ UNCHANGED <<tables, history>>
  BY DEF AddItem
<1>2. txn[r] \in Txn /\ txn[r].left \in Seq(SkuRow) /\ txn[r].left # <<>>
  BY <1>1, Types DEF Txn, Carries, CarriesOf
<1>3. /\ x \in SkuRow /\ rest \in Seq(SkuRow)
      /\ {txn[r].left[k] : k \in DOMAIN txn[r].left} =
            {x} \union {rest[k] : k \in DOMAIN rest}
  BY <1>2, HeadAndTail
<1>4. x \in RowsOf(Book(r)) /\ x.sku \in SkuCodes
  <2>1. x \in RowsOf(Book(r))
    BY <1>1, <1>3 DEF Carries, CarriesOf
  <2>2. Book(r) \in Books
    BY <1>1, BookIsKnown DEF Confirming
  <2> QED  BY <2>1, <2>2, BooksHaveRows
<1> HIDE DEF x, rest
<1>5. PICK new \in SUBSET {x} :
        /\ txn' = [txn EXCEPT ![r].left = rest, ![r].items = @ \union {x},
                              ![r].skus = @ \union new]
        /\ \/ Resolves(r, x) /\ new = {}
           \/ /\ Book(r).master = "PRODUCT_MASTER" /\ Creates(r, x) /\ new = {x}
  <2>1. CASE /\ Resolves(r, x)
             /\ txn' = [txn EXCEPT ![r].left = rest, ![r].items = @ \union {x}]
    BY <1>2, <2>1 DEF TypeOK, Txn
  <2>2. CASE /\ Book(r).master = "PRODUCT_MASTER" /\ Creates(r, x)
             /\ txn' = [txn EXCEPT ![r].left = rest, ![r].items = @ \union {x},
                                   ![r].skus = @ \union {x}]
    BY <2>2
  <2> QED  BY <2>1, <2>2 DEF AddItem, x, rest
<1>6. PICK d : d = [txn[r] EXCEPT !.left = rest, !.items = @ \union {x},
                                  !.skus = @ \union new]
  OBVIOUS
<1>7. /\ d \in Txn /\ d.parent = txn[r].parent /\ d.no = txn[r].no /\ d.left = rest
      /\ d.items = txn[r].items \union {x} /\ d.skus = txn[r].skus \union new
  <2>1. PICK e \in Txn : e = txn[r]
    BY <1>2
  <2>2. d = [e EXCEPT !.left = rest, !.items = @ \union {x}, !.skus = @ \union new]
    BY <1>6, <2>1
  <2> QED  BY <1>3, <2>1, <2>2 DEF Txn
<1>11. txn' = [txn EXCEPT ![r] = d]
  BY <1>5, <1>6 DEF TypeOK
<1>8. Goto(r, IF rest = <<>> THEN "confirming" ELSE "filling")
  BY DEF AddItem, rest
<1>9. /\ pc' \in [Requests -> Steps] /\ job' = job
      /\ pc'[r] = (IF rest = <<>> THEN "confirming" ELSE "filling")
      /\ \A q \in Requests \ {r} : pc'[q] = pc[q]
  BY <1>8, PassTypes DEF Steps
<1>10. /\ txn' \in [Requests -> Txn] /\ \A q \in Requests \ {r} : txn'[q] = txn[q]
       /\ txn'[r] = d
  BY <1>7, <1>11 DEF TypeOK
<1>12. {txn[r].left[k] : k \in DOMAIN txn[r].left} =
          {x} \union {txn'[r].left[k] : k \in DOMAIN txn'[r].left}
  BY <1>3, <1>7, <1>10, Zenon
<1>13. /\ txn'[r].parent = txn[r].parent /\ txn'[r].no = txn[r].no
       /\ txn'[r].items = txn[r].items \union {x} /\ txn'[r].left = rest
       /\ txn'[r].skus = txn[r].skus \union new
  BY <1>7, <1>10
<1>14. \/ Resolves(r, x) /\ txn'[r].skus = txn[r].skus
       \/ /\ Book(r).master = "PRODUCT_MASTER" /\ Creates(r, x)
          /\ txn'[r].skus = txn[r].skus \union {x}
  BY <1>5, <1>13
<1>15. pc'[r] = IF txn'[r].left = <<>> THEN "confirming" ELSE "filling"
  BY <1>9, <1>13, Zenon
<1> QED
  BY <1>1, <1>3, <1>4, <1>9, <1>10, <1>12, <1>13, <1>14, <1>15, Zenon DEF x

\* The model that a committing transaction gives a SKU code.
LEMMA SeenShape ==
    ASSUME TypeOK, Makes, NEW r \in Requests, NEW c \in SkuCodes
    PROVE  /\ \A x \in txn[r].skus : x.sku = c => ModelSeen(r, c) = x.model
           /\ (\A x \in txn[r].skus : x.sku # c) => ModelSeen(r, c) = skus[c]
           /\ ModelSeen(r, c) \in Models
<1>1. ASSUME NEW x \in txn[r].skus, x.sku = c
      PROVE  ModelSeen(r, c) = x.model
  BY <1>1 DEF ModelSeen, Makes, MakesOf
<1>2. \A x \in txn[r].skus : x.sku = c => x.model \in Models
  BY Types DEF Txn, Models
<1>3. (\A x \in txn[r].skus : x.sku # c) => ModelSeen(r, c) = skus[c]
  BY DEF ModelSeen
<1>4. skus[c] \in Models
  BY Types
<1> QED  BY <1>1, <1>2, <1>3, <1>4

\* What a confirmation leaves.
LEMMA ConfirmShape ==
    ASSUME TypeOK, Asked, Takes, Makes, NEW r \in Requests, Confirm(r)
    PROVE  LET i == job[r].id IN
           /\ pc[r] = "confirming" /\ i \in Ids /\ Present(i) /\ Book(r) \in Books
           /\ imports' \in [Ids -> Import]
           /\ imports'[i].status = "CONFIRMED" /\ imports'[i].key = imports[i].key
           /\ imports'[i].book = imports[i].book
           /\ imports'[i].version = <<ParentOf(r), txn[r].no>>
           /\ \A j \in Ids \ {i} : imports'[j] = imports[j]
           /\ NewVersion(r) \in Version /\ versions' = versions \union {NewVersion(r)}
           /\ parents' \in [Masters -> Nat]
           /\ ParentOf(r) \in 1 .. parents'[Book(r).master]
           /\ parents'[Book(r).master] = parents[Book(r).master]
                                            + (IF txn[r].parent = 0 THEN 1 ELSE 0)
           /\ \A m \in Masters \ {Book(r).master} : parents'[m] = parents[m]
           /\ skus' \in [SkuCodes -> Models]
           /\ \A c \in SkuCodes : skus'[c] = ModelSeen(r, c)
           /\ End(r) /\ UNCHANGED twinned
<1> DEFINE i == job[r].id
           m == Book(r).master
<1>1. /\ pc[r] = "confirming" /\ i \in Ids /\ Present(i) /\ Book(r) \in Books
      /\ m \in Masters /\ Book(r).wef \in Nat
  BY BookIsKnown DEF Confirm, StillThere, Confirming
<1>2. /\ txn[r] \in Txn /\ parents[m] \in Nat /\ txn[r].parent \in 0 .. parents[m]
  BY <1>1, Types DEF Takes, TakesOf
<1>3. ParentOf(r) \in Nat /\ txn[r].no \in Nat
  BY <1>2 DEF ParentOf, Txn
<1>4. /\ imports' \in [Ids -> Import]
      /\ imports'[i].status = "CONFIRMED" /\ imports'[i].key = imports[i].key
      /\ imports'[i].book = imports[i].book
      /\ imports'[i].version = <<ParentOf(r), txn[r].no>>
      /\ \A j \in Ids \ {i} : imports'[j] = imports[j]
  <2>1. PICK e \in Nat \X Nat : e = <<ParentOf(r), txn[r].no>>
    BY <1>3, Pair
  <2>2. imports' = [imports EXCEPT ![i].status = "CONFIRMED", ![i].version = e]
    BY <2>1 DEF Confirm
  <2>3. imports[i] \in Import
    BY <1>1, Types
  <2>4. [imports[i] EXCEPT !.status = "CONFIRMED", !.version = e] \in Import
    BY <2>1, <2>3 DEF Import
  <2>5. imports' = [imports EXCEPT ![i] =
                      [imports[i] EXCEPT !.status = "CONFIRMED", !.version = e]]
    BY <1>1, <2>2 DEF TypeOK
  <2> QED  BY <1>1, <2>1, <2>3, <2>4, <2>5 DEF TypeOK, Import
<1>5. NewVersion(r) \in Version
  <2>1. txn[r].items \subseteq SkuRow
    BY <1>2 DEF Txn
  <2> QED  BY <1>1, <1>3, <2>1 DEF NewVersion, Version
<1>6. /\ parents' \in [Masters -> Nat]
      /\ parents'[m] = parents[m] + (IF txn[r].parent = 0 THEN 1 ELSE 0)
      /\ \A n \in Masters \ {m} : parents'[n] = parents[n]
  BY <1>1, <1>2 DEF Confirm, TypeOK
<1>7. ParentOf(r) \in 1 .. parents'[m]
  BY <1>2, <1>6 DEF ParentOf
<1>8. skus' \in [SkuCodes -> Models] /\ \A c \in SkuCodes : skus'[c] = ModelSeen(r, c)
  BY SeenShape DEF Confirm
<1>9. End(r) /\ UNCHANGED twinned /\ versions' = versions \union {NewVersion(r)}
  BY DEF Confirm
<1> QED  BY <1>1, <1>4, <1>5, <1>6, <1>7, <1>8, <1>9

\* Publishing and retiring change the status of one version.
LEMMA MoveShape ==
    ASSUME TypeOK, NEW v \in versions, Publish(v) \/ Retire(v)
    PROVE  \E w \in Version :
              /\ versions' = (versions \ {v}) \union {w}
              /\ w.master = v.master /\ w.parent = v.parent /\ w.no = v.no
              /\ w.wef = v.wef /\ w.import = v.import /\ w.rows = v.rows
              /\ v.status \in {"PUBLISHED", "RETIRED"} => w.status \in {"PUBLISHED", "RETIRED"}
              /\ UNCHANGED <<imports, parents, skus, pc, job, txn, history>>
<1>1. PICK to \in {"PUBLISHED", "RETIRED"} :
         /\ versions' = (versions \ {v}) \union {[v EXCEPT !.status = to]}
         /\ UNCHANGED <<imports, parents, skus, pc, job, txn, history>>
  BY DEF Publish, Retire, Moves
<1>2. v \in Version
  BY Types
<1>3. /\ [v EXCEPT !.status = to] \in Version
      /\ [v EXCEPT !.status = to].status = to
      /\ [v EXCEPT !.status = to].master = v.master
      /\ [v EXCEPT !.status = to].parent = v.parent
      /\ [v EXCEPT !.status = to].no = v.no
      /\ [v EXCEPT !.status = to].wef = v.wef
      /\ [v EXCEPT !.status = to].import = v.import
      /\ [v EXCEPT !.status = to].rows = v.rows
  BY <1>2 DEF Version
<1> QED  BY <1>1, <1>3

\* Every step keeps the types.
LEMMA TypeStep ==
    ASSUME TypeOK, Asked, Carries, Numbered, Takes, Makes, [Next]_vars
    PROVE  TypeOK'
<1>0. CASE UNCHANGED vars
  BY <1>0 DEF vars, TypeOK
<1>1. ASSUME NEW r \in Requests, NEW op \in {"UPLOAD", "CONFIRM", "DELETE"},
             NEW i \in Ids \union {"-"}, NEW k \in Keys \union {"-"},
             NEW b \in Books \union {NoBook}, Begin(r, op, i, k, b)
      PROVE  TypeOK'
  <2>1. [op |-> op, id |-> i, key |-> k, book |-> b] \in Job
    BY DEF Job
  <2> QED  BY <1>1, <2>1 DEF Begin, TypeOK, Steps, tables, history
<1>2. ASSUME NEW r \in Requests,
             UNCHANGED <<tables, txn, history>>,
             \E step \in Steps : Goto(r, step)
      PROVE  TypeOK'
  BY <1>2, PassTypes DEF TypeOK, tables, history
<1>3. ASSUME NEW r \in Requests, UNCHANGED <<tables, history>>, End(r)
      PROVE  TypeOK'
  BY <1>3, PassTypes DEF TypeOK, tables, history, Steps
<1>4. ASSUME NEW r \in Requests, StoreImport(r)
      PROVE  TypeOK'
  <2>1. PICK i \in Ids, st \in {"VALIDATION_FAILED", "PREVIEW_READY"} :
           imports' = [imports EXCEPT ![i] = [status |-> st, key |-> job[r].key,
                          book |-> job[r].book, version |-> <<0, 0>>]]
    BY <1>4 DEF StoreImport
  <2>2. [status |-> st, key |-> job[r].key, book |-> job[r].book,
         version |-> <<0, 0>>] \in Import
    BY Types DEF Job, Import
  <2>3. imports' \in [Ids -> Import]
    BY <2>1, <2>2 DEF TypeOK
  <2> QED  BY <1>4, <2>3, PassTypes DEF StoreImport, TypeOK, Steps, history
<1>5. ASSUME NEW r \in Requests, Locate(r)
      PROVE  TypeOK'
  <2>1. LoadedRows(r) \in Seq(SkuRow)
    BY <1>5, BookIsKnown DEF LoadedRows, Locate, Confirming
  <2>2. parents[Book(r).master] \in Nat
    BY <1>5, BookIsKnown, Types DEF Locate, Confirming
  <2>3. [txn[r] EXCEPT !.parent = FoundParent(Book(r).master), !.left = LoadedRows(r)] \in Txn
    BY <2>1, <2>2, Types DEF Txn, FoundParent
  <2>4. txn' = [txn EXCEPT ![r] = [txn[r] EXCEPT
                    !.parent = FoundParent(Book(r).master), !.left = LoadedRows(r)]]
    BY <1>5 DEF Locate, TypeOK
  <2>5. txn' \in [Requests -> Txn]
    BY <2>3, <2>4 DEF TypeOK
  <2> QED  BY <1>5, <2>5, PassTypes DEF Locate, TypeOK, Steps, tables
<1>6. ASSUME NEW r \in Requests, TakeNumber(r)
      PROVE  TypeOK'
  <2>1. NextNo(Book(r).master, txn[r].parent) \in Nat
    <3>1. /\ pc[r] = "numbering" /\ Book(r).master \in Masters
          /\ txn[r].parent \in 0 .. parents[Book(r).master]
      BY <1>6, BookIsKnown DEF TakeNumber, Confirming, Takes, TakesOf
    <3> QED  BY <3>1, NextNumber
  <2>2. txn' \in [Requests -> Txn]
    BY <1>6, <2>1 DEF TakeNumber, TypeOK, Txn
  <2> QED  BY <1>6, <2>2, PassTypes DEF TakeNumber, TypeOK, Steps, tables, history
<1>7. ASSUME NEW r \in Requests, InsertVersion(r)
      PROVE  TypeOK'
  BY <1>2, <1>7 DEF InsertVersion, Steps
<1>8. ASSUME NEW r \in Requests, AddItem(r)
      PROVE  TypeOK'
  BY <1>8, AddShape DEF TypeOK, tables, history
<1>9. ASSUME NEW r \in Requests, Confirm(r)
      PROVE  TypeOK'
  BY <1>9, ConfirmShape, PassTypes DEF TypeOK, Steps
<1>10. ASSUME NEW r \in Requests, Delete(r)
       PROVE  TypeOK'
  <2>1. imports' \in [Ids -> Import]
    BY <1>10, Types DEF Delete, TypeOK, Import
  <2> QED  BY <1>10, <2>1, PassTypes DEF Delete, TypeOK, Steps, history
<1>11. ASSUME NEW v \in versions, Publish(v) \/ Retire(v)
       PROVE  TypeOK'
  BY <1>11, MoveShape DEF TypeOK, history
<1>12. ASSUME NEW r \in Requests,
              LookUpKey(r) \/ ReadForConfirm(r) \/ ReadForDelete(r) \/ Abort(r)
       PROVE  TypeOK'
  BY <1>2, <1>3, <1>12 DEF LookUpKey, ReadForConfirm, ReadForDelete, Abort, Steps
<1> QED
  BY <1>0, <1>1, <1>4, <1>5, <1>6, <1>7, <1>8, <1>9, <1>10, <1>11, <1>12 DEF Next

-----------------------------------------------------------------------------
\* What a request that begins is asked.
LEMMA BeginShape ==
    ASSUME TypeOK, NEW r \in Requests, NEW op, NEW i, NEW k, NEW b, Begin(r, op, i, k, b)
    PROVE  /\ pc[r] = "idle" /\ pc'[r] = "reading"
           /\ job'[r].op = op /\ job'[r].id = i /\ job'[r].book = b
           /\ op # "UPLOAD" => Present(i)
           /\ \A q \in Requests \ {r} : pc'[q] = pc[q] /\ job'[q] = job[q]
           /\ imports' = imports /\ parents' = parents /\ versions' = versions
           /\ skus' = skus /\ txn' = txn /\ overtaken' = overtaken /\ twinned' = twinned
  BY DEF Begin, TypeOK, tables, history

\* A request that goes to its next statement and writes nothing.
Walks(r) ==
    /\ \/ LookUpKey(r) \/ ReadForConfirm(r) \/ ReadForDelete(r) \/ InsertVersion(r)
    /\ pc'[r] # "idle"

LEMMA WalkShape ==
    ASSUME TypeOK, NEW r \in Requests, Walks(r)
    PROVE  /\ job' = job /\ txn' = txn /\ UNCHANGED <<tables, history>>
           /\ \A q \in Requests \ {r} : pc'[q] = pc[q]
           /\ \/ pc[r] = "reading" /\ pc'[r] = "storing" /\ job[r].op = "UPLOAD"
              \/ /\ pc[r] = "reading" /\ pc'[r] = "locating" /\ job[r].op = "CONFIRM"
                 /\ imports[job[r].id].status = "PREVIEW_READY"
              \/ /\ pc[r] = "reading" /\ pc'[r] = "deleting" /\ job[r].op = "DELETE"
                 /\ Present(job[r].id) /\ imports[job[r].id].status # "CONFIRMED"
              \/ /\ pc[r] = "inserting" /\ NumberFree(r)
                 /\ pc'[r] = IF txn[r].left = <<>> THEN "confirming" ELSE "filling"
<1>1. ASSUME End(r)
      PROVE  FALSE
  BY <1>1 DEF Walks, End, TypeOK
<1>2. ASSUME NEW step \in Steps, Goto(r, step)
      PROVE  job' = job /\ pc'[r] = step /\ \A q \in Requests \ {r} : pc'[q] = pc[q]
  BY <1>2, PassTypes
<1> QED
  BY <1>1, <1>2 DEF Walks, LookUpKey, ReadForConfirm, MayConfirm, ReadForDelete,
                    InsertVersion, Steps

\* A request that ends and leaves the tables as they are.
Leaves(r) ==
    /\ End(r) /\ UNCHANGED <<tables, history>>
    /\ pc[r] # "idle"

\* What an upload stores.
LEMMA StoreShape ==
    ASSUME TypeOK, Asked, NEW r \in Requests, StoreImport(r)
    PROVE  /\ pc[r] = "storing" /\ End(r)
           /\ parents' = parents /\ versions' = versions /\ skus' = skus
           /\ overtaken' = overtaken /\ twinned' = twinned
           /\ \E i \in Ids :
                /\ imports[i].status = "UNUSED"
                /\ imports'[i] \in Import /\ imports'[i].book \in Books
                /\ imports'[i].status \in {"VALIDATION_FAILED", "PREVIEW_READY"}
                /\ imports'[i].status = "PREVIEW_READY" => ~HasErrors(imports'[i].book)
                /\ \A j \in Ids \ {i} : imports'[j] = imports[j]
<1>1. PICK i \in Ids :
        /\ imports[i] = Unused
        /\ imports' = [imports EXCEPT ![i] =
              [status  |-> IF HasErrors(job[r].book)
                           THEN "VALIDATION_FAILED" ELSE "PREVIEW_READY",
               key     |-> job[r].key,
               book    |-> job[r].book,
               version |-> <<0, 0>>]]
  BY DEF StoreImport
<1>2. job[r].book \in Books /\ job[r].key \in Keys \union {"-"}
  BY Types DEF StoreImport, Asked, AskedOf, Job
<1>3. PICK st \in {"VALIDATION_FAILED", "PREVIEW_READY"} :
         /\ st = IF HasErrors(job[r].book) THEN "VALIDATION_FAILED" ELSE "PREVIEW_READY"
         /\ st = "PREVIEW_READY" => ~HasErrors(job[r].book)
  OBVIOUS
<1>4. imports' = [imports EXCEPT ![i] = [status |-> st, key |-> job[r].key,
                     book |-> job[r].book, version |-> <<0, 0>>]]
  BY <1>1, <1>3
<1>5. imports'[i] = [status |-> st, key |-> job[r].key, book |-> job[r].book,
                     version |-> <<0, 0>>]
      /\ \A j \in Ids \ {i} : imports'[j] = imports[j]
  BY <1>4 DEF TypeOK
<1>6. imports'[i] \in Import /\ imports'[i].status = st /\ imports'[i].book = job[r].book
  BY <1>2, <1>5 DEF Import
<1>7. imports[i].status = "UNUSED"
  BY <1>1 DEF Unused
<1>8. imports'[i].status = "PREVIEW_READY" => ~HasErrors(imports'[i].book)
  BY <1>3, <1>6
<1> QED  BY <1>2, <1>3, <1>5, <1>6, <1>7, <1>8 DEF StoreImport, history

\* What a deletion leaves.
LEMMA DeleteShape ==
    ASSUME TypeOK, Asked, NEW r \in Requests, Delete(r)
    PROVE  /\ pc[r] = "deleting" /\ End(r) /\ job[r].id \in Ids
           /\ parents' = parents /\ versions' = versions /\ skus' = skus
           /\ overtaken' = overtaken /\ twinned' = twinned
           /\ imports'[job[r].id].status = "DELETED"
           /\ imports'[job[r].id].book = imports[job[r].id].book
           /\ \A j \in Ids \ {job[r].id} : imports'[j] = imports[j]
<1>1. pc[r] = "deleting" /\ job[r].id \in Ids
  BY DEF Delete, Asked, AskedOf
<1>2. imports[job[r].id] \in Import
  BY <1>1, Types
<1> QED  BY <1>1, <1>2 DEF Delete, TypeOK, Import, history

\* What a confirmation finds.
LEMMA LocateShape ==
    ASSUME TypeOK, Asked, NEW r \in Requests, Locate(r)
    PROVE  /\ pc[r] = "locating" /\ pc'[r] = "numbering" /\ job' = job
           /\ \A q \in Requests \ {r} : pc'[q] = pc[q] /\ txn'[q] = txn[q]
           /\ txn'[r].parent = parents[Book(r).master] /\ txn'[r].left = LoadedRows(r)
           /\ txn'[r].items = {} /\ txn'[r].skus = {}
           /\ Book(r).master = "PRODUCT_MASTER" => parents[Book(r).master] <= 1
           /\ Book(r).master # "PRODUCT_MASTER" => LoadedRows(r) # <<>>
           /\ Book(r).master # "PRODUCT_MASTER" /\ parents[Book(r).master] = 0
                 => ~OtherMakes(r, Book(r).master)
           /\ twinned' = (twinned \/ (parents[Book(r).master] = 0
                                         /\ OtherMakes(r, Book(r).master)))
           /\ UNCHANGED <<tables, overtaken>>
<1>1. pc[r] = "locating" /\ txn[r] = NoTxn
  BY DEF Locate, Asked, AskedOf
<1>2. /\ job' = job /\ pc'[r] = "numbering" /\ \A q \in Requests \ {r} : pc'[q] = pc[q]
  BY PassTypes DEF Locate, Steps
<1>3. PICK d : d = [txn[r] EXCEPT !.parent = FoundParent(Book(r).master),
                                  !.left = LoadedRows(r)]
  OBVIOUS
<1>4. txn' = [txn EXCEPT ![r] = d]
  BY <1>3 DEF Locate, TypeOK
<1>5. txn'[r] = d /\ \A q \in Requests \ {r} : txn'[q] = txn[q]
  BY <1>4 DEF TypeOK
<1>6. /\ d.parent = parents[Book(r).master] /\ d.left = LoadedRows(r)
      /\ d.items = {} /\ d.skus = {}
  BY <1>1, <1>3 DEF NoTxn, FoundParent
<1> QED  BY <1>1, <1>2, <1>5, <1>6 DEF Locate

\* The number a confirmation takes.
LEMMA TakeShape ==
    ASSUME TypeOK, NEW r \in Requests, TakeNumber(r)
    PROVE  /\ pc[r] = "numbering" /\ pc'[r] = "inserting" /\ job' = job
           /\ \A q \in Requests \ {r} : pc'[q] = pc[q] /\ txn'[q] = txn[q]
           /\ txn'[r].no = NextNo(Book(r).master, txn[r].parent)
           /\ txn'[r].parent = txn[r].parent /\ txn'[r].left = txn[r].left
           /\ txn'[r].items = txn[r].items /\ txn'[r].skus = txn[r].skus
           /\ UNCHANGED <<tables, history>>
<1>1. /\ job' = job /\ pc'[r] = "inserting" /\ \A q \in Requests \ {r} : pc'[q] = pc[q]
  BY PassTypes DEF TakeNumber, Steps
<1>2. PICK n : n = NextNo(Book(r).master, txn[r].parent)
  OBVIOUS
<1>3. txn' = [txn EXCEPT ![r].no = n]
  BY <1>2 DEF TakeNumber
<1>4. txn[r] \in Txn
  BY Types
<1> QED  BY <1>1, <1>2, <1>3, <1>4 DEF TakeNumber, TypeOK, Txn

\* A step is one of a request or the publication or retirement of a version.
Acts(r) ==
    \/ \E k \in Keys, b \in Books : Begin(r, "UPLOAD", "-", k, b)
    \/ \E i \in Ids, op \in {"CONFIRM", "DELETE"} : Begin(r, op, i, "-", NoBook)
    \/ Walks(r) \/ Leaves(r) \/ StoreImport(r) \/ Locate(r)
    \/ TakeNumber(r) \/ AddItem(r) \/ Confirm(r) \/ Delete(r)

LEMMA Cases ==
    ASSUME TypeOK, [Next]_vars
    PROVE  \/ UNCHANGED vars
           \/ \E v \in versions : Publish(v) \/ Retire(v)
           \/ \E r \in Requests : Acts(r)
<1>1. ASSUME NEW r \in Requests,
             LookUpKey(r) \/ ReadForConfirm(r) \/ ReadForDelete(r) \/ InsertVersion(r)
      PROVE  Walks(r) \/ Leaves(r)
  <2>1. CASE InsertVersion(r)
    <3>1. pc'[r] = IF txn[r].left = <<>> THEN "confirming" ELSE "filling"
      BY <2>1, PassTypes DEF InsertVersion, Steps
    <3> QED  BY <2>1, <3>1 DEF Walks
  <2>2. CASE End(r)
    BY <1>1, <2>2 DEF Leaves, LookUpKey, ReadForConfirm, ReadForDelete, InsertVersion
  <2>3. ASSUME NEW step \in Steps \ {"idle"}, Goto(r, step)
        PROVE  Walks(r)
    BY <1>1, <2>3, PassTypes DEF Walks
  <2> QED
    BY <1>1, <2>1, <2>2, <2>3 DEF LookUpKey, ReadForConfirm, ReadForDelete, Steps
<1>2. ASSUME NEW r \in Requests, Abort(r)
      PROVE  Leaves(r)
  BY <1>2 DEF Abort, Leaves
<1> QED  BY <1>1, <1>2 DEF Next, Acts

\* Requests other than the one that acts stay where they are.
LEMMA OthersStay ==
    ASSUME TypeOK, Asked, Carries, Takes, Makes, NEW r \in Requests, Acts(r),
           NEW q \in Requests \ {r}
    PROVE  pc'[q] = pc[q] /\ job'[q] = job[q] /\ txn'[q] = txn[q]
<1>1. CASE \/ \E k \in Keys, b \in Books : Begin(r, "UPLOAD", "-", k, b)
           \/ \E i \in Ids, op \in {"CONFIRM", "DELETE"} : Begin(r, op, i, "-", NoBook)
  BY <1>1, BeginShape
<1>2. CASE Walks(r) \/ Locate(r) \/ TakeNumber(r) \/ AddItem(r)
  BY <1>2, WalkShape, LocateShape, TakeShape, AddShape
<1>3. CASE Leaves(r) \/ StoreImport(r) \/ Confirm(r) \/ Delete(r)
  BY <1>3, PassTypes, StoreShape, ConfirmShape, DeleteShape DEF Leaves, Steps
<1> QED  BY <1>1, <1>2, <1>3 DEF Acts

\* Publishing and retiring move no request.
LEMMA NobodyActs ==
    ASSUME TypeOK, UNCHANGED vars \/ \E v \in versions : Publish(v) \/ Retire(v)
    PROVE  UNCHANGED <<imports, parents, skus, pc, job, txn, overtaken, twinned>>
  BY MoveShape DEF vars, history

\* An import keeps its workbook, and its status goes forward.
LEMMA ImportsAdvance ==
    ASSUME TypeOK, Asked, Carries, Takes, Makes, [Next]_vars, NEW i \in Ids
    PROVE  /\ imports[i].status # "UNUSED" => /\ imports'[i].status # "UNUSED"
                                              /\ imports'[i].book = imports[i].book
           /\ imports'[i].status # "UNUSED" => imports'[i].book \in Books
           /\ imports[i].status \notin {"UNUSED", "VALIDATION_FAILED"}
                 => imports'[i].status \notin {"UNUSED", "VALIDATION_FAILED"}
           /\ imports[i].status = "DELETED" => imports'[i].status = "DELETED"
<1>1. ASSUME NEW r \in Requests, StoreImport(r)
      PROVE  /\ imports[i].status # "UNUSED" => imports'[i] = imports[i]
             /\ imports'[i].status # "UNUSED" => imports'[i].book \in Books
  BY <1>1, StoreShape DEF Asked
<1>2. ASSUME NEW r \in Requests, Confirm(r)
      PROVE  \/ imports'[i] = imports[i]
             \/ /\ Present(i) /\ imports'[i].status = "CONFIRMED"
                /\ imports'[i].book = imports[i].book /\ imports[i].status # "UNUSED"
  BY <1>2, ConfirmShape DEF Present
<1>3. ASSUME NEW r \in Requests, Delete(r)
      PROVE  \/ imports'[i] = imports[i]
             \/ /\ imports[i].status # "UNUSED" /\ imports'[i].status = "DELETED"
                /\ imports'[i].book = imports[i].book
  BY <1>3, DeleteShape DEF Asked, AskedOf
<1>4. ASSUME NEW r \in Requests, Acts(r)
      PROVE  imports'[i] = imports[i] \/ StoreImport(r) \/ Confirm(r) \/ Delete(r)
  BY <1>4, BeginShape, WalkShape, LocateShape, TakeShape, AddShape
     DEF Acts, Leaves, tables
<1>5. imports'[i] = imports[i] \/ \E r \in Requests : Acts(r)
  BY Cases, NobodyActs
<1>6. \/ imports'[i] = imports[i]
      \/ \E r \in Requests : StoreImport(r) \/ Confirm(r) \/ Delete(r)
  BY <1>4, <1>5
<1> QED  BY <1>1, <1>2, <1>3, <1>6 DEF Asked, Present

\* Every step keeps Asked.
LEMMA AskedStep ==
    ASSUME TypeOK, Asked, Carries, Takes, Makes, [Next]_vars
    PROVE  Asked'
<1>1. \A i \in Ids : imports'[i].status # "UNUSED" => imports'[i].book \in Books
  BY ImportsAdvance
<1>2. ASSUME NEW q \in Requests,
             pc'[q] = pc[q] /\ job'[q] = job[q] /\ txn'[q] = txn[q]
      PROVE  AskedOf(q)'
  BY <1>2, ImportsAdvance DEF Asked, AskedOf, Confirming
<1>3. ASSUME NEW q \in Requests, pc'[q] = "idle" /\ job'[q] = NoJob /\ txn'[q] = NoTxn
      PROVE  AskedOf(q)'
  BY <1>3 DEF AskedOf, NoJob, Confirming
<1>4. ASSUME NEW r \in Requests, NEW op \in {"UPLOAD", "CONFIRM", "DELETE"},
             NEW i \in Ids \union {"-"}, NEW k, NEW b, Begin(r, op, i, k, b),
             IF op = "UPLOAD" THEN b \in Books ELSE i \in Ids
      PROVE  AskedOf(r)'
  BY <1>4, BeginShape DEF Asked, AskedOf, Confirming, Present
<1>5. ASSUME NEW r \in Requests, Walks(r)
      PROVE  AskedOf(r)'
  BY <1>5, WalkShape, ImportsAdvance DEF Asked, AskedOf, Confirming, Present, tables
<1>6. ASSUME NEW r \in Requests, Locate(r) \/ TakeNumber(r) \/ AddItem(r)
      PROVE  AskedOf(r)'
  BY <1>6, LocateShape, TakeShape, AddShape DEF Asked, AskedOf, Confirming, tables
<1>7. ASSUME NEW r \in Requests,
             Leaves(r) \/ StoreImport(r) \/ Confirm(r) \/ Delete(r)
      PROVE  AskedOf(r)'
  BY <1>3, <1>7, PassTypes, StoreShape, ConfirmShape, DeleteShape DEF Leaves, Steps
<1>8. CASE UNCHANGED vars \/ \E v \in versions : Publish(v) \/ Retire(v)
  BY <1>1, <1>2, <1>8, NobodyActs DEF Asked
<1>9. ASSUME NEW r \in Requests, Acts(r)
      PROVE  Asked'
  <2>1. AskedOf(r)'
    BY <1>4, <1>5, <1>6, <1>7, <1>9 DEF Acts
  <2>2. \A q \in Requests \ {r} : AskedOf(q)'
    BY <1>2, <1>9, OthersStay
  <2> QED  BY <1>1, <2>1, <2>2 DEF Asked
<1> QED  BY <1>8, <1>9, Cases

-----------------------------------------------------------------------------
\* Who is overtaken stays so.
LEMMA OvertakenGrows ==
    ASSUME TypeOK, Asked, Carries, Takes, Makes, NEW r \in Requests, Acts(r)
    PROVE  /\ overtaken \subseteq overtaken'
           /\ Confirm(r) \/ overtaken' = overtaken
           /\ Confirm(r) => \A q \in Requests \ {r} :
                 job[q].id = job[r].id /\ pc[q] # "reading" => job[r].id \in overtaken'
<1>1. CASE Confirm(r)
  BY <1>1 DEF Confirm
<1>2. CASE ~Confirm(r)
  BY <1>2, BeginShape, WalkShape, StoreShape, LocateShape, TakeShape, AddShape,
     DeleteShape DEF Acts, Leaves, history
<1> QED  BY <1>1, <1>2

\* Every step keeps Overtakes.
LEMMA OvertakesStep ==
    ASSUME TypeOK, Asked, Carries, Takes, Makes, Overtakes, [Next]_vars
    PROVE  Overtakes'
<1>1. CASE UNCHANGED vars \/ \E v \in versions : Publish(v) \/ Retire(v)
  BY <1>1, NobodyActs DEF Overtakes
<1>2. ASSUME NEW r \in Requests, Acts(r), NEW q \in Requests,
             pc'[q] \in Confirming \union {"deleting"},
             imports'[job'[q].id].status = "CONFIRMED"
      PROVE  job'[q].id \in overtaken'
  <2>1. CASE q # r
    <3>1. pc'[q] = pc[q] /\ job'[q] = job[q] /\ job[q].id \in Ids
      BY <1>2, <2>1, OthersStay DEF Asked, AskedOf, Confirming
    <3>2. CASE imports[job[q].id].status = "CONFIRMED"
      BY <1>2, <3>1, <3>2, OvertakenGrows DEF Overtakes
    <3>3. CASE imports[job[q].id].status # "CONFIRMED"
      <4>1. Confirm(r) /\ job[r].id = job[q].id
        BY <1>2, <3>1, <3>3, BeginShape, WalkShape, StoreShape, LocateShape, TakeShape,
           AddShape, ConfirmShape, DeleteShape DEF Acts, Leaves, tables, Asked, AskedOf,
           Confirming
      <4> QED  BY <1>2, <2>1, <3>1, <4>1, OvertakenGrows DEF Confirming
    <3> QED  BY <3>2, <3>3
  <2>2. CASE q = r
    <3>1. Walks(r) \/ Locate(r) \/ TakeNumber(r) \/ AddItem(r)
      BY <1>2, <2>2, BeginShape, PassTypes, StoreShape, ConfirmShape, DeleteShape
         DEF Acts, Leaves, Confirming, Steps
    <3>2. job' = job /\ imports' = imports /\ overtaken' = overtaken
      BY <3>1, WalkShape, LocateShape, TakeShape, AddShape DEF tables, history
    <3>3. pc[r] \in Confirming
      BY <1>2, <2>2, <3>1, <3>2, WalkShape, LocateShape, TakeShape, AddShape DEF Confirming
    <3> QED  BY <1>2, <2>2, <3>2, <3>3 DEF Overtakes
  <2> QED  BY <2>1, <2>2
<1> QED  BY <1>1, <1>2, Cases DEF Overtakes

\* A confirmed import that nobody overtook stays.
LEMMA FinalStep ==
    ASSUME TypeOK, Asked, Carries, Takes, Makes, Overtakes, [Next]_vars,
           NEW i \in Ids \ overtaken, imports[i].status = "CONFIRMED"
    PROVE  imports'[i] = imports[i]
<1>1. ASSUME NEW r \in Requests, StoreImport(r)
      PROVE  imports'[i] = imports[i]
  BY <1>1, StoreShape
<1>2. ASSUME NEW r \in Requests, Confirm(r)
      PROVE  imports'[i] = imports[i]
  BY <1>2, ConfirmShape DEF Overtakes, Confirming
<1>3. ASSUME NEW r \in Requests, Delete(r)
      PROVE  imports'[i] = imports[i]
  BY <1>3, DeleteShape DEF Overtakes
<1>4. ASSUME NEW r \in Requests, Acts(r)
      PROVE  imports'[i] = imports[i]
  BY <1>1, <1>2, <1>3, <1>4, BeginShape, WalkShape, LocateShape, TakeShape, AddShape
     DEF Acts, Leaves, tables
<1> QED  BY <1>4, Cases, NobodyActs

-----------------------------------------------------------------------------
\* A confirmation keeps its workbook, and a deleted import is not back.
LEMMA BookStays ==
    ASSUME TypeOK, Asked, Carries, Takes, Makes, [Next]_vars,
           NEW q \in Requests, pc[q] \in Confirming, job'[q] = job[q]
    PROVE  Book(q)' = Book(q) /\ (Present(job[q].id)' => Present(job[q].id))
<1>1. job[q].id \in Ids /\ imports[job[q].id].status # "UNUSED"
  BY DEF Asked, AskedOf, Confirming
<1> QED  BY <1>1, ImportsAdvance DEF Book, Present

\* Every step keeps Carries.
LEMMA CarriesStep ==
    ASSUME TypeOK, Asked, Carries, Takes, Makes, [Next]_vars
    PROVE  Carries'
<1>1. ASSUME NEW q \in Requests,
             pc'[q] = pc[q] /\ job'[q] = job[q] /\ txn'[q] = txn[q]
      PROVE  CarriesOf(q)'
  <2>1. CASE pc[q] \in Confirming
    BY <1>1, <2>1, BookStays DEF Carries, CarriesOf
  <2>2. CASE pc[q] \notin Confirming
    BY <1>1, <2>2 DEF CarriesOf, Confirming
  <2> QED  BY <2>1, <2>2
<1>2. ASSUME NEW r \in Requests,
             pc'[r] \notin {"numbering", "inserting", "filling", "confirming"}
      PROVE  CarriesOf(r)'
  BY <1>2 DEF CarriesOf
<1>3. ASSUME NEW r \in Requests, Locate(r)
      PROVE  CarriesOf(r)'
  <2>1. /\ pc'[r] = "numbering" /\ txn'[r].left = LoadedRows(r) /\ txn'[r].items = {}
        /\ job' = job /\ imports' = imports
    BY <1>3, LocateShape DEF tables
  <2>2. Book(r)' = Book(r) /\ Present(job[r].id)' = Present(job[r].id)
    BY <2>1 DEF Book, Present
  <2>3. CASE Present(job[r].id)
    BY <2>1, <2>2, <2>3 DEF CarriesOf, LoadedRows, RowsOf
  <2>4. CASE ~Present(job[r].id)
    BY <2>1, <2>2, <2>4 DEF CarriesOf, LoadedRows
  <2> QED  BY <2>3, <2>4
<1>4. ASSUME NEW r \in Requests, TakeNumber(r) \/ Walks(r)
      PROVE  CarriesOf(r)'
  <2>1. /\ txn'[r].left = txn[r].left /\ txn'[r].items = txn[r].items
        /\ job' = job /\ imports' = imports
    BY <1>4, TakeShape, WalkShape DEF tables
  <2>2. Book(r)' = Book(r) /\ Present(job[r].id)' = Present(job[r].id)
    BY <2>1 DEF Book, Present
  <2>3. CASE pc'[r] \in {"inserting", "filling", "confirming"}
    <3>1. /\ pc[r] \in {"numbering", "inserting"}
          /\ pc'[r] = "confirming" => txn[r].left = <<>>
          /\ pc'[r] = "filling" => txn[r].left # <<>>
      BY <1>4, <2>3, TakeShape, WalkShape
    <3> QED  BY <2>1, <2>2, <2>3, <3>1 DEF Carries, CarriesOf
  <2>4. CASE pc'[r] \notin {"inserting", "filling", "confirming"}
    BY <1>2, <1>4, <2>4, TakeShape, WalkShape
  <2> QED  BY <2>3, <2>4
<1>5. ASSUME NEW r \in Requests, AddItem(r)
      PROVE  CarriesOf(r)'
  <2>1. PICK x : /\ txn'[r].items = txn[r].items \union {x}
                 /\ {txn[r].left[k] : k \in DOMAIN txn[r].left} =
                       {x} \union {txn'[r].left[k] : k \in DOMAIN txn'[r].left}
                 /\ pc[r] = "filling" /\ job' = job /\ imports' = imports
                 /\ pc'[r] = IF txn'[r].left = <<>> THEN "confirming" ELSE "filling"
    BY <1>5, AddShape DEF tables
  <2>2. Book(r)' = Book(r) /\ Present(job[r].id)' = Present(job[r].id)
    BY <2>1 DEF Book, Present
  <2> QED  BY <2>1, <2>2 DEF Carries, CarriesOf
<1>6. ASSUME NEW r \in Requests, Acts(r)
      PROVE  CarriesOf(r)'
  <2>1. CASE Leaves(r) \/ StoreImport(r) \/ Confirm(r) \/ Delete(r)
    BY <1>2, <2>1, PassTypes, StoreShape, ConfirmShape, DeleteShape DEF Leaves, Steps
  <2> QED  BY <1>2, <1>3, <1>4, <1>5, <1>6, <2>1, BeginShape DEF Acts
<1>7. ASSUME NEW r \in Requests, Acts(r)
      PROVE  Carries'
  <2>1. \A q \in Requests \ {r} : CarriesOf(q)'
    BY <1>1, <1>7, OthersStay
  <2> QED  BY <1>6, <1>7, <2>1 DEF Carries
<1>8. CASE UNCHANGED vars \/ \E v \in versions : Publish(v) \/ Retire(v)
  BY <1>1, <1>8, NobodyActs DEF Carries
<1> QED  BY <1>7, <1>8, Cases

-----------------------------------------------------------------------------
\* Of the requests, only a confirmation adds to the tables of versions.
LEMMA OnlyConfirmsAdd ==
    ASSUME TypeOK, Asked, Carries, Takes, Makes, NEW r \in Requests, Acts(r), ~Confirm(r)
    PROVE  parents' = parents /\ versions' = versions /\ skus' = skus
  BY BeginShape, WalkShape, StoreShape, LocateShape, TakeShape, AddShape, DeleteShape
     DEF Acts, Leaves, tables

\* Publishing and retiring change no number.
LEMMA NumbersMoved ==
    ASSUME TypeOK, NEW v \in versions, Publish(v) \/ Retire(v),
           NEW m \in Masters, NEW p \in Nat
    PROVE  Numbers(m, p)' = Numbers(m, p)
<1>1. PICK w \in Version : /\ versions' = (versions \ {v}) \union {w}
                           /\ w.master = v.master /\ w.parent = v.parent /\ w.no = v.no
  BY MoveShape
<1>2. \A n : n \in Numbers(m, p)' <=> n \in Numbers(m, p)
  BY <1>1 DEF Numbers, VersionsOf
<1> QED  BY <1>2

\* Only a confirmation adds a number.
LEMMA NumbersAfter ==
    ASSUME TypeOK, Asked, Carries, Takes, Makes, Numbered, [Next]_vars
    PROVE  \/ /\ parents' = parents
              /\ \A m \in Masters, p \in Nat : Numbers(m, p)' = Numbers(m, p)
           \/ \E r \in Requests : Confirm(r)
<1>1. ASSUME NEW v \in versions, Publish(v) \/ Retire(v), NEW m \in Masters, NEW p \in Nat
      PROVE  Numbers(m, p)' = Numbers(m, p)
  BY <1>1, NumbersMoved
<1>2. ASSUME NEW r \in Requests, Acts(r), ~Confirm(r)
      PROVE  parents' = parents /\ versions' = versions
  BY <1>2, OnlyConfirmsAdd
<1>3. CASE UNCHANGED versions /\ parents' = parents
  BY <1>3 DEF Numbers, VersionsOf
<1> QED  BY <1>1, <1>2, <1>3, Cases, NobodyActs DEF vars

LEMMA NumbersConfirmed ==
    ASSUME TypeOK, Asked, Takes, Makes, NEW r \in Requests, Confirm(r),
           NEW m \in Masters, NEW p \in Nat
    PROVE  Numbers(m, p)' = IF m = Book(r).master /\ p = ParentOf(r)
                            THEN Numbers(m, p) \union {txn[r].no} ELSE Numbers(m, p)
<1>1. /\ versions' = versions \union {NewVersion(r)}
      /\ NewVersion(r).master = Book(r).master /\ NewVersion(r).parent = ParentOf(r)
      /\ NewVersion(r).no = txn[r].no
  BY ConfirmShape DEF NewVersion
<1>2. PICK w : w = NewVersion(r)
  OBVIOUS
<1>3. \A n : n \in Numbers(m, p)' <=>
             \/ n \in Numbers(m, p)
             \/ n = w.no /\ w.master = m /\ w.parent = p
  BY <1>1, <1>2 DEF Numbers, VersionsOf
<1> QED  BY <1>1, <1>2, <1>3

\* The number of a confirmed version follows those of its parent.
LEMMA NumberFollows ==
    ASSUME TypeOK, Asked, Carries, Takes, Makes, Numbered, NEW r \in Requests, Confirm(r)
    PROVE  /\ Book(r).master \in Masters /\ ParentOf(r) \in Nat \ {0}
           /\ ParentOf(r) \in 1 .. parents'[Book(r).master]
           /\ txn[r].parent = 0 => ParentOf(r) \notin 1 .. parents[Book(r).master]
           /\ txn[r].no \notin Numbers(Book(r).master, ParentOf(r))
           /\ txn[r].no \in Nat \ {0}
           /\ Numbers(Book(r).master, ParentOf(r)) \union {txn[r].no} = 1 .. txn[r].no
<1> DEFINE m == Book(r).master
<1>1. /\ pc[r] = "confirming" /\ m \in Masters /\ ParentOf(r) \in 1 .. parents'[m]
  BY ConfirmShape, BookIsKnown DEF Confirming
<1>2. /\ txn[r] \in Txn /\ txn[r].no \in Nat \ {0} /\ txn[r].parent \in 0 .. parents[m]
      /\ parents[m] \in Nat /\ parents'[m] \in Nat
  BY <1>1, Types, ConfirmShape DEF Txn, Takes, TakesOf
<1>3. CASE txn[r].parent = 0
  <2>1. ParentOf(r) = parents[m] + 1 /\ txn[r].no = 1
    BY <1>1, <1>3 DEF ParentOf, Takes, TakesOf
  <2>2. Numbers(m, ParentOf(r)) = {}
    BY <1>2, <2>1 DEF Numbers, VersionsOf, Numbered
  <2>3. {} \union {1} = 1 .. 1
    OBVIOUS
  <2> QED  BY <1>1, <1>2, <2>1, <2>2, <2>3
<1>4. CASE txn[r].parent # 0
  <2>1. /\ ParentOf(r) = txn[r].parent /\ ParentOf(r) \in 1 .. parents[m]
        /\ txn[r].no \notin Numbers(m, ParentOf(r))
        /\ 1 .. (txn[r].no - 1) \subseteq Numbers(m, ParentOf(r))
    BY <1>1, <1>2, <1>4 DEF ParentOf, Takes, TakesOf
  <2>2. PICK n \in Nat \ {0} : Numbers(m, ParentOf(r)) = 1 .. n
    BY <1>1, <2>1 DEF Numbered
  <2>3. txn[r].no = n + 1
    <3>1. txn[r].no \notin 1 .. n /\ 1 .. (txn[r].no - 1) \subseteq 1 .. n
      BY <2>1, <2>2
    <3>2. n + 1 \notin 1 .. (txn[r].no - 1)
      BY <3>1, <2>2
    <3> QED  BY <1>2, <3>1, <3>2
  <2>4. 1 .. n \union {n + 1} = 1 .. (n + 1)
    OBVIOUS
  <2> QED  BY <1>1, <1>2, <1>4, <2>1, <2>2, <2>3, <2>4
<1> QED  BY <1>3, <1>4

\* Every step keeps Numbered.
LEMMA NumberedStep ==
    ASSUME TypeOK, Asked, Carries, Takes, Makes, Numbered, [Next]_vars
    PROVE  Numbered'
<1>1. ASSUME NEW v \in versions, Publish(v) \/ Retire(v)
      PROVE  Numbered'
  <2>1. PICK w \in Version : /\ versions' = (versions \ {v}) \union {w}
                             /\ w.master = v.master /\ w.parent = v.parent /\ w.no = v.no
                             /\ parents' = parents
    BY <1>1, MoveShape
  <2>2. \A u \in versions' : u.parent \in 1 .. parents'[u.master]
    BY <2>1 DEF Numbered
  <2>3. \A u, x \in versions' :
          u.master = x.master /\ u.parent = x.parent /\ u.no = x.no => u = x
    BY <2>1 DEF Numbered
  <2>4. \A m \in Masters, p \in Nat : Numbers(m, p)' = Numbers(m, p)
    BY <1>1, NumbersMoved
  <2>5. \A m \in Masters : \A p \in 1 .. parents'[m] :
           \E n \in Nat \ {0} : Numbers(m, p)' = 1 .. n
    BY <2>1, <2>4, Types DEF Numbered
  <2> QED  BY <2>2, <2>3, <2>5 DEF Numbered
<1>2. ASSUME NEW r \in Requests, Confirm(r)
      PROVE  Numbered'
  <2> DEFINE m == Book(r).master
  <2>0. /\ versions' = versions \union {NewVersion(r)}
        /\ NewVersion(r).master = Book(r).master /\ NewVersion(r).parent = ParentOf(r)
        /\ NewVersion(r).no = txn[r].no
    BY <1>2, ConfirmShape DEF NewVersion
  <2>1. PICK w : w = NewVersion(r) /\ versions' = versions \union {w}
                 /\ w.master = m /\ w.parent = ParentOf(r) /\ w.no = txn[r].no
    BY <2>0
  <2>2. /\ \A k \in Masters : parents[k] \in Nat /\ parents'[k] \in Nat
        /\ \A k \in Masters : parents[k] <= parents'[k]
        /\ \A k \in Masters \ {m} : parents'[k] = parents[k]
        /\ parents'[m] = parents[m] + (IF txn[r].parent = 0 THEN 1 ELSE 0)
    BY <1>2, ConfirmShape, NumberFollows, Types
  <2>3. \A u \in versions' : u.parent \in 1 .. parents'[u.master]
    <3>1. \A u \in versions : u.master \in Masters
      BY Types DEF Version
    <3> QED  BY <1>2, <2>1, <2>2, <3>1, NumberFollows DEF Numbered
  <2>4. \A u \in versions : ~(u.master = w.master /\ u.parent = w.parent /\ u.no = w.no)
    BY <1>2, <2>1, NumberFollows DEF Numbers, VersionsOf
  <2>5. \A u, x \in versions' :
          u.master = x.master /\ u.parent = x.parent /\ u.no = x.no => u = x
    BY <2>1, <2>4 DEF Numbered
  <2>6. ASSUME NEW k \in Masters, NEW p \in 1 .. parents'[k]
        PROVE  \E n \in Nat \ {0} : Numbers(k, p)' = 1 .. n
    <3>1. CASE k = m /\ p = ParentOf(r)
      BY <1>2, <3>1, NumbersConfirmed, NumberFollows
    <3>2. CASE ~(k = m /\ p = ParentOf(r))
      <4>1. Numbers(k, p)' = Numbers(k, p)
        BY <1>2, <2>2, <3>2, NumbersConfirmed
      <4>2. p \in 1 .. parents[k]
        BY <2>2, <3>2 DEF ParentOf
      <4> QED  BY <4>1, <4>2 DEF Numbered
    <3> QED  BY <3>1, <3>2
  <2> QED  BY <2>3, <2>5, <2>6 DEF Numbered
<1>3. CASE versions' = versions /\ parents' = parents
  BY <1>3 DEF Numbered, Numbers, VersionsOf
<1>4. ASSUME NEW r \in Requests, Acts(r), ~Confirm(r)
      PROVE  parents' = parents /\ versions' = versions
  BY <1>4, OnlyConfirmsAdd
<1> QED  BY <1>1, <1>2, <1>3, <1>4, Cases DEF vars

-----------------------------------------------------------------------------
\* Parents and numbers only grow.
LEMMA NumbersGrow ==
    ASSUME TypeOK, Asked, Carries, Takes, Makes, Numbered, [Next]_vars, NEW m \in Masters
    PROVE  /\ parents[m] \in Nat /\ parents'[m] \in Nat /\ parents[m] <= parents'[m]
           /\ \A p \in Nat : Numbers(m, p) \subseteq Numbers(m, p)'
<1>1. ASSUME NEW r \in Requests, Confirm(r)
      PROVE  /\ parents'[m] \in Nat /\ parents[m] <= parents'[m]
             /\ \A p \in Nat : Numbers(m, p) \subseteq Numbers(m, p)'
  <2>1. parents'[m] \in Nat /\ parents[m] <= parents'[m]
    BY <1>1, ConfirmShape, Types
  <2> QED  BY <1>1, <2>1, NumbersConfirmed
<1> QED  BY <1>1, NumbersAfter, Types

\* A confirmation does not take the number another one inserted.
LEMMA NumberStaysFree ==
    ASSUME TypeOK, Asked, Carries, Takes, Makes, Numbered, NEW r \in Requests, Acts(r),
           [Next]_vars,
           NEW q \in Requests \ {r}, pc[q] \in {"filling", "confirming"},
           txn[q].parent # 0
    PROVE  txn[q].no \notin Numbers(Book(q).master, txn[q].parent)'
<1>1. /\ Book(q).master \in Masters /\ txn[q].parent \in Nat
      /\ txn[q].parent \in 0 .. parents[Book(q).master]
      /\ txn[q].no \notin Numbers(Book(q).master, txn[q].parent)
  BY BookIsKnown, Types DEF Takes, TakesOf, Confirming
<1>2. PICK m \in Masters, p \in Nat : m = Book(q).master /\ p = txn[q].parent
  BY <1>1
<1>3. Book(q)' = Book(q) /\ txn'[q] = txn[q]
  BY BookStays, OthersStay DEF Confirming
<1>4. Numbers(Book(q).master, txn[q].parent)' = Numbers(m, p)'
  BY <1>2, <1>3 DEF Numbers, VersionsOf
<1>5. CASE Confirm(r)
  <2>0. txn[q].no \notin Numbers(m, p)
    BY <1>1, <1>2
  <2>1. ASSUME m = Book(r).master, p = ParentOf(r)
        PROVE  txn[q].no # txn[r].no
    <3>1. pc[r] = "confirming" /\ parents[m] \in Nat
      BY <1>5, ConfirmShape, Types
    <3>2. txn[r].parent = txn[q].parent
      BY <1>1, <1>2, <2>1, <3>1 DEF ParentOf
    <3> QED  BY <1>2, <2>1, <3>1, <3>2 DEF Takes
  <2>2. Numbers(m, p)' = IF m = Book(r).master /\ p = ParentOf(r)
                         THEN Numbers(m, p) \union {txn[r].no} ELSE Numbers(m, p)
    BY <1>5, NumbersConfirmed
  <2>3. txn[q].no \notin Numbers(m, p)'
    BY <2>0, <2>1, <2>2
  <2> QED  BY <1>3, <1>4, <2>3
<1>6. CASE ~Confirm(r)
  <2>1. Numbers(m, p)' = Numbers(m, p)
    BY <1>6, OnlyConfirmsAdd DEF Numbers, VersionsOf
  <2> QED  BY <1>1, <1>2, <1>3, <1>4, <2>1
<1> QED  BY <1>5, <1>6

\* What TakesOf says of a request goes on to hold while it waits.
LEMMA TakesWaits ==
    ASSUME TypeOK, Asked, Carries, Takes, Makes, Numbered, NEW r \in Requests, Acts(r),
           [Next]_vars, NEW q \in Requests \ {r}
    PROVE  TakesOf(q)'
<1>1. CASE pc[q] \in {"numbering", "inserting", "filling", "confirming"}
  <2>1. /\ Book(q).master \in Masters /\ txn[q] \in Txn
        /\ Book(q)' = Book(q) /\ pc'[q] = pc[q] /\ txn'[q] = txn[q]
    BY <1>1, BookIsKnown, BookStays, OthersStay, Types DEF Confirming
  <2>2. PICK m \in Masters, p \in Nat : m = Book(q).master /\ p = txn[q].parent
    BY <2>1 DEF Txn
  <2>3. Numbers(Book(q).master, txn[q].parent)' = Numbers(m, p)'
    BY <2>1, <2>2 DEF Numbers, VersionsOf
  <2>4. txn'[q].parent \in 0 .. parents'[Book(q)'.master]
    BY <1>1, <2>1, <2>2, NumbersGrow DEF Takes, TakesOf
  <2>5. ASSUME pc[q] \in {"inserting", "filling", "confirming"}, p # 0
        PROVE  1 .. (txn[q].no - 1) \subseteq Numbers(m, p)'
    BY <2>2, <2>5, NumbersGrow DEF Takes, TakesOf
  <2>6. ASSUME pc[q] \in {"inserting", "filling", "confirming"}
        PROVE  txn[q].no # 0 /\ (p = 0 => txn[q].no = 1)
    BY <2>2, <2>6 DEF Takes, TakesOf
  <2>7. ASSUME pc[q] \in {"filling", "confirming"}, p # 0
        PROVE  txn[q].no \notin Numbers(m, p)'
    BY <2>1, <2>2, <2>3, <2>7, NumberStaysFree
  <2> QED  BY <2>1, <2>2, <2>3, <2>4, <2>5, <2>6, <2>7 DEF TakesOf
<1>2. CASE pc[q] \notin {"numbering", "inserting", "filling", "confirming"}
  BY <1>2, OthersStay DEF TakesOf
<1> QED  BY <1>1, <1>2

\* Every step keeps Takes.
LEMMA TakesStep ==
    ASSUME TypeOK, Asked, Carries, Takes, Makes, Numbered, [Next]_vars
    PROVE  Takes'
<1>1. CASE UNCHANGED vars \/ \E v \in versions : Publish(v) \/ Retire(v)
  <2>1. UNCHANGED <<imports, parents, skus, pc, job, txn>>
    BY <1>1, NobodyActs
  <2>2. \A q \in Requests : Book(q)' = Book(q)
    BY <2>1 DEF Book
  <2>3. ASSUME NEW q \in Requests, pc[q] \in Confirming
        PROVE  Numbers(Book(q).master, txn[q].parent)' =
                  Numbers(Book(q).master, txn[q].parent)
    <3>1. PICK m \in Masters, p \in Nat : m = Book(q).master /\ p = txn[q].parent
      BY <2>3, BookIsKnown, Types DEF Txn
    <3>2. Numbers(m, p)' = Numbers(m, p)
      <4>1. CASE UNCHANGED vars
        BY <4>1 DEF vars, Numbers, VersionsOf
      <4>2. ASSUME NEW v \in versions, Publish(v) \/ Retire(v)
            PROVE  Numbers(m, p)' = Numbers(m, p)
        BY <4>2, NumbersMoved
      <4> QED  BY <1>1, <4>1, <4>2
    <3>3. Numbers(Book(q).master, txn[q].parent)' = Numbers(m, p)'
      BY <2>1, <2>2, <3>1 DEF Numbers, VersionsOf
    <3> QED  BY <3>1, <3>2, <3>3
  <2>4. \A q \in Requests : TakesOf(q)'
    BY <2>1, <2>2, <2>3 DEF Takes, TakesOf, Confirming
  <2> QED  BY <2>1, <2>2, <2>4 DEF Takes
<1>2. ASSUME NEW r \in Requests, Acts(r),
             pc'[r] \notin {"numbering", "inserting", "filling", "confirming"}
      PROVE  TakesOf(r)'
  BY <1>2 DEF TakesOf
<1>3. ASSUME NEW r \in Requests, Locate(r)
      PROVE  TakesOf(r)'
  <2>1. /\ pc[r] = "locating" /\ pc'[r] = "numbering" /\ Book(r).master \in Masters
        /\ txn'[r].parent = parents[Book(r).master] /\ parents' = parents
        /\ job' = job /\ imports' = imports
    BY <1>3, LocateShape, BookIsKnown DEF tables, Confirming
  <2>2. Book(r)' = Book(r) /\ parents[Book(r).master] \in Nat
    BY <2>1, Types DEF Book
  <2> QED  BY <2>1, <2>2 DEF TakesOf
<1>4. ASSUME NEW r \in Requests, TakeNumber(r)
      PROVE  TakesOf(r)'
  <2>1. /\ pc[r] = "numbering" /\ pc'[r] = "inserting" /\ Book(r).master \in Masters
        /\ txn'[r].no = NextNo(Book(r).master, txn[r].parent)
        /\ txn'[r].parent = txn[r].parent /\ parents' = parents /\ versions' = versions
        /\ job' = job /\ imports' = imports
    BY <1>4, TakeShape, BookIsKnown DEF tables, Confirming
  <2>2. Book(r)' = Book(r) /\ txn[r].parent \in 0 .. parents[Book(r).master]
    BY <2>1 DEF Book, Takes, TakesOf
  <2>3. PICK m \in Masters, p \in Nat :
           m = Book(r).master /\ p = txn[r].parent /\ p \in 0 .. parents[m]
    BY <2>1, <2>2, Types DEF Txn
  <2>4. /\ NextNo(m, p) \in Nat \ {0} /\ (p = 0 => NextNo(m, p) = 1)
        /\ p # 0 => Numbers(m, p) = 1 .. (NextNo(m, p) - 1)
    BY <2>3, NextNumber
  <2>5. Numbers(Book(r).master, txn[r].parent)' = Numbers(m, p)
    BY <2>1, <2>2, <2>3 DEF Numbers, VersionsOf
  <2>6. txn'[r].no = NextNo(m, p)
    BY <2>1, <2>3
  <2> QED  BY <2>1, <2>2, <2>3, <2>4, <2>5, <2>6 DEF TakesOf
<1>5. ASSUME NEW r \in Requests, Walks(r) \/ AddItem(r),
             pc'[r] \in {"filling", "confirming"}
      PROVE  /\ TakesOf(r)'
             /\ \A q \in Requests \ {r} :
                   /\ pc'[q] \in {"filling", "confirming"}
                   /\ Book(q)'.master = Book(r)'.master
                   /\ txn'[q].parent = txn'[r].parent /\ txn'[r].parent # 0
                   => txn'[q].no # txn'[r].no
  <2>1. /\ txn'[r].no = txn[r].no /\ txn'[r].parent = txn[r].parent
        /\ pc[r] \in {"inserting", "filling"} /\ job' = job
        /\ imports' = imports /\ parents' = parents /\ versions' = versions
        /\ \A q \in Requests \ {r} : pc'[q] = pc[q] /\ txn'[q] = txn[q]
    BY <1>5, WalkShape, AddShape DEF tables
  <2>2. \A q \in Requests : Book(q)' = Book(q)
    BY <2>1 DEF Book
  <2>3. Numbers(Book(r).master, txn[r].parent)' = Numbers(Book(r).master, txn[r].parent)
    BY <2>1, <2>2 DEF Numbers, VersionsOf
  <2>4. CASE pc[r] = "inserting"
    <3>1. NumberFree(r)
      BY <1>5, <2>4, WalkShape, AddShape
    <3>2. txn[r].parent # 0 => txn[r].no \notin Numbers(Book(r).master, txn[r].parent)
      BY <3>1 DEF NumberFree, Numbers
    <3>3. TakesOf(r)'
      BY <2>1, <2>2, <2>3, <2>4, <3>2 DEF Takes, TakesOf
    <3> QED  BY <2>1, <2>2, <3>1, <3>3 DEF NumberFree
  <2>5. CASE pc[r] = "filling"
    <3>1. TakesOf(r)'
      BY <2>1, <2>2, <2>3, <2>5 DEF Takes, TakesOf
    <3> QED  BY <2>1, <2>2, <2>5, <3>1 DEF Takes
  <2> QED  BY <2>1, <2>4, <2>5
<1>6. ASSUME NEW r \in Requests, Acts(r)
      PROVE  Takes'
  <2>1. \A q \in Requests \ {r} :
           TakesOf(q)' /\ pc'[q] = pc[q] /\ txn'[q] = txn[q]
           /\ (pc[q] \in Confirming => Book(q)' = Book(q))
    BY <1>6, TakesWaits, OthersStay, BookStays, Cases
  <2>2. CASE Locate(r) \/ TakeNumber(r)
    <3>1. pc'[r] \notin {"filling", "confirming"}
      BY <2>2, LocateShape, TakeShape
    <3> QED  BY <1>3, <1>4, <2>1, <2>2, <3>1 DEF Takes, Confirming
  <2>3. CASE (Walks(r) \/ AddItem(r)) /\ pc'[r] \in {"filling", "confirming"}
    BY <1>5, <2>1, <2>3 DEF Takes, Confirming
  <2>4. CASE pc'[r] \notin {"numbering", "inserting", "filling", "confirming"}
    BY <1>2, <1>6, <2>1, <2>4 DEF Takes, Confirming
  <2>5. \/ Locate(r) \/ TakeNumber(r)
        \/ (Walks(r) \/ AddItem(r)) /\ pc'[r] \in {"filling", "confirming"}
        \/ pc'[r] \notin {"numbering", "inserting", "filling", "confirming"}
    <3>1. CASE Walks(r) \/ AddItem(r)
      BY <3>1, WalkShape, AddShape
    <3>2. CASE Leaves(r) \/ StoreImport(r) \/ Confirm(r) \/ Delete(r)
      BY <3>2, PassTypes, StoreShape, ConfirmShape, DeleteShape DEF Leaves, Steps
    <3> QED  BY <1>6, <3>1, <3>2, BeginShape DEF Acts
  <2> QED  BY <2>2, <2>3, <2>4, <2>5
<1> QED  BY <1>1, <1>6, Cases

-----------------------------------------------------------------------------
\* A row gives its SKU a configuration.
LEMMA RowsHaveModels ==
    \A x \in SkuRow : x.sku \in SkuCodes /\ x.model \in Models /\ x.model # NoModel
  BY BooksHaveRows DEF SkuRow

\* The catalogue as a transaction sees it, now and after a step.
LEMMA SeenNow ==
    ASSUME NEW r \in Requests, NEW c,
           \A x, y \in txn[r].skus : x.sku = y.sku => x = y
    PROVE  /\ \A x \in txn[r].skus : x.sku = c => ModelSeen(r, c) = x.model
           /\ (\A x \in txn[r].skus : x.sku # c) => ModelSeen(r, c) = skus[c]
  BY DEF ModelSeen

LEMMA SeenThen ==
    ASSUME NEW r \in Requests, NEW c,
           \A x, y \in txn'[r].skus : x.sku = y.sku => x = y
    PROVE  /\ \A x \in txn'[r].skus : x.sku = c => ModelSeen(r, c)' = x.model
           /\ (\A x \in txn'[r].skus : x.sku # c) => ModelSeen(r, c)' = skus'[c]
  BY DEF ModelSeen

\* The catalogue keeps what it has.
LEMMA CatalogueGrows ==
    ASSUME TypeOK, Asked, Carries, Takes, Makes, [Next]_vars,
           NEW c \in SkuCodes, skus[c] # NoModel
    PROVE  skus'[c] = skus[c]
<1>1. ASSUME NEW r \in Requests, Confirm(r)
      PROVE  skus'[c] = skus[c]
  BY <1>1, ConfirmShape, SeenNow DEF Makes, MakesOf
<1> QED  BY <1>1, Cases, NobodyActs, OnlyConfirmsAdd

\* What a request that waits sees of a known SKU does not change.
LEMMA SeenStays ==
    ASSUME TypeOK, Asked, Carries, Takes, Makes, [Next]_vars,
           NEW q \in Requests, txn'[q] = txn[q],
           NEW c \in SkuCodes, ModelSeen(q, c) # NoModel
    PROVE  ModelSeen(q, c)' = ModelSeen(q, c)
<1>1. \A x, y \in txn[q].skus : x.sku = y.sku => x = y
  BY DEF Makes, MakesOf
<1>2. CASE \E x \in txn[q].skus : x.sku = c
  BY <1>1, <1>2, SeenNow, SeenThen
<1>3. CASE \A x \in txn[q].skus : x.sku # c
  BY <1>1, <1>3, SeenNow, SeenThen, CatalogueGrows
<1> QED  BY <1>2, <1>3

\* A confirmation adds no SKU that another transaction makes.
LEMMA NewStaysNew ==
    ASSUME TypeOK, Asked, Carries, Takes, Makes, NEW r \in Requests, Acts(r),
           NEW q \in Requests \ {r}, NEW x \in txn[q].skus
    PROVE  skus'[x.sku] = NoModel
<1>1. skus[x.sku] = NoModel /\ x.sku \in SkuCodes
  BY Types, RowsHaveModels DEF Makes, MakesOf, Txn
<1>2. CASE Confirm(r)
  <2>1. \A y \in txn[r].skus : y.sku # x.sku
    BY DEF Makes, MakesOf
  <2> QED  BY <1>1, <1>2, <2>1, ConfirmShape, SeenNow DEF Makes, MakesOf
<1> QED  BY <1>1, <1>2, OnlyConfirmsAdd

\* Every step keeps Makes.
LEMMA MakesStep ==
    ASSUME TypeOK, Asked, Carries, Takes, Makes, [Next]_vars
    PROVE  Makes'
<1>1. ASSUME NEW q \in Requests, pc'[q] = pc[q] /\ job'[q] = job[q] /\ txn'[q] = txn[q],
             NEW x \in txn[q].items
      PROVE  IF Book(q)'.master = "PRODUCT_MASTER"
             THEN ModelSeen(q, x.sku)' = x.model
             ELSE ModelSeen(q, x.sku)' # NoModel
  <2>1. pc[q] \in Confirming
    BY <1>1 DEF Asked, AskedOf, NoTxn, Confirming, Steps, TypeOK
  <2>2. Book(q)' = Book(q)
    BY <1>1, <2>1, BookStays
  <2>3. x.sku \in SkuCodes /\ x.model # NoModel
    BY <1>1, Types, RowsHaveModels DEF Txn
  <2>4. ModelSeen(q, x.sku) # NoModel
    BY <1>1, <2>3 DEF Makes, MakesOf
  <2>5. ModelSeen(q, x.sku)' = ModelSeen(q, x.sku)
    BY <1>1, <2>3, <2>4, SeenStays
  <2> QED  BY <1>1, <2>2, <2>4, <2>5 DEF Makes, MakesOf
<1>2. CASE UNCHANGED vars \/ \E v \in versions : Publish(v) \/ Retire(v)
  <2>1. UNCHANGED <<skus, pc, job, txn>>
    BY <1>2, NobodyActs
  <2> QED  BY <1>1, <2>1 DEF Makes, MakesOf
<1>3. ASSUME NEW r \in Requests, AddItem(r)
      PROVE  MakesOf(r)'
  <2>1. PICK x \in SkuRow :
           /\ x.sku \in SkuCodes /\ x.model # NoModel
           /\ txn'[r].items = txn[r].items \union {x}
           /\ \/ Resolves(r, x) /\ txn'[r].skus = txn[r].skus
              \/ /\ Book(r).master = "PRODUCT_MASTER" /\ Creates(r, x)
                 /\ txn'[r].skus = txn[r].skus \union {x}
           /\ skus' = skus /\ job' = job /\ imports' = imports
           /\ \A q \in Requests \ {r} : txn'[q] = txn[q]
    BY <1>3, AddShape, RowsHaveModels DEF tables
  <2>2. Book(r)' = Book(r)
    BY <2>1 DEF Book
  <2>3. /\ MakesOf(r)
        /\ \A c : /\ \A y \in txn[r].skus : y.sku = c => ModelSeen(r, c) = y.model
                  /\ (\A y \in txn[r].skus : y.sku # c) => ModelSeen(r, c) = skus[c]
        /\ \A y \in txn[r].skus : y.model # NoModel
        /\ \A y \in txn[r].items : y.model # NoModel
    BY SeenNow, Types, RowsHaveModels DEF Makes, MakesOf, Txn
  <2>4. CASE Resolves(r, x) /\ txn'[r].skus = txn[r].skus
    <3>1. \A c : ModelSeen(r, c)' = ModelSeen(r, c)
      BY <2>1, <2>4 DEF ModelSeen
    <3> QED  BY <2>1, <2>2, <2>3, <2>4, <3>1 DEF MakesOf, Resolves
  <2>5. CASE /\ Book(r).master = "PRODUCT_MASTER" /\ Creates(r, x)
             /\ txn'[r].skus = txn[r].skus \union {x}
    <3>1. \A y \in txn[r].skus : y.sku # x.sku
      BY <2>3, <2>5 DEF Creates
    <3>2. skus[x.sku] = NoModel
      BY <2>3, <2>5, <3>1 DEF Creates
    <3>3. \A y, z \in txn'[r].skus : y.sku = z.sku => y = z
      BY <2>3, <2>5, <3>1 DEF MakesOf
    <3>4. \A q \in Requests \ {r} : \A y \in txn'[r].skus, z \in txn[q].skus : y.sku # z.sku
      BY <2>3, <2>5 DEF MakesOf, Creates, SkuFree
    <3>5. ModelSeen(r, x.sku)' = x.model
      BY <2>5, <3>3, SeenThen
    <3>6. ASSUME NEW y \in txn[r].items
          PROVE  ModelSeen(r, y.sku)' = y.model
      <4>1. ModelSeen(r, y.sku) = y.model /\ y.model # NoModel
        BY <2>3, <2>5, <3>6 DEF MakesOf
      <4>2. y.sku # x.sku
        BY <2>5, <4>1 DEF Creates
      <4>3. CASE \E z \in txn[r].skus : z.sku = y.sku
        BY <2>3, <2>5, <3>3, <4>1, <4>3, SeenThen
      <4>4. CASE \A z \in txn[r].skus : z.sku # y.sku
        BY <2>1, <2>3, <2>5, <3>3, <4>1, <4>2, <4>4, SeenThen
      <4> QED  BY <4>3, <4>4
    <3> QED  BY <2>1, <2>2, <2>3, <2>5, <3>2, <3>3, <3>4, <3>5, <3>6 DEF MakesOf
  <2> QED  BY <2>1, <2>4, <2>5
<1>4. ASSUME NEW r \in Requests, Acts(r)
      PROVE  Makes'
  <2>1. \A q \in Requests \ {r} : pc'[q] = pc[q] /\ job'[q] = job[q] /\ txn'[q] = txn[q]
    BY <1>4, OthersStay
  <2>2. ASSUME NEW q \in Requests \ {r}
        PROVE  /\ \A x \in txn'[q].skus : skus'[x.sku] = NoModel
               /\ \A x, y \in txn'[q].skus : x.sku = y.sku => x = y
               /\ \A x \in txn'[q].items :
                    IF Book(q)'.master = "PRODUCT_MASTER"
                    THEN ModelSeen(q, x.sku)' = x.model
                    ELSE ModelSeen(q, x.sku)' # NoModel
    BY <1>1, <1>4, <2>1, NewStaysNew DEF Makes, MakesOf
  <2>3. \A p, q \in Requests \ {r} : p # q =>
           \A x \in txn'[p].skus, y \in txn'[q].skus : x.sku # y.sku
    BY <2>1 DEF Makes, MakesOf
  <2>4. CASE AddItem(r)
    BY <1>3, <2>1, <2>2, <2>3, <2>4 DEF Makes, MakesOf
  <2>5. CASE txn'[r].skus = {} /\ txn'[r].items = {}
    BY <2>2, <2>3, <2>5 DEF Makes, MakesOf
  <2>6. CASE Walks(r) \/ TakeNumber(r)
    <3>1. /\ txn'[r].skus = txn[r].skus /\ txn'[r].items = txn[r].items
          /\ skus' = skus /\ job' = job /\ imports' = imports
      BY <2>6, WalkShape, TakeShape DEF tables
    <3>2. Book(r)' = Book(r) /\ \A c : ModelSeen(r, c)' = ModelSeen(r, c)
      BY <3>1 DEF Book, ModelSeen
    <3>3. MakesOf(r)'
      BY <2>1, <3>1, <3>2 DEF Makes, MakesOf
    <3> QED  BY <2>2, <2>3, <3>1, <3>3 DEF Makes, MakesOf
  <2>7. CASE \/ Leaves(r) \/ StoreImport(r) \/ Confirm(r) \/ Delete(r) \/ Locate(r)
             \/ pc'[r] = "reading" /\ pc[r] = "idle" /\ txn' = txn
    <3>1. txn'[r] = NoTxn \/ (txn'[r].skus = {} /\ txn'[r].items = {})
      BY <2>7, PassTypes, StoreShape, ConfirmShape, DeleteShape, LocateShape
         DEF Leaves, Steps, Asked, AskedOf
    <3> QED  BY <2>5, <3>1 DEF NoTxn
  <2> QED  BY <1>4, <2>4, <2>6, <2>7, BeginShape DEF Acts
<1> QED  BY <1>2, <1>4, Cases

-----------------------------------------------------------------------------
\* Numbers that run from 1 without a duplicate are dense.
LEMMA Dense ==
    ASSUME TypeOK, Numbered
    PROVE  NumbersAreDense
<1> SUFFICES ASSUME NEW m \in Masters, NEW p \in 1 .. parents[m]
             PROVE  /\ Numbers(m, p) = 1 .. Cardinality(VersionsOf(m, p))
                    /\ VersionsOf(m, p) # {}
  BY Zenon DEF NumbersAreDense, Numbers
<1>1. PICK n \in Nat \ {0} : Numbers(m, p) = 1 .. n
  BY DEF Numbered
<1> DEFINE f == [k \in 1 .. n |-> CHOOSE v \in VersionsOf(m, p) : v.no = k]
<1>2. ASSUME NEW k \in 1 .. n
      PROVE  f[k] \in VersionsOf(m, p) /\ f[k].no = k
  <2>1. \E v \in VersionsOf(m, p) : v.no = k
    BY <1>1 DEF Numbers
  <2> QED  BY <2>1
<1>3. \A v \in VersionsOf(m, p) : v.no \in 1 .. n
  BY <1>1 DEF Numbers
<1>4. \A v, w \in VersionsOf(m, p) : v.no = w.no => v = w
  BY DEF Numbered, VersionsOf
<1>5. f \in [1 .. n -> VersionsOf(m, p)]
  BY <1>2
<1> HIDE DEF f
<1>6. f \in Bijection(1 .. n, VersionsOf(m, p))
  <2>1. \A a, b \in 1 .. n : f[a] = f[b] => a = b
    BY <1>2
  <2>2. \A v \in VersionsOf(m, p) : \E k \in 1 .. n : f[k] = v
    BY <1>2, <1>3, <1>4
  <2> QED  BY <1>5, <2>1, <2>2, Fun_IsBij
<1>7. Cardinality(VersionsOf(m, p)) = n
  <2>1. ExistsBijection(1 .. n, VersionsOf(m, p))
    BY <1>6 DEF ExistsBijection
  <2> QED  BY <2>1, FS_CountingElements
<1>8. VersionsOf(m, p) # {}
  BY <1>2
<1> QED  BY <1>1, <1>7, <1>8

\* The version a confirmation makes holds the rows of its workbook.
LEMMA VersionHasItsRows ==
    ASSUME TypeOK, Asked, Carries, Takes, Makes, NEW r \in Requests, Confirm(r)
    PROVE  /\ NewVersion(r).master = Book(r).master /\ NewVersion(r).wef = Book(r).wef
           /\ NewVersion(r).parent = ParentOf(r) /\ NewVersion(r).no = txn[r].no
           /\ NewVersion(r).import = job[r].id /\ NewVersion(r).status = "DRAFT"
           /\ NewVersion(r).rows = txn[r].items /\ txn[r].items = RowsOf(Book(r))
<1>1. pc[r] = "confirming" /\ Present(job[r].id)
  BY DEF Confirm, StillThere
<1>2. txn[r].left = <<>>
  BY <1>1 DEF Carries, CarriesOf
<1>3. {txn[r].left[k] : k \in DOMAIN txn[r].left} = {}
  BY <1>2
<1>4. txn[r].items = RowsOf(Book(r))
  BY <1>1, <1>3 DEF Carries, CarriesOf
<1> QED  BY <1>4 DEF NewVersion

\* Every version is still there after a step, perhaps with another status.
LEMMA VersionsStay ==
    ASSUME TypeOK, Asked, Carries, Takes, Makes, [Next]_vars, NEW v \in versions
    PROVE  \E w \in versions' :
              /\ w.master = v.master /\ w.parent = v.parent /\ w.no = v.no
              /\ w.wef = v.wef /\ w.import = v.import /\ w.rows = v.rows
              /\ v.status \in {"PUBLISHED", "RETIRED"} => w.status \in {"PUBLISHED", "RETIRED"}
<1>1. ASSUME NEW r \in Requests, Acts(r)
      PROVE  v \in versions'
  BY <1>1, OnlyConfirmsAdd, ConfirmShape
<1>2. ASSUME NEW u \in versions, Publish(u) \/ Retire(u)
      PROVE  \/ v \in versions'
             \/ \E w \in versions' :
                  /\ w.master = v.master /\ w.parent = v.parent /\ w.no = v.no
                  /\ w.wef = v.wef /\ w.import = v.import /\ w.rows = v.rows
                  /\ v.status \in {"PUBLISHED", "RETIRED"}
                        => w.status \in {"PUBLISHED", "RETIRED"}
  BY <1>2, MoveShape
<1>3. CASE UNCHANGED vars
  BY <1>3 DEF vars
<1> QED  BY <1>1, <1>2, <1>3, Cases

\* And every version after a step was there, or is the one just confirmed.
LEMMA VersionsCome ==
    ASSUME TypeOK, Asked, Carries, Takes, Makes, [Next]_vars, NEW w \in versions'
    PROVE  \/ \E v \in versions :
                 /\ w.master = v.master /\ w.wef = v.wef
                 /\ w.import = v.import /\ w.rows = v.rows
           \/ \E r \in Requests : Confirm(r) /\ w = NewVersion(r)
<1>1. ASSUME NEW r \in Requests, Acts(r)
      PROVE  w \in versions \/ (Confirm(r) /\ w = NewVersion(r))
  BY <1>1, OnlyConfirmsAdd, ConfirmShape
<1>2. ASSUME NEW u \in versions, Publish(u) \/ Retire(u)
      PROVE  \E v \in versions : /\ w.master = v.master /\ w.wef = v.wef
                                 /\ w.import = v.import /\ w.rows = v.rows
  BY <1>2, MoveShape
<1>3. CASE UNCHANGED vars
  BY <1>3 DEF vars
<1> QED  BY <1>1, <1>2, <1>3, Cases

\* Every step keeps SkusKeepTheirMeaning.
LEMMA MeaningStep ==
    ASSUME TypeOK, Asked, Carries, Takes, Makes, SkusKeepTheirMeaning, [Next]_vars
    PROVE  SkusKeepTheirMeaning'
<1> SUFFICES ASSUME NEW w \in versions', NEW x \in w.rows
             PROVE  IF w.master = "PRODUCT_MASTER"
                    THEN skus'[x.sku] = x.model ELSE skus'[x.sku] # NoModel
  BY DEF SkusKeepTheirMeaning
<1>1. CASE \E v \in versions : w.master = v.master /\ w.rows = v.rows
  <2>1. PICK v \in versions : w.master = v.master /\ w.rows = v.rows
    BY <1>1
  <2>2. x.sku \in SkuCodes /\ x.model # NoModel
    BY <2>1, Types, RowsHaveModels DEF Version
  <2>3. skus'[x.sku] = skus[x.sku]
    BY <2>1, <2>2, CatalogueGrows DEF SkusKeepTheirMeaning
  <2> QED  BY <2>1, <2>3 DEF SkusKeepTheirMeaning
<1>2. ASSUME NEW r \in Requests, Confirm(r), w = NewVersion(r)
      PROVE  IF w.master = "PRODUCT_MASTER"
             THEN skus'[x.sku] = x.model ELSE skus'[x.sku] # NoModel
  <2>1. x \in txn[r].items /\ w.master = Book(r).master
    BY <1>2, VersionHasItsRows
  <2>2. x.sku \in SkuCodes
    BY <2>1, Types, RowsHaveModels DEF Txn
  <2>3. skus'[x.sku] = ModelSeen(r, x.sku)
    BY <1>2, <2>2, ConfirmShape
  <2> QED  BY <2>1, <2>3 DEF Makes, MakesOf
<1> QED  BY <1>1, <1>2, VersionsCome

\* Every step keeps ConfirmedExactly.
LEMMA ExactStep ==
    ASSUME TypeOK, Asked, Carries, Takes, Makes, ConfirmedExactly, [Next]_vars
    PROVE  ConfirmedExactly'
<1> DEFINE From(v, i) == /\ v.import = i /\ <<v.parent, v.no>> = imports[i].version
                         /\ v.master = imports[i].book.master
                         /\ v.wef = imports[i].book.wef
                         /\ v.rows = RowsOf(imports[i].book)
<1>1. ASSUME NEW i \in Ids, imports'[i].status = "CONFIRMED"
      PROVE  \/ imports'[i] = imports[i]
             \/ \E r \in Requests : Confirm(r) /\ i = job[r].id
  <2>1. ASSUME NEW r \in Requests, Acts(r)
        PROVE  imports'[i] = imports[i] \/ (Confirm(r) /\ i = job[r].id)
    BY <1>1, <2>1, BeginShape, WalkShape, StoreShape, LocateShape, TakeShape, AddShape,
       ConfirmShape, DeleteShape DEF Acts, Leaves, tables
  <2> QED  BY <2>1, Cases, NobodyActs
<1>2. ASSUME NEW i \in Ids, imports'[i].status = "CONFIRMED", imports'[i] = imports[i]
      PROVE  \E w \in versions' : From(w, i)'
  <2>1. PICK v \in versions : From(v, i)
    BY <1>2 DEF ConfirmedExactly
  <2>2. PICK w \in versions' : /\ w.master = v.master /\ w.parent = v.parent
                               /\ w.no = v.no /\ w.wef = v.wef
                               /\ w.import = v.import /\ w.rows = v.rows
    BY VersionsStay
  <2> QED  BY <1>2, <2>1, <2>2
<1>3. ASSUME NEW r \in Requests, Confirm(r), NEW i \in Ids, i = job[r].id
      PROVE  \E w \in versions' : From(w, i)'
  <2>1. PICK w : w = NewVersion(r)
    OBVIOUS
  <2>2. /\ w \in versions' /\ w.master = Book(r).master /\ w.wef = Book(r).wef
        /\ w.parent = ParentOf(r) /\ w.no = txn[r].no /\ w.import = i
        /\ w.rows = RowsOf(Book(r))
    BY <1>3, <2>1, VersionHasItsRows, ConfirmShape
  <2>3. /\ imports'[i].version = <<ParentOf(r), txn[r].no>>
        /\ imports'[i].book = Book(r)
    BY <1>3, ConfirmShape DEF Book
  <2> QED  BY <2>2, <2>3
<1>4. ASSUME NEW w \in versions'
      PROVE  imports'[w.import].status \in {"CONFIRMED", "DELETED"}
  <2>1. ASSUME NEW r \in Requests, Confirm(r), w = NewVersion(r)
        PROVE  imports'[w.import].status = "CONFIRMED"
    BY <2>1, VersionHasItsRows, ConfirmShape
  <2>2. ASSUME NEW v \in versions, w.import = v.import
        PROVE  imports'[w.import].status \in {"CONFIRMED", "DELETED"}
    <3>1. PICK i \in Ids : i = v.import
      BY Types DEF Version
    <3>2. imports[i].status \in {"CONFIRMED", "DELETED"}
      BY <3>1 DEF ConfirmedExactly
    <3>3. ASSUME NEW r \in Requests, Acts(r)
          PROVE  imports'[i] = imports[i] \/ imports'[i].status \in {"CONFIRMED", "DELETED"}
      BY <3>2, <3>3, BeginShape, WalkShape, StoreShape, LocateShape, TakeShape, AddShape,
         ConfirmShape, DeleteShape DEF Acts, Leaves, tables
    <3>4. imports'[i] = imports[i] \/ imports'[i].status \in {"CONFIRMED", "DELETED"}
      BY <3>3, Cases, NobodyActs
    <3> QED  BY <2>2, <3>1, <3>2, <3>4
  <2> QED  BY <2>1, <2>2, VersionsCome
<1>5. ASSUME NEW i \in Ids, imports'[i].status = "CONFIRMED"
      PROVE  \E w \in versions' : From(w, i)'
  <2>1. CASE imports'[i] = imports[i]
    BY <1>2, <1>5, <2>1
  <2>2. ASSUME NEW r \in Requests, Confirm(r), i = job[r].id
        PROVE  \E w \in versions' : From(w, i)'
    BY <1>3, <2>2
  <2> QED  BY <1>1, <1>5, <2>1, <2>2
<1> QED  BY <1>4, <1>5 DEF ConfirmedExactly

-----------------------------------------------------------------------------
\* A product master version that was published by a day, and has the SKU.
Offered(sku, on) ==
    \E w \in versions : /\ w.master = "PRODUCT_MASTER"
                        /\ w.status \in {"PUBLISHED", "RETIRED"}
                        /\ w.wef <= on
                        /\ sku \in {y.sku : y \in w.rows}

\* What was offered was offered for good.
LEMMA OfferedStays ==
    ASSUME TypeOK, Asked, Carries, Takes, Makes, [Next]_vars,
           NEW sku, NEW on, Offered(sku, on)
    PROVE  Offered(sku, on)'
<1>1. PICK v \in versions : /\ v.master = "PRODUCT_MASTER"
                            /\ v.status \in {"PUBLISHED", "RETIRED"}
                            /\ v.wef <= on
                            /\ sku \in {y.sku : y \in v.rows}
  BY DEF Offered
<1>2. PICK w \in versions' : /\ w.master = v.master /\ w.wef = v.wef /\ w.rows = v.rows
                             /\ w.status \in {"PUBLISHED", "RETIRED"}
  BY <1>1, VersionsStay
<1> QED  BY <1>1, <1>2 DEF Offered

\* A list without errors names SKUs that are offered.
LEMMA ErrorsAreSeen ==
    ASSUME NEW b \in Books, b.master # "PRODUCT_MASTER", ~HasErrors(b),
           NEW x \in RowsOf(b)
    PROVE  Offered(x.sku, b.wef)
<1>1. SkuIsEffective(x.sku, b.wef)
  BY DEF HasErrors, RowIsWrong
<1>2. Winners(b.wef) # {}
  BY <1>1, FS_EmptySet DEF SkuIsEffective
<1>3. PICK v \in Winners(b.wef) : \E y \in v.rows : y.sku = x.sku
  BY <1>1, <1>2 DEF SkuIsEffective
<1> QED  BY <1>3 DEF Winners, Applicable, Offered

\* Every step keeps Based.
LEMMA BasedStep ==
    ASSUME TypeOK, Asked, Carries, Takes, Makes, Based, [Next]_vars
    PROVE  Based'
<1> SUFFICES ASSUME NEW i \in Ids, imports'[i].status \in {"PREVIEW_READY", "CONFIRMED"},
                    imports'[i].book.master # "PRODUCT_MASTER",
                    NEW x \in RowsOf(imports'[i].book),
                    NEW day, day = imports'[i].book.wef
             PROVE  Offered(x.sku, day)'
  BY DEF Based, Offered, RowsOf
<1>1. CASE imports[i].status \in {"PREVIEW_READY", "CONFIRMED"}
  <2>1. imports'[i].book = imports[i].book
    BY <1>1, ImportsAdvance
  <2>2. Offered(x.sku, day)
    BY <1>1, <2>1 DEF Based, Offered
  <2> QED  BY <2>2, OfferedStays
<1>2. CASE imports[i].status \notin {"PREVIEW_READY", "CONFIRMED"}
  <2>1. ASSUME NEW r \in Requests, Acts(r)
        PROVE  StoreImport(r)
    <3>1. ASSUME Confirm(r)
          PROVE  imports'[i] = imports[i]
      <4>1. /\ Present(job[r].id) /\ job[r].id \in Ids
            /\ imports[job[r].id].status \notin {"UNUSED", "VALIDATION_FAILED"}
        BY <3>1, ConfirmShape DEF Asked, AskedOf, Confirming
      <4>2. imports[job[r].id].status \in {"PREVIEW_READY", "CONFIRMED"}
        BY <4>1, Types DEF Present, Import
      <4> QED  BY <1>2, <3>1, <4>2, ConfirmShape
    <3> QED
      BY <1>2, <2>1, <3>1, BeginShape, WalkShape, LocateShape, TakeShape, AddShape,
         DeleteShape DEF Acts, Leaves, tables
  <2>2. PICK r \in Requests : StoreImport(r)
    BY <1>2, <2>1, Cases, NobodyActs
  <2>3. /\ imports'[i].book \in Books /\ versions' = versions
        /\ ~HasErrors(imports'[i].book)
    BY <1>2, <2>2, StoreShape
  <2>4. Offered(x.sku, day)
    BY <2>3, ErrorsAreSeen
  <2> QED  BY <2>3, <2>4 DEF Offered
<1> QED  BY <1>1, <1>2

\* Every step keeps PricesRestOnProducts.
LEMMA PricesStep ==
    ASSUME TypeOK, Asked, Carries, Takes, Makes, Based, PricesRestOnProducts, [Next]_vars
    PROVE  PricesRestOnProducts'
<1> SUFFICES ASSUME NEW w \in versions', NEW x \in w.rows, w.master # "PRODUCT_MASTER"
             PROVE  Offered(x.sku, w.wef)'
  BY DEF PricesRestOnProducts, Offered
<1>1. CASE \E v \in versions : w.master = v.master /\ w.wef = v.wef /\ w.rows = v.rows
  <2>1. PICK v \in versions : w.master = v.master /\ w.wef = v.wef /\ w.rows = v.rows
    BY <1>1
  <2>2. Offered(x.sku, w.wef)
    BY <2>1 DEF PricesRestOnProducts, Offered
  <2> QED  BY <2>2, OfferedStays
<1>2. ASSUME NEW r \in Requests, Confirm(r), w = NewVersion(r)
      PROVE  Offered(x.sku, w.wef)'
  <2>1. /\ w.rows = RowsOf(Book(r)) /\ w.master = Book(r).master /\ w.wef = Book(r).wef
        /\ job[r].id \in Ids /\ pc[r] = "confirming" /\ Present(job[r].id)
    BY <1>2, VersionHasItsRows, ConfirmShape
  <2>2. imports[job[r].id].status \in {"PREVIEW_READY", "CONFIRMED"}
    BY <2>1, Types DEF Asked, AskedOf, Confirming, Present, Import
  <2>3. Offered(x.sku, w.wef)
    BY <2>1, <2>2 DEF Based, Offered, Book
  <2> QED  BY <2>3, OfferedStays
<1> QED  BY <1>1, <1>2, VersionsCome

-----------------------------------------------------------------------------
\* Every step keeps Alone.
LEMMA AloneStep ==
    ASSUME TypeOK, Asked, Carries, Takes, Makes, Alone, [Next]_vars
    PROVE  Alone'
<1>1. ASSUME NEW q \in Requests, NEW m \in Masters,
             pc'[q] = pc[q] /\ job'[q] = job[q] /\ txn'[q] = txn[q]
      PROVE  MakesParent(q, m)' <=> MakesParent(q, m)
  BY <1>1, BookStays DEF MakesParent, Confirming
<1>2. CASE UNCHANGED vars \/ \E v \in versions : Publish(v) \/ Retire(v)
  <2>1. UNCHANGED <<parents, pc, job, txn, twinned>>
    BY <1>2, NobodyActs
  <2> QED  BY <1>1, <2>1 DEF Alone, AloneFor
<1>3. ASSUME NEW r \in Requests, Acts(r), NEW m \in Masters
      PROVE  AloneFor(m)' \/ (m = "PRODUCT_MASTER" /\ twinned')
  <2>1. \A q \in Requests \ {r} : MakesParent(q, m)' <=> MakesParent(q, m)
    BY <1>1, <1>3, OthersStay
  <2>2. CASE Locate(r)
    <3>1. /\ pc[r] = "locating" /\ Book(r)' = Book(r) /\ parents' = parents
          /\ txn'[r].parent = parents[Book(r).master]
          /\ Book(r).master # "PRODUCT_MASTER" /\ parents[Book(r).master] = 0
                => ~OtherMakes(r, Book(r).master)
          /\ twinned' = (twinned \/ (parents[Book(r).master] = 0
                                        /\ OtherMakes(r, Book(r).master)))
      BY <2>2, LocateShape DEF tables, Book
    <3>2. CASE Book(r).master = m /\ parents[m] = 0
      <4>1. (\E q \in Requests \ {r} : MakesParent(q, m)) => OtherMakes(r, m)
        BY DEF MakesParent, OtherMakes
      <4> QED  BY <2>1, <3>1, <3>2, <4>1 DEF Alone, AloneFor
    <3>3. CASE ~(Book(r).master = m /\ parents[m] = 0)
      <4>1. ~MakesParent(r, m)'
        BY <3>1, <3>3 DEF MakesParent
      <4> QED  BY <2>1, <3>1, <4>1 DEF Alone, AloneFor
    <3> QED  BY <3>2, <3>3
  <2>3. CASE Confirm(r)
    <3>1. ~MakesParent(r, m)' /\ twinned' = twinned /\ pc[r] = "confirming"
      BY <2>3, ConfirmShape, PassTypes DEF MakesParent, Steps
    <3>2. ASSUME AloneFor(m), MakesParent(r, m)
          PROVE  AloneFor(m)'
      <4>1. parents'[m] = 1
        BY <2>3, <3>2, ConfirmShape DEF AloneFor, MakesParent
      <4>2. \A q \in Requests : ~MakesParent(q, m)'
        BY <2>1, <3>1, <3>2 DEF AloneFor
      <4> QED  BY <4>1, <4>2 DEF AloneFor
    <3>3. ASSUME AloneFor(m), ~MakesParent(r, m)
          PROVE  AloneFor(m)'
      <4>1. parents'[m] = parents[m]
        BY <2>3, <3>1, <3>3, ConfirmShape, Types DEF MakesParent
      <4> QED  BY <2>1, <3>1, <3>3, <4>1 DEF AloneFor
    <3> QED  BY <3>1, <3>2, <3>3 DEF Alone
  <2>4. CASE ~Locate(r) /\ ~Confirm(r)
    <3>1. MakesParent(r, m)' => MakesParent(r, m)
      <4>1. CASE Walks(r) \/ TakeNumber(r) \/ AddItem(r)
        <5>1. /\ txn'[r].parent = txn[r].parent /\ job' = job /\ imports' = imports
              /\ pc'[r] \in {"inserting", "filling", "confirming"}
                    => pc[r] \in {"numbering", "inserting", "filling"}
              /\ pc'[r] # "numbering"
          BY <4>1, WalkShape, TakeShape, AddShape DEF tables
        <5>2. Book(r)' = Book(r)
          BY <5>1 DEF Book
        <5> QED  BY <5>1, <5>2 DEF MakesParent
      <4>2. CASE Leaves(r) \/ StoreImport(r) \/ Delete(r)
        BY <4>2, PassTypes, StoreShape, DeleteShape DEF Leaves, Steps, MakesParent
      <4> QED  BY <1>3, <2>4, <4>1, <4>2, BeginShape DEF Acts, MakesParent
    <3>2. parents' = parents /\ twinned' = twinned
      BY <1>3, <2>4, OnlyConfirmsAdd, BeginShape, WalkShape, StoreShape, TakeShape,
         AddShape, DeleteShape DEF Acts, Leaves, history
    <3> QED  BY <2>1, <3>1, <3>2 DEF Alone, AloneFor
  <2> QED  BY <2>2, <2>3, <2>4
<1>4. ASSUME NEW r \in Requests, Acts(r)
      PROVE  Alone'
  BY <1>3, <1>4 DEF Alone
<1> QED  BY <1>2, <1>4, Cases

-----------------------------------------------------------------------------
\* The inductive invariant.
IInv ==
    /\ TypeOK /\ Asked /\ Carries /\ Takes /\ Makes /\ Numbered
    /\ Overtakes /\ Based /\ Alone
    /\ SkusKeepTheirMeaning /\ ConfirmedExactly /\ PricesRestOnProducts

\* Nothing is asked, written or numbered at first.
LEMMA InitIInv == Init => IInv
<1> SUFFICES ASSUME Init PROVE IInv
  OBVIOUS
<1>1. TypeOK
  BY TypeInit
<1>2. /\ \A i \in Ids : imports[i].status = "UNUSED"
      /\ \A r \in Requests : pc[r] = "idle" /\ job[r] = NoJob /\ txn[r] = NoTxn
      /\ versions = {} /\ \A m \in Masters : parents[m] = 0
  BY DEF Init, Unused
<1>3. Asked
  BY <1>2 DEF Asked, AskedOf, NoJob, Confirming
<1>4. Carries /\ Takes
  BY <1>2 DEF Carries, CarriesOf, Takes, TakesOf
<1>5. Makes
  BY <1>2 DEF Makes, MakesOf, NoTxn
<1>6. Numbered
  BY <1>2 DEF Numbered
<1>7. Overtakes /\ Alone
  BY <1>2 DEF Overtakes, Confirming, Alone, AloneFor, MakesParent
<1>8. Based /\ SkusKeepTheirMeaning /\ ConfirmedExactly /\ PricesRestOnProducts
  BY <1>2 DEF Based, SkusKeepTheirMeaning, ConfirmedExactly, PricesRestOnProducts
<1> QED  BY <1>1, <1>3, <1>4, <1>5, <1>6, <1>7, <1>8 DEF IInv

\* Every step keeps it.
LEMMA NextIInv == IInv /\ [Next]_vars => IInv'
  BY TypeStep, AskedStep, CarriesStep, TakesStep, MakesStep, NumberedStep, OvertakesStep,
     BasedStep, AloneStep, MeaningStep, ExactStep, PricesStep DEF IInv

LEMMA Inductive == Spec => []IInv
  BY InitIInv, NextIInv, PTL DEF Spec

\* The tables and what the transactions hold keep their types.
THEOREM TypeCorrect == Spec => []TypeOK
<1>1. IInv => TypeOK
  BY DEF IInv
<1> QED  BY <1>1, Inductive, PTL

\* However many confirmations compute MAX(version_no) + 1 at once, the versions
\* of a product master, price list or discount scheme are numbered 1, 2, 3 ...
THEOREM VersionsAreNumberedDensely == Spec => []NumbersAreDense
<1>1. IInv => NumbersAreDense
  BY Dense DEF IInv
<1> QED  BY <1>1, Inductive, PTL

\* No import gives a SKU another configuration than the one a version rests on.
THEOREM SkusAreNotReinterpreted == Spec => []SkusKeepTheirMeaning
<1>1. IInv => SkusKeepTheirMeaning
  BY DEF IInv
<1> QED  BY <1>1, Inductive, PTL

\* A confirmation is there completely, with the rows of its workbook, or not at
\* all.
THEOREM ConfirmationIsAtomic == Spec => []ConfirmedExactly
<1>1. IInv => ConfirmedExactly
  BY DEF IInv
<1> QED  BY <1>1, Inductive, PTL

\* What validation saw of the product masters still supports the list when it
\* is confirmed later.
THEOREM PricesHaveProducts == Spec => []PricesRestOnProducts
<1>1. IInv => PricesRestOnProducts
  BY DEF IInv
<1> QED  BY <1>1, Inductive, PTL

\* A second product master comes only of two first confirmations at once, and
\* a second price list or discount scheme never.
THEOREM SecondMasterOnlyByARace == Spec => []SecondMasterWasRaced
<1>1. IInv => SecondMasterWasRaced
  BY DEF IInv, Alone, AloneFor, SecondMasterWasRaced
<1> QED  BY <1>1, Inductive, PTL

\* A confirmed import that no other request had read before its confirmation is
\* never changed or deleted.
THEOREM ConfirmationIsFinal == Spec => LoneConfirmationIsFinal
<1>1. IInv /\ [Next]_vars =>
         \A i \in Ids \ overtaken : imports[i].status = "CONFIRMED" =>
            imports'[i] = imports[i]
  BY FinalStep DEF IInv
<1>2. IInv /\ [Next]_vars =>
         [\A i \in Ids \ overtaken : imports[i].status = "CONFIRMED" =>
             imports'[i] = imports[i]]_vars
  BY <1>1
<1> QED  BY <1>2, Inductive, PTL DEF Spec, LoneConfirmationIsFinal
================================================================================
