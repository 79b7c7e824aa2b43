--------------------------- MODULE BusinessRecords ---------------------------
(***************************************************************************)
(* The business data of a journey and the rows around it: what the write   *)
(* handlers of bookings.py, commercials.py, vehicle_delivery.py,           *)
(* insurance_tradein.py, payments_finance.py, findings.py, customers.py,   *)
(* journeys.py and dealers.py leave in their tables when requests overlap. *)
(*                                                                         *)
(* A handler is one READ COMMITTED transaction, and here the script of its *)
(* statements.  A written row is locked until the transaction ends; a      *)
(* SELECT takes no lock and sees what is committed.                        *)
(*                                                                         *)
(* Transactions are numbered in the order in which they start, so that the *)
(* number is also now(), the created_at_utc of the rows it inserts.  A     *)
(* column holds the number of the transaction whose payload it shows.      *)
(***************************************************************************)
EXTENDS Integers, Sequences, FiniteSets, SequencesExt

CONSTANTS
    N,           \* transactions of a behaviour; a bound of the model
    Named,       \* ids of rows that requests name; a bound of the model
    Components,  \* component keys of commercial lines
    Payloads,    \* sequences of them that a request may bring
    Statuses     \* configured delivery status codes

ASSUME NAssumption == N \in Nat \ {0}
ASSUME KeysAssumption ==
    /\ Named \subseteq 1 .. N
    /\ Components \subseteq Nat /\ Payloads \subseteq Seq(Components)
    /\ Statuses \subseteq Nat \ {0}

VARIABLES
    group,  \* the handlers this behaviour is about
    rows,   \* rows[x]: the committed columns of row x
    phase,  \* phase[n]: new, open, committed or rolled back
    job,    \* job[n]: the script of transaction n and its argument
    since,  \* since[n]: how many transactions had committed when n began
    at,     \* at[n]: how many statements it has executed
    seen,   \* seen[n]: the transaction whose row its SELECT returned, or 0
    mine,   \* mine[n]: the rows it has written and not committed
    log     \* the committed transactions, in commit order

vars == <<group, rows, phase, job, since, at, seen, mine, log>>

Transactions == 1 .. N

-----------------------------------------------------------------------------
(***************************************************************************)
(* Rows.  A journey has one row (key 0) of a table that is unique per      *)
(* journey, and one commercial line per component.  Rows of the other      *)
(* tables have a generated id: the number of their transaction.            *)
(***************************************************************************)
PerJourney == {"journeys", "bookings", "journey_products", "vehicle_records",
               "registration_records", "trade_in_cases", "insurance_records",
               "deliveries"}
Generated  == {"finance_records", "discount_applications", "journey_addons",
               "payments", "payment_verification_events", "audit_findings",
               "finding_evidence", "delivery_status_history", "customers",
               "dealers", "dealer_outlets"}
Versioned  == {"journeys", "bookings", "vehicle_records", "insurance_records",
               "registration_records", "trade_in_cases", "deliveries",
               "payments", "audit_findings", "customers", "dealers",
               "dealer_outlets"}

RowIds == (PerJourney \X {0}) \union ({"commercial_lines"} \X Components)
              \union (Generated \X Transactions)

\* Two groups of columns stand for all: f and g.
Fields == {"f", "g"}
Absent == [f |-> 0, g |-> 0, version |-> 0]
Present(x) == rows[x].version > 0

\* ORDER BY created_at_utc DESC LIMIT 1, over what is committed
Latest(t) ==
    LET Ids == {k \in Transactions : Present(<<t, k>>)}
    IN  IF Ids = {} THEN 0 ELSE CHOOSE k \in Ids : \A j \in Ids : j <= k

-----------------------------------------------------------------------------
(***************************************************************************)
(* Statements.                                                             *)
(*   put      INSERT ... ON CONFLICT (key) DO UPDATE of every column       *)
(*   add      INSERT of a row with a generated id                          *)
(*   update   UPDATE of the supplied columns; no such row is a 404         *)
(*   match    the same, AND version_no = :expected_version                 *)
(*   need     SELECT that a row exists, or 404                             *)
(*   look     SELECT the latest row of a table, or the delivery            *)
(*   save     UPDATE the row looked up, or INSERT one if there was none    *)
(*   observe  INSERT the history row of a new delivery status              *)
(***************************************************************************)
Statement(do, t, k, fs) == [do |-> do, table |-> t, key |-> k, fields |-> fs]
Put(t)           == Statement("put", t, 0, Fields)
Add(t)           == Statement("add", t, 0, Fields)
Update(t, k, fs) == Statement("update", t, k, fs)
Match(t, k, fs)  == Statement("match", t, k, fs)
Need(t, k)       == Statement("need", t, k, {})
Look(t)          == Statement("look", t, 0, {})
Save(t)          == Statement("save", t, 0, Fields)
Observe          == Statement("observe", "delivery_status_history", 0, Fields)

Job(script, arg) == [script |-> script, arg |-> arg]

\* The columns a PATCH may supply; most handlers refuse one without any.
Supplied == SUBSET Fields \ {{}}

\* The handlers; reads that only authorize or validate are left out.
UpsertBooking   == {Job(<<Put("bookings"), Put("journey_products")>>, 0)}
PutVehicle      == {Job(<<Put("vehicle_records")>>, 0)}
PutRegistration == {Job(<<Put("registration_records")>>, 0)}
PutTradeIn      == {Job(<<Put("trade_in_cases")>>, 0)}

\* Without an add-on, with a new one, or with one named by its id.
PutInsurance ==
    LET Addon == {<<>>, <<Add("journey_addons")>>} \union
                     {<<Update("journey_addons", k, Fields)>> : k \in Named}
    IN  {Job(<<Put("insurance_records")>> \o a, 0) : a \in Addon}

\* Lines in the order of the payload, then perhaps a discount.
PutCommercials ==
    LET Line(c)  == Statement("put", "commercial_lines", c, Fields)
        Discount == <<Look("discount_applications"),
                      Save("discount_applications")>>
    IN  {Job([k \in DOMAIN ls |-> Line(ls[k])] \o d, 0) :
            ls \in Payloads, d \in {<<>>, Discount}}

\* The argument is the status in the payload, 0 for none.
PutDelivery ==
    {Job(<<Look("deliveries"), Put("deliveries"), Observe>>, s) :
        s \in Statuses \union {0}}

PutFinance == {Job(<<Look("finance_records"), Save("finance_records")>>, 0)}

CreatePayment == {Job(<<Add("payments")>>, 0)}
PatchPayment ==
    LET Change(k) == {<<Update("payments", k, fs)>> : fs \in Supplied}
        Verify    == <<Add("payment_verification_events")>>
        Body(k)   == Change(k) \union {c \o Verify : c \in Change(k)}
                         \union {Verify}
    IN  UNION {{Job(<<Need("payments", k)>> \o b, 0) : b \in Body(k)} :
                  k \in Named}

CreateFinding ==
    {Job(<<Add("audit_findings")>> \o e, 0) :
        e \in {<<>>, <<Add("finding_evidence")>>}}
PatchFinding ==
    {Job(<<Need("audit_findings", k), Update("audit_findings", k, fs)>>, 0) :
        k \in Named, fs \in Supplied}

CreateCustomer == {Job(<<Add("customers")>>, 0)}
PatchCustomer ==
    {Job(<<Update("customers", k, fs)>>, 0) : k \in Named, fs \in SUBSET Fields}
PatchJourney ==
    {Job(<<Update("journeys", 0, fs)>>, 0) : fs \in SUBSET Fields}

\* The argument is the version in the If-Match header.
CreateDealer == {Job(<<Add("dealers")>>, 0)}
PatchDealer ==
    {Job(<<Match("dealers", k, fs)>>, v) :
        k \in Named, fs \in Supplied, v \in Transactions}
CreateOutlet == {Job(<<Add("dealer_outlets")>>, 0)}
PatchOutlet ==
    {Job(<<Match("dealer_outlets", k, fs)>>, v) :
        k \in Named, fs \in Supplied, v \in Transactions}

(***************************************************************************)
(* Handlers of different groups touch different tables: whatever one does  *)
(* is nothing to another, so a behaviour is about one group.               *)
(***************************************************************************)
Handlers ==
    [booking     |-> UpsertBooking,
     vehicle     |-> PutVehicle \union PutRegistration,
     insurance   |-> PutInsurance \union PutTradeIn,
     commercials |-> PutCommercials,
     delivery    |-> PutDelivery,
     finance     |-> PutFinance,
     payments    |-> CreatePayment \union PatchPayment,
     findings    |-> CreateFinding \union PatchFinding,
     customers   |-> CreateCustomer \union PatchCustomer \union PatchJourney,
     dealers     |-> CreateDealer \union PatchDealer,
     outlets     |-> CreateOutlet \union PatchOutlet]

-----------------------------------------------------------------------------
\* The journey exists; no handler of a fact runs without it.
Born == [Absent EXCEPT !.version = 1]

Init ==
    /\ group \in DOMAIN Handlers
    /\ rows = [x \in RowIds |-> IF x[1] = "journeys" THEN Born ELSE Absent]
    /\ phase = [n \in Transactions |-> "new"]
    /\ job = [n \in Transactions |-> Job(<<>>, 0)]
    /\ since = [n \in Transactions |-> 0]
    /\ at = [n \in Transactions |-> 0]
    /\ seen = [n \in Transactions |-> 0]
    /\ mine = [n \in Transactions |-> <<>>]
    /\ log = <<>>

Begin(n) ==
    /\ phase[n] = "new" /\ \A m \in 1 .. (n - 1) : phase[m] # "new"
    /\ \E j \in Handlers[group] : job' = [job EXCEPT ![n] = j]
    /\ phase' = [phase EXCEPT ![n] = "open"]
    /\ since' = [since EXCEPT ![n] = Len(log)]
    /\ UNCHANGED <<group, rows, at, seen, mine, log>>

More(n)    == phase[n] = "open" /\ at[n] < Len(job[n].script)
Current(n) == job[n].script[at[n] + 1]
Step(n)    == at' = [at EXCEPT ![n] = @ + 1]

\* A row is locked by the open transaction that wrote it.
Free(n, x) == \A m \in Transactions \ {n} : x \notin DOMAIN mine[m]

\* READ COMMITTED: what is committed, or written by the transaction itself.
View(n, x) == IF x \in DOMAIN mine[n] THEN mine[n][x] ELSE rows[x]

MutAllColumns(old, n, fs) == [f |-> n, g |-> n, version |-> old.version + 1]

Revised(old, n, fs) ==
    [f       |-> IF "f" \in fs THEN n ELSE old.f,
     g       |-> IF "g" \in fs THEN n ELSE old.g,
     version |-> old.version + 1]

\* The statement waits until the row is free, then works on what it finds.
WriteRow(n, x, fs) ==
    /\ Free(n, x)
    /\ mine' = [mine EXCEPT ![n] =
          [y \in DOMAIN mine[n] \union {x} |->
              IF y = x THEN Revised(View(n, x), n, fs) ELSE mine[n][y]]]
    /\ Step(n)
    /\ UNCHANGED <<group, rows, phase, job, since, seen, log>>

MutAlwaysInserts(n, s) ==
    IF s.do \in {"add", "observe", "save"} THEN <<s.table, n>>
                                           ELSE <<s.table, s.key>>

\* The row a statement of n is about.
Target(n, s) ==
    CASE s.do \in {"add", "observe"} -> <<s.table, n>>
      [] s.do = "save" -> <<s.table, IF seen[n] = 0 THEN n ELSE seen[n]>>
      [] OTHER -> <<s.table, s.key>>

Write(n) ==
    /\ More(n) /\ Current(n).do \in {"put", "add", "save"}
    /\ WriteRow(n, Target(n, Current(n)), Current(n).fields)

MutAnyVersion(n, s) == View(n, <<s.table, s.key>>).version > 0

\* Does the WHERE clause of an UPDATE find the row?
Hits(n, s) ==
    LET old == View(n, <<s.table, s.key>>)
    IN  /\ old.version > 0
        /\ s.do = "match" => old.version = job[n].arg

Change(n) ==
    /\ More(n) /\ Current(n).do \in {"update", "match"}
    /\ Hits(n, Current(n))
    /\ WriteRow(n, Target(n, Current(n)), Current(n).fields)

MutOldest(t) ==
    LET Ids == {k \in Transactions : Present(<<t, k>>)}
    IN  IF t \notin Generated THEN rows[<<t, 0>>].f
        ELSE IF Ids = {} THEN 0 ELSE CHOOSE k \in Ids : \A j \in Ids : k <= j

\* What a SELECT before a write returns.
Existing(t) == IF t \in Generated THEN Latest(t) ELSE rows[<<t, 0>>].f

LookUp(n) ==
    /\ More(n) /\ Current(n).do = "look"
    /\ seen' = [seen EXCEPT ![n] = Existing(Current(n).table)]
    /\ Step(n)
    /\ UNCHANGED <<group, rows, phase, job, since, mine, log>>

Find(n) ==
    /\ More(n) /\ Current(n).do = "need"
    /\ Present(<<Current(n).table, Current(n).key>>)
    /\ Step(n)
    /\ UNCHANGED <<group, rows, phase, job, since, seen, mine, log>>

\* The status a transaction gave the delivery; 0 is none, as is no delivery.
StatusBy(n) == IF n = 0 THEN 0 ELSE job[n].arg

MutIsChange(n) ==
    job[n].arg # 0 /\ seen[n] # 0 /\ StatusBy(seen[n]) # job[n].arg

\* A status is recorded unless the delivery had it when it was looked up.
IsNews(n) == job[n].arg # 0 /\ StatusBy(seen[n]) # job[n].arg

Record(n) ==
    /\ More(n) /\ Current(n).do = "observe" /\ IsNews(n)
    /\ WriteRow(n, Target(n, Current(n)), Fields)

NoRecord(n) ==
    /\ More(n) /\ Current(n).do = "observe" /\ ~IsNews(n)
    /\ Step(n)
    /\ UNCHANGED <<group, rows, phase, job, since, seen, mine, log>>

End(n, how) ==
    /\ phase' = [phase EXCEPT ![n] = how]
    /\ mine' = [mine EXCEPT ![n] = <<>>]
    /\ UNCHANGED <<group, job, since, at, seen>>

\* 404 or 409 (VAC-CONFLICT-001), once the row is free.
Miss(n) ==
    /\ More(n)
    /\ \/ /\ Current(n).do \in {"update", "match"}
          /\ Free(n, Target(n, Current(n)))
          /\ ~Hits(n, Current(n))
       \/ /\ Current(n).do = "need"
          /\ ~Present(<<Current(n).table, Current(n).key>>)
    /\ End(n, "rolled back")
    /\ UNCHANGED <<rows, log>>

\* A lost connection, a statement timeout, a deadlock between two handlers.
Abort(n) ==
    /\ phase[n] = "open"
    /\ End(n, "rolled back")
    /\ UNCHANGED <<rows, log>>

Commit(n) ==
    /\ phase[n] = "open" /\ ~More(n)
    /\ rows' = [x \in RowIds |-> View(n, x)]
    /\ log' = Append(log, n)
    /\ End(n, "committed")

Next ==
    \E n \in Transactions :
        \/ Begin(n) \/ Write(n) \/ Change(n) \/ LookUp(n) \/ Find(n)
        \/ Record(n) \/ NoRecord(n) \/ Miss(n) \/ Abort(n) \/ Commit(n)

Spec == Init /\ [][Next]_vars

-----------------------------------------------------------------------------
(***************************************************************************)
(* Properties.                                                             *)
(***************************************************************************)
Columns == [f : 0 .. N, g : 0 .. N, version : Nat]

Statements ==
    [do : {"put", "add", "update", "match", "need", "look", "save", "observe"},
     table : PerJourney \union Generated \union {"commercial_lines"},
     key : Nat, fields : SUBSET Fields]
Jobs == [script : Seq(Statements), arg : Nat]

\* Types; only an open transaction holds rows, and no row has two holders;
\* the log has every committed transaction once.
TypeOK ==
    /\ group \in DOMAIN Handlers
    /\ rows \in [RowIds -> Columns]
    /\ phase \in [Transactions -> {"new", "open", "committed", "rolled back"}]
    /\ job \in [Transactions -> Jobs]
    /\ since \in [Transactions -> Nat] /\ at \in [Transactions -> Nat]
    /\ seen \in [Transactions -> 0 .. N]
    /\ DOMAIN mine = Transactions
    /\ log \in Seq(Transactions)
    /\ \A i, j \in DOMAIN log : log[i] = log[j] => i = j
    /\ ToSet(log) = {n \in Transactions : phase[n] = "committed"}
    /\ \A n \in Transactions :
          /\ job[n] \in Handlers[group] \union {Job(<<>>, 0)}
          /\ since[n] <= Len(log)
          /\ at[n] <= Len(job[n].script)
          /\ DOMAIN mine[n] \subseteq RowIds
          /\ \A x \in DOMAIN mine[n] :
                phase[n] = "open" /\ mine[n][x] \in Columns /\ Free(n, x)

\* The statements of n that are about row x in so many words, and whether
\* one of them names column c.
About(n, x) ==
    {s \in ToSet(job[n].script) :
        s.do \in {"put", "add", "update", "match"} /\ Target(n, s) = x}
Names(n, x, c) == \E s \in About(n, x) : c \in s.fields

\* Tables that are written to by what was looked up.
LookedUp == {"finance_records", "discount_applications",
             "delivery_status_history"}

\* Every column shows the payload of the last committed request that named
\* it, in every table at once: a booking and its product are of one PUT, the
\* lines of two PUTs do not mix, a PATCH does not undo columns it left out.
LastWordHolds ==
    \A x \in {y \in RowIds : y[1] \notin LookedUp}, c \in Fields :
        LET Naming == {i \in DOMAIN log : Names(log[i], x, c)}
        IN  rows[x][c] = IF Naming = {} THEN 0 ELSE log[Max(Naming)]

\* How many of the first k commits wrote row x.
Writers(x, k) ==
    Cardinality({i \in 1 .. k : About(log[i], x) # {}})

\* A PATCH with If-Match that took effect changed the very version it named:
\* nobody's write came between what the client saw and what it did.
MatchedInTurn ==
    \A i \in DOMAIN log : \A s \in ToSet(job[log[i]].script) :
        s.do = "match" =>
            Writers(<<s.table, s.key>>, i - 1) = job[log[i]].arg

\* The status of a delivery is in its history, whoever wrote it and whatever
\* they had seen.
HistoryKnowsStatus ==
    LET now == StatusBy(rows[<<"deliveries", 0>>].f)
    IN  now # 0 => \E k \in Transactions :
                      /\ Present(<<"delivery_status_history", k>>)
                      /\ StatusBy(k) = now

\* Neither of two requests had committed when the other began.
Position(n) == CHOOSE i \in DOMAIN log : log[i] = n
Overlapped(j, k) == Position(j) > since[k] /\ Position(k) > since[j]

\* finance_records and discount_applications have no unique key; a journey
\* gets a second record only from requests that overlapped.
TwinsWereRaced ==
    \A t \in {"finance_records", "discount_applications"} :
        \A j, k \in Transactions :
            j # k /\ Present(<<t, j>>) /\ Present(<<t, k>>)
                => Overlapped(j, k)

Saves(n, t) ==
    \E s \in ToSet(job[n].script) : s.do = "save" /\ s.table = t

\* Whatever earlier races left behind, a PUT that overlapped with nothing is
\* what a reader of the latest record gets.
LonePutIsAnswered ==
    \A t \in {"finance_records", "discount_applications"} :
        LET n == Last(log)
        IN  log # <<>> /\ since[n] = Len(log) - 1 /\ Saves(n, t)
                => rows[<<t, Latest(t)>>].f = n
=============================================================================
