------------------------- MODULE BusinessRecordsProofs -------------------------
(***************************************************************************)
(* Proofs about BusinessRecords, for any number of overlapping requests.   *)
(*                                                                         *)
(* What the properties say of the committed rows has to be carried through *)
(* the transactions that are still open.  Three facts do so.  A row has at *)
(* most one open writer (TypeOK), so nobody else commits it meanwhile and  *)
(* what the writer keeps of the old columns is still there when it commits *)
(* (WrittenTold, Counted).  A row with a generated id is nobody else's     *)
(* before its transaction commits and never goes away (Inserted).  What a  *)
(* SELECT found may be overtaken by other commits, but only by those after *)
(* the transaction began (LookedAll, Raced).                               *)
(***************************************************************************)
EXTENDS BusinessRecords, TLAPS, FiniteSetTheorems, WellFoundedInduction,
        SequenceTheorems

\* The statements that name their row, and the tables without a unique key.
Explicit == {"put", "add", "update", "match"}
Twins == {"finance_records", "discount_applications"}
\* The script of PUT /delivery.
Deliver == <<Look("deliveries"), Put("deliveries"), Observe>>

\* What the proofs need to know of the script of a handler.
WellFormed(j) ==
    /\ j \in Jobs
    /\ \A i \in DOMAIN j.script : LET s == j.script[i] IN
          /\ s.do \in Explicit => s.table \notin LookedUp
          /\ s.do \in {"put", "update", "match", "need"} =>
                <<s.table, s.key>> \in RowIds
          /\ s.do \in {"add", "save", "observe"} => s.table \in Generated
          /\ s.do = "put" => s.table \notin Generated
          /\ s.do = "look" => s.table \in Twins \union {"deliveries"}
          /\ s.do = "save" =>
                /\ s.table \in Twins /\ s.fields = Fields
                /\ \E k \in 1 .. (i - 1) : j.script[k] = Look(s.table)
          /\ s.do = "observe" => s = Observe /\ j.script = Deliver
          /\ s.do \in Explicit /\ s.table = "deliveries" => j.script = Deliver
          /\ s.do = "look" /\ s.table = "deliveries" => j.script = Deliver
          /\ s.do = "match" => s.table \in {"dealers", "dealer_outlets"}
          /\ s.table \in {"dealers", "dealer_outlets"} => Len(j.script) = 1
    /\ \A i, k \in DOMAIN j.script :
          j.script[i].do = "look" /\ j.script[k].do = "look" => i = k

WellFormedAll == \A n \in Transactions : WellFormed(job[n])

\* How far a transaction is, by its phase.
Phases == \A n \in Transactions :
    /\ phase[n] = "new" => job[n] = Job(<<>>, 0)
    /\ phase[n] = "committed" => at[n] = Len(job[n].script)
    /\ \A i \in DOMAIN log : log[i] = n => since[n] < i

\* The i-th statement of n is, in so many words, about x.
Spot(n, s) == IF s.do = "add" THEN <<s.table, n>> ELSE <<s.table, s.key>>
Speaks(n, i, x) ==
    job[n].script[i].do \in Explicit /\ Spot(n, job[n].script[i]) = x

\* A transaction holds the rows it has spoken of, with its number in the
\* columns it has named and what is committed in the others.
WrittenOf(n, x) ==
    /\ x \in DOMAIN mine[n] <=> \E i \in 1 .. at[n] : Speaks(n, i, x)
    /\ x \in DOMAIN mine[n] => \A c \in Fields :
          mine[n][x][c] =
              IF \E i \in 1 .. at[n] :
                    Speaks(n, i, x) /\ c \in job[n].script[i].fields
              THEN n ELSE rows[x][c]
WrittenTold == \A n \in Transactions, x \in RowIds :
    phase[n] = "open" /\ x[1] \notin LookedUp => WrittenOf(n, x)

\* A row with a generated id exists only once its transaction has committed.
Inserted ==
    /\ \A x \in RowIds : x[1] \in Generated /\ Present(x) => phase[x[2]] = "committed"
    /\ \A n \in Transactions : \A x \in DOMAIN mine[n] :
          /\ mine[n][x].version > 0
          /\ x[1] \in Generated => x[2] = n \/ Present(x)

\* The same of a whole script: it speaks of x, and names column c of it.
SpeaksIn(j, n, x) ==
    \E i \in DOMAIN j.script : j.script[i].do \in Explicit /\ Spot(n, j.script[i]) = x
NamesIn(j, n, x, c) ==
    \E i \in DOMAIN j.script : /\ j.script[i].do \in Explicit
                              /\ Spot(n, j.script[i]) = x
                              /\ c \in j.script[i].fields

\* LastWordHolds in these terms.
LastWord ==
    \A x \in RowIds, c \in Fields : x[1] \notin LookedUp =>
        LET Naming == {i \in DOMAIN log : NamesIn(job[log[i]], log[i], x, c)}
        IN  rows[x][c] = IF Naming = {} THEN 0 ELSE log[Max(Naming)]

\* The tables whose PATCH takes an If-Match header.
IfMatch == {"dealers", "dealer_outlets"}
WritersIn(x, k) ==
    Cardinality({i \in 1 .. k : SpeaksIn(job[log[i]], log[i], x)})
\* The version of a dealer or an outlet counts the commits that wrote it, and
\* a PATCH that has it locked found the version that it named.
Counted ==
    /\ \A x \in RowIds : x[1] \in IfMatch => rows[x].version = WritersIn(x, Len(log))
    /\ \A n \in Transactions : \A x \in DOMAIN mine[n] : x[1] \in IfMatch =>
          /\ mine[n][x].version = rows[x].version + 1
          /\ job[n].script[1].do = "match" => rows[x].version = job[n].arg

\* MatchedInTurn in these terms.
Matched ==
    \A i \in DOMAIN log : \A l \in DOMAIN job[log[i]].script :
        LET s == job[log[i]].script[l]
        IN  s.do = "match" => WritersIn(<<s.table, s.key>>, i - 1) = job[log[i]].arg

\* What transaction n has done so far: the SELECT, the write that follows it.
Looked(n, t) == \E i \in 1 .. at[n] :
    job[n].script[i].do = "look" /\ job[n].script[i].table = t
Saved(n, t) == \E i \in 1 .. at[n] :
    job[n].script[i].do = "save" /\ job[n].script[i].table = t

\* A look-up that found a row was right and stays so; one that found none can
\* be overtaken only by what commits after the transaction began; and while
\* nobody commits, it is what a reader would still find.  The save that
\* follows writes the row found, or the transaction's own.
LookedOf(n, t) ==
    /\ Looked(n, t) /\ seen[n] # 0 => Present(<<t, seen[n]>>)
    /\ Looked(n, t) /\ seen[n] = 0 /\ phase[n] = "open" =>
         \A i \in DOMAIN log : Present(<<t, log[i]>>) => i > since[n]
    /\ Looked(n, t) /\ phase[n] = "open" /\ since[n] = Len(log) => seen[n] = Latest(t)
    /\ phase[n] = "open" => \A k \in Transactions :
          <<t, k>> \in DOMAIN mine[n] <=> Saved(n, t) /\ k = IF seen[n] = 0 THEN n ELSE seen[n]
    /\ \A k \in Transactions : <<t, k>> \in DOMAIN mine[n] => mine[n][<<t, k>>].f = n
    /\ Present(<<t, n>>) => Looked(n, t) /\ seen[n] = 0
LookedAll == \A n \in Transactions, t \in Twins : LookedOf(n, t)

\* TwinsWereRaced by the positions in the log.
Raced ==
    \A t \in Twins : \A i, j \in DOMAIN log :
        i # j /\ Present(<<t, log[i]>>) /\ Present(<<t, log[j]>>) => i > since[log[j]]

\* LonePutIsAnswered by the end of the log.
SavesIn(j, t) ==
    \E i \in DOMAIN j.script : j.script[i].do = "save" /\ j.script[i].table = t
Answered ==
    \A t \in Twins : \A n \in Transactions :
        /\ Len(log) > 0 /\ log[Len(log)] = n
        /\ since[n] = Len(log) - 1 /\ SavesIn(job[n], t)
        => rows[<<t, Latest(t)>>].f = n

\* A status is known once a committed row of the history has it.
Known(s) ==
    \E k \in Transactions : /\ Present(<<"delivery_status_history", k>>)
                            /\ StatusBy(k) = s
\* A committed PUT /delivery.
IsDelivery(n) == phase[n] = "committed" /\ job[n].script = Deliver
\* Every delivery that committed a status has it in the history, because its
\* last statement either inserted it or saw a delivery that already had.
History ==
    /\ \A n \in Transactions, s \in Nat \ {0} :
          IsDelivery(n) /\ job[n].arg = s => Known(s)
    /\ \A k \in Transactions : rows[<<"deliveries", 0>>].f = k => IsDelivery(k)
    /\ \A n, k \in Transactions :
          Looked(n, "deliveries") /\ seen[n] = k => IsDelivery(k)
    /\ \A n \in Transactions, s \in Nat \ {0} :
          /\ phase[n] = "open" /\ job[n].script = Deliver
          /\ at[n] = 3 /\ job[n].arg = s
          => <<"delivery_status_history", n>> \in DOMAIN mine[n] \/ Known(s)

-----------------------------------------------------------------------------
(***************************************************************************)
(* The scripts of the handlers.                                            *)
(***************************************************************************)
Tables == PerJourney \union Generated \union {"commercial_lines"}

LEMMA StatementTypes ==
    /\ \A t \in Tables : /\ Put(t) \in Statements /\ Add(t) \in Statements
                          /\ Look(t) \in Statements /\ Save(t) \in Statements
    /\ \A t \in Tables, k \in Nat : Need(t, k) \in Statements
    /\ \A t \in Tables, k \in Nat, fs \in SUBSET Fields :
          /\ Update(t, k, fs) \in Statements /\ Match(t, k, fs) \in Statements
          /\ Statement("put", t, k, fs) \in Statements
    /\ Observe \in Statements
BY DEF Put, Add, Update, Match, Need, Look, Save, Observe, Statement,
       Statements, Tables, Fields, Generated

LEMMA NamedIds ==
    \A k \in Named : k \in Nat /\ k \in Transactions
BY KeysAssumption, NAssumption DEF Transactions

LEMMA EmptyScript == WellFormed(Job(<<>>, 0))
BY DEF WellFormed, Job, Jobs

\* What a statement needs in a script without look-ups.
Plain(s) ==
    /\ s \in Statements
    /\ s.do \in {"put", "add", "update", "need"}
    /\ s.do # "need" => s.table \notin LookedUp
    /\ s.do \in {"put", "update", "need"} => <<s.table, s.key>> \in RowIds
    /\ s.do = "add" => s.table \in Generated
    /\ s.do = "put" => s.table \notin Generated
    /\ s.do # "need" => s.table # "deliveries"
    /\ s.do # "add" => s.table \notin IfMatch

LEMMA PlainOne ==
    ASSUME NEW s, Plain(s), NEW a \in Nat
    PROVE  WellFormed(Job(<<s>>, a))
BY DEF WellFormed, Plain, Job, Jobs, Explicit, IfMatch

LEMMA PlainMany ==
    ASSUME NEW sc \in Seq(Statements), NEW a \in Nat,
           \A i \in DOMAIN sc : Plain(sc[i]) /\ sc[i].table \notin IfMatch
    PROVE  WellFormed(Job(sc, a))
BY DEF WellFormed, Plain, Job, Jobs, Explicit, IfMatch

\* Statements that speak of their row, in handlers other than PutDelivery.
LEMMA PlainStatements ==
    /\ \A t \in PerJourney \ {"deliveries"} :
          Plain(Put(t)) /\ Put(t).table \notin IfMatch
    /\ \A t \in Generated \ LookedUp : Plain(Add(t)) /\ Add(t).table = t
    /\ \A t \in Generated \ (LookedUp \union IfMatch), k \in Named,
          fs \in SUBSET Fields :
             Plain(Update(t, k, fs)) /\ Update(t, k, fs).table \notin IfMatch
    /\ \A t \in Generated \ IfMatch, k \in Named :
          Plain(Need(t, k)) /\ Need(t, k).table \notin IfMatch
    /\ \A fs \in SUBSET Fields :
          /\ Plain(Update("journeys", 0, fs))
          /\ Update("journeys", 0, fs).table \notin IfMatch
    /\ \A c \in Components :
          /\ Plain(Statement("put", "commercial_lines", c, Fields))
          /\ Statement("put", "commercial_lines", c, Fields).table \notin IfMatch
<1> USE DEF Plain, Statement, Statements, RowIds, PerJourney, Generated,
            LookedUp, IfMatch, Fields
<1>1. \A t \in PerJourney \ {"deliveries"} :
          Plain(Put(t)) /\ Put(t).table \notin IfMatch
  BY DEF Put
<1>2. \A t \in Generated \ LookedUp : Plain(Add(t)) /\ Add(t).table = t
  BY DEF Add
<1>3. \A t \in Generated \ (LookedUp \union IfMatch), k \in Named,
          fs \in SUBSET Fields :
             Plain(Update(t, k, fs)) /\ Update(t, k, fs).table \notin IfMatch
  BY NamedIds DEF Update
<1>4. \A t \in Generated \ IfMatch, k \in Named :
          Plain(Need(t, k)) /\ Need(t, k).table \notin IfMatch
  BY NamedIds DEF Need
<1>5. \A fs \in SUBSET Fields :
          /\ Plain(Update("journeys", 0, fs))
          /\ Update("journeys", 0, fs).table \notin IfMatch
  BY DEF Update
<1>6. \A c \in Components :
          /\ Plain(Statement("put", "commercial_lines", c, Fields))
          /\ Statement("put", "commercial_lines", c, Fields).table \notin IfMatch
  BY KeysAssumption
<1> QED BY <1>1, <1>2, <1>3, <1>4, <1>5, <1>6

LEMMA PlainTwo ==
    ASSUME NEW s, NEW u, Plain(s), Plain(u),
           s.table \notin IfMatch, u.table \notin IfMatch
    PROVE  WellFormed(Job(<<s, u>>, 0))
<1>1. <<s, u>> \in Seq(Statements) /\ Len(<<s, u>>) = 2
  BY DEF Plain
<1>2. \A i \in DOMAIN <<s, u>> : Plain(<<s, u>>[i]) /\ <<s, u>>[i].table \notin IfMatch
  OBVIOUS
<1> QED BY <1>1, <1>2, PlainMany

LEMMA PlainJoined ==
    ASSUME NEW s, NEW u, Plain(s), Plain(u),
           s.table \notin IfMatch, u.table \notin IfMatch
    PROVE  /\ WellFormed(Job(<<s>> \o <<u>>, 0))
           /\ \A v : Plain(v) /\ v.table \notin IfMatch
                 => WellFormed(Job(<<s>> \o (<<u>> \o <<v>>), 0))
<1>1. <<s>> \o <<u>> \in Seq(Statements) /\ Len(<<s>> \o <<u>>) = 2
      /\ (<<s>> \o <<u>>)[1] = s /\ (<<s>> \o <<u>>)[2] = u
  BY DEF Plain
<1>2. WellFormed(Job(<<s>> \o <<u>>, 0))
  <2> DEFINE sc == <<s>> \o <<u>>
  <2>1. \A i \in DOMAIN sc : Plain(sc[i]) /\ sc[i].table \notin IfMatch
    BY <1>1
  <2> QED BY <1>1, <2>1, PlainMany
<1>3. ASSUME NEW v, Plain(v), v.table \notin IfMatch
      PROVE  WellFormed(Job(<<s>> \o (<<u>> \o <<v>>), 0))
  <2> DEFINE sc == <<s>> \o (<<u>> \o <<v>>)
  <2>1. sc \in Seq(Statements) /\ Len(sc) = 3 /\ sc[1] = s /\ sc[2] = u /\ sc[3] = v
    BY <1>3 DEF Plain
  <2> HIDE DEF sc
  <2>2. \A i \in DOMAIN sc : Plain(sc[i]) /\ sc[i].table \notin IfMatch
    BY <1>3, <2>1
  <2>3. WellFormed(Job(sc, 0))
    BY <2>1, <2>2, PlainMany
  <2> QED BY <2>3 DEF sc
<1> QED BY <1>2, <1>3

LEMMA BookingScripts == \A j \in UpsertBooking : WellFormed(j)
BY PlainStatements, PlainTwo DEF UpsertBooking, PerJourney

LEMMA VehicleScripts == \A j \in PutVehicle \union PutRegistration : WellFormed(j)
BY PlainStatements, PlainOne DEF PutVehicle, PutRegistration, PerJourney

LEMMA InsuranceScripts == \A j \in PutInsurance \union PutTradeIn : WellFormed(j)
<1>1. WellFormed(Job(<<Put("trade_in_cases")>>, 0))
  BY PlainStatements, PlainOne DEF PerJourney
<1>2. WellFormed(Job(<<Put("insurance_records")>>, 0))
  BY PlainStatements, PlainOne DEF PerJourney
<1>3. WellFormed(Job(<<Put("insurance_records"), Add("journey_addons")>>, 0))
  BY PlainStatements, PlainTwo DEF PerJourney, Generated, LookedUp, IfMatch
<1>4. ASSUME NEW k \in Named
      PROVE  WellFormed(Job(<<Put("insurance_records"),
                              Update("journey_addons", k, Fields)>>, 0))
  BY PlainStatements, PlainTwo DEF PerJourney, Generated, LookedUp, IfMatch
<1>5. Put("insurance_records") \in Statements /\ Add("journey_addons") \in Statements
  BY StatementTypes DEF Tables, PerJourney, Generated
<1>6. \A k \in Named : Update("journey_addons", k, Fields) \in Statements
  BY StatementTypes, NamedIds DEF Tables, Generated
<1>7. \A s \in Statements : <<s>> \o <<>> = <<s>>
  <2> TAKE s \in Statements
  <2>1. <<s>> \in Seq(Statements)
    OBVIOUS
  <2> QED BY <2>1, ConcatEmptySeq
<1>8. \A s, u \in Statements : <<s>> \o <<u>> = <<s, u>>
  <2> TAKE s, u \in Statements
  <2> DEFINE c == <<s>> \o <<u>>
  <2>1. c \in Seq(Statements) /\ Len(c) = 2 /\ c[1] = s /\ c[2] = u
    OBVIOUS
  <2> HIDE DEF c
  <2>2. c = <<s, u>>
    BY <2>1
  <2> QED BY <2>2 DEF c
<1>9. ASSUME NEW j \in PutInsurance PROVE WellFormed(j)
  <2>1. PICK a \in {<<>>, <<Add("journey_addons")>>} \union
                     {<<Update("journey_addons", k, Fields)>> : k \in Named} :
             j = Job(<<Put("insurance_records")>> \o a, 0)
    BY <1>9 DEF PutInsurance
  <2>2. CASE a = <<>>
    BY <2>1, <2>2, <1>2, <1>5, <1>7
  <2>3. CASE a = <<Add("journey_addons")>>
    BY <2>1, <2>3, <1>3, <1>5, <1>8
  <2>4. CASE \E k \in Named : a = <<Update("journey_addons", k, Fields)>>
    BY <2>1, <2>4, <1>4, <1>5, <1>6, <1>8
  <2> QED BY <2>1, <2>2, <2>3, <2>4
<1> QED BY <1>1, <1>9 DEF PutTradeIn

\* The look-up and the save that depends on it, after statements that are plain.
LEMMA SaveScripts ==
    ASSUME NEW ls \in Seq(Statements), NEW t \in Twins,
           \A i \in DOMAIN ls : Plain(ls[i]) /\ ls[i].table \notin IfMatch
    PROVE  WellFormed(Job(ls \o <<Look(t), Save(t)>>, 0))
<1> DEFINE sc == ls \o <<Look(t), Save(t)>>
           m  == Len(ls)
<1>1. Look(t) \in Statements /\ Save(t) \in Statements
  BY StatementTypes DEF Tables, Generated, Twins
<1>2. sc \in Seq(Statements) /\ Len(sc) = m + 2 /\ m \in Nat
  BY <1>1
<1>3. \A i \in 1 .. m : sc[i] = ls[i]
  BY <1>1
<1>4. sc[m + 1] = Look(t) /\ sc[m + 2] = Save(t)
  BY <1>1
<1>5. \A i \in DOMAIN sc : i \in 1 .. m \/ i = m + 1 \/ i = m + 2
  BY <1>2
<1>6. \A i \in 1 .. m : Plain(sc[i]) /\ sc[i].table \notin IfMatch
  BY <1>3
<1> HIDE DEF sc, m
<1>7. /\ Look(t).do = "look" /\ Look(t).table = t
      /\ Save(t).do = "save" /\ Save(t).table = t /\ Save(t).fields = Fields
  BY DEF Look, Save, Statement
<1>8. \A i \in DOMAIN sc : i # m + 1 => sc[i].do # "look"
  <2> TAKE i \in DOMAIN sc
  <2>1. CASE i \in 1 .. m
    BY <2>1, <1>6 DEF Plain
  <2>2. CASE i = m + 2
    BY <2>2, <1>4, <1>7
  <2> QED BY <2>1, <2>2, <1>5
<1>9. t # "deliveries" /\ t \notin IfMatch /\ t \in Generated
  BY DEF Twins, IfMatch, Generated
<1>10. Job(sc, 0) \in Jobs /\ Job(sc, 0).script = sc
  BY <1>2 DEF Job, Jobs
<1>11. \A i, k \in DOMAIN sc : sc[i].do = "look" /\ sc[k].do = "look" => i = k
  BY <1>8
<1>12. m + 1 \in 1 .. (m + 2 - 1)
  BY <1>2
<1>13. WellFormed(Job(sc, 0))
  <2>1. SUFFICES ASSUME NEW i \in DOMAIN sc, NEW s, s = sc[i]
        PROVE  /\ s.do \in Explicit => s.table \notin LookedUp
               /\ s.do \in {"put", "update", "match", "need"} =>
                     <<s.table, s.key>> \in RowIds
               /\ s.do \in {"add", "save", "observe"} => s.table \in Generated
               /\ s.do = "put" => s.table \notin Generated
               /\ s.do = "look" => s.table \in Twins \union {"deliveries"}
               /\ s.do = "save" =>
                     /\ s.table \in Twins /\ s.fields = Fields
                     /\ \E k \in 1 .. (i - 1) : sc[k] = Look(s.table)
               /\ s.do \notin {"match", "observe"}
               /\ s.do \in Explicit \union {"look"} => s.table # "deliveries"
               /\ s.table \notin IfMatch
    BY <1>10, <1>11, <2>1 DEF WellFormed, IfMatch, Explicit
  <2>2. CASE i \in 1 .. m
    BY <2>1, <2>2, <1>6 DEF Plain, Explicit
  <2>3. CASE i = m + 1
    BY <2>1, <2>3, <1>4, <1>7, <1>9 DEF Explicit
  <2>4. CASE i = m + 2
    <3>1. m + 1 \in 1 .. (i - 1) /\ sc[m + 1] = Look(t)
      BY <2>4, <1>2, <1>4
    <3>2. s = Save(t)
      BY <2>1, <2>4, <1>4
    <3>3. \E k \in 1 .. (i - 1) : sc[k] = Look(s.table)
      BY <3>1, <3>2, <1>7
    <3> QED BY <3>2, <3>3, <1>7, <1>9 DEF Explicit
  <2> QED BY <2>2, <2>3, <2>4, <1>5
<1> QED BY <1>13 DEF sc

LEMMA FinanceScripts == \A j \in PutFinance : WellFormed(j)
<1>1. Look("finance_records") \in Statements /\ Save("finance_records") \in Statements
  BY StatementTypes DEF Tables, Generated
<1>2. <<>> \o <<Look("finance_records"), Save("finance_records")>>
        = <<Look("finance_records"), Save("finance_records")>>
  BY <1>1, ConcatEmptySeq
<1>3. <<>> \in Seq(Statements) /\ DOMAIN <<>> = {}
  OBVIOUS
<1>4. WellFormed(Job(<<>> \o <<Look("finance_records"), Save("finance_records")>>, 0))
  BY <1>3, SaveScripts DEF Twins
<1> QED BY <1>2, <1>4 DEF PutFinance

LEMMA CommercialScripts == \A j \in PutCommercials : WellFormed(j)
<1> DEFINE Line(c)  == Statement("put", "commercial_lines", c, Fields)
           Lines(ls) == [k \in DOMAIN ls |-> Line(ls[k])]
           Discount == <<Look("discount_applications"),
                         Save("discount_applications")>>
<1>1. \A ls \in Payloads : /\ Lines(ls) \in Seq(Statements)
                           /\ \A i \in DOMAIN Lines(ls) :
                                 Plain(Lines(ls)[i]) /\ Lines(ls)[i].table \notin IfMatch
  <2> TAKE ls \in Payloads
  <2>1. ls \in Seq(Components)
    BY KeysAssumption
  <2>2. \A c \in Components : Line(c) \in Statements
    BY PlainStatements DEF Plain
  <2>3. Lines(ls) \in Seq(Statements) /\ DOMAIN Lines(ls) = DOMAIN ls
    BY <2>1, <2>2
  <2>4. \A i \in DOMAIN ls : Lines(ls)[i] = Line(ls[i]) /\ ls[i] \in Components
    BY <2>1
  <2> QED BY <2>3, <2>4, PlainStatements
<1>2. ASSUME NEW ls \in Payloads PROVE WellFormed(Job(Lines(ls) \o <<>>, 0))
  <2>1. Lines(ls) \o <<>> = Lines(ls)
    BY <1>1
  <2> HIDE DEF Lines
  <2> QED BY <1>1, <2>1, PlainMany
<1>3. ASSUME NEW ls \in Payloads PROVE WellFormed(Job(Lines(ls) \o Discount, 0))
  <2> HIDE DEF Lines
  <2> QED BY <1>1, SaveScripts DEF Twins
<1>4. ASSUME NEW j \in PutCommercials
      PROVE  \E ls \in Payloads, d \in {<<>>, Discount} : j = Job(Lines(ls) \o d, 0)
  BY <1>4 DEF PutCommercials
<1> HIDE DEF Lines, Discount
<1> QED BY <1>2, <1>3, <1>4

LEMMA DeliveryScripts == \A j \in PutDelivery : WellFormed(j)
<1>1. /\ Look("deliveries") \in Statements /\ Put("deliveries") \in Statements
      /\ Observe \in Statements
  BY StatementTypes DEF Tables, PerJourney
<1>2. Deliver \in Seq(Statements) /\ Len(Deliver) = 3
  BY <1>1 DEF Deliver
<1>3. /\ Deliver[1] = Look("deliveries") /\ Deliver[2] = Put("deliveries")
      /\ Deliver[3] = Observe
  BY DEF Deliver
<1>4. \A i \in DOMAIN Deliver : i = 1 \/ i = 2 \/ i = 3
  BY <1>2
<1>5. ASSUME NEW s \in Statuses \union {0} PROVE WellFormed(Job(Deliver, s))
  <2>1. s \in Nat
    BY KeysAssumption
  <2>2. \A i, k \in DOMAIN Deliver :
          Deliver[i].do = "look" /\ Deliver[k].do = "look" => i = k
    BY <1>3, <1>4 DEF Look, Put, Observe, Statement
  <2> QED BY <1>2, <1>3, <1>4, <2>1, <2>2
          DEF WellFormed, Job, Jobs, Look, Put, Observe, Statement,
              Explicit, Twins, Generated, PerJourney, RowIds, IfMatch, LookedUp
<1> QED BY <1>5 DEF PutDelivery, Deliver

\* The look-up before it, or nothing: PATCH and POST of payments, findings,
\* customers, dealers and outlets.
LEMMA PaymentScripts == \A j \in CreatePayment \union PatchPayment : WellFormed(j)
<1> DEFINE V == Add("payment_verification_events")
<1>1. Plain(V) /\ V.table \notin IfMatch
  BY PlainStatements DEF Generated, LookedUp, IfMatch
<1>2. WellFormed(Job(<<Add("payments")>>, 0))
  BY PlainStatements, PlainOne DEF Generated, LookedUp
<1>3. ASSUME NEW j \in PatchPayment PROVE WellFormed(j)
  <2>1. PICK k \in Named :
          \/ j = Job(<<Need("payments", k)>> \o <<V>>, 0)
          \/ \E fs \in Supplied :
               \/ j = Job(<<Need("payments", k)>> \o <<Update("payments", k, fs)>>, 0)
               \/ j = Job(<<Need("payments", k)>> \o
                           (<<Update("payments", k, fs)>> \o <<V>>), 0)
    <3>1. PICK k \in Named :
            LET Ch == {<<Update("payments", k, fs)>> : fs \in Supplied}
            IN  \E b \in Ch \union {c \o <<V>> : c \in Ch} \union {<<V>>} :
                   j = Job(<<Need("payments", k)>> \o b, 0)
      BY <1>3 DEF PatchPayment
    <3> QED BY <3>1
  <2>2. Plain(Need("payments", k)) /\ Need("payments", k).table \notin IfMatch
    BY PlainStatements DEF Generated, IfMatch
  <2>3. \A fs \in Supplied : /\ Plain(Update("payments", k, fs))
                             /\ Update("payments", k, fs).table \notin IfMatch
    BY PlainStatements DEF Generated, IfMatch, LookedUp, Supplied
  <2> HIDE DEF V
  <2>4. CASE j = Job(<<Need("payments", k)>> \o <<V>>, 0)
    BY <1>1, <2>2, <2>4, PlainJoined
  <2>5. CASE \E fs \in Supplied :
          j = Job(<<Need("payments", k)>> \o <<Update("payments", k, fs)>>, 0)
    BY <1>1, <2>2, <2>3, <2>5, PlainJoined
  <2>6. CASE \E fs \in Supplied :
          j = Job(<<Need("payments", k)>> \o (<<Update("payments", k, fs)>> \o <<V>>), 0)
    BY <1>1, <2>2, <2>3, <2>6, PlainJoined
  <2> QED BY <2>1, <2>4, <2>5, <2>6
<1> QED BY <1>2, <1>3 DEF CreatePayment

LEMMA FindingScripts == \A j \in CreateFinding \union PatchFinding : WellFormed(j)
<1>1. /\ Plain(Add("audit_findings")) /\ Add("audit_findings").table \notin IfMatch
      /\ Plain(Add("finding_evidence")) /\ Add("finding_evidence").table \notin IfMatch
  BY PlainStatements DEF Generated, LookedUp, IfMatch
<1>2. WellFormed(Job(<<Add("audit_findings")>> \o <<>>, 0))
  <2>1. <<Add("audit_findings")>> \in Seq(Statements)
    BY <1>1 DEF Plain
  <2>2. <<Add("audit_findings")>> \o <<>> = <<Add("audit_findings")>>
    BY <2>1, ConcatEmptySeq
  <2> QED BY <1>1, <2>2, PlainOne
<1>3. WellFormed(Job(<<Add("audit_findings")>> \o <<Add("finding_evidence")>>, 0))
  BY <1>1, PlainJoined
<1>4. \A j \in CreateFinding : WellFormed(j)
  BY <1>2, <1>3 DEF CreateFinding
<1>5. ASSUME NEW k \in Named, NEW fs \in Supplied
      PROVE  WellFormed(Job(<<Need("audit_findings", k),
                              Update("audit_findings", k, fs)>>, 0))
  BY PlainStatements, PlainTwo DEF Generated, LookedUp, IfMatch, Supplied
<1>6. \A j \in PatchFinding : \E k \in Named, fs \in Supplied :
         j = Job(<<Need("audit_findings", k), Update("audit_findings", k, fs)>>, 0)
  BY DEF PatchFinding
<1> QED BY <1>4, <1>5, <1>6

LEMMA CustomerScripts ==
    \A j \in CreateCustomer \union PatchCustomer \union PatchJourney : WellFormed(j)
<1>1. Plain(Add("customers"))
  BY PlainStatements DEF Generated, LookedUp
<1>2. \A k \in Named, fs \in SUBSET Fields : Plain(Update("customers", k, fs))
  BY PlainStatements DEF Generated, LookedUp, IfMatch
<1>3. \A fs \in SUBSET Fields : Plain(Update("journeys", 0, fs))
  BY PlainStatements
<1>4. \A j \in CreateCustomer : j = Job(<<Add("customers")>>, 0)
  BY DEF CreateCustomer
<1>5. \A j \in PatchCustomer : \E k \in Named, fs \in SUBSET Fields :
         j = Job(<<Update("customers", k, fs)>>, 0)
  BY DEF PatchCustomer
<1>6. \A j \in PatchJourney : \E fs \in SUBSET Fields :
         j = Job(<<Update("journeys", 0, fs)>>, 0)
  BY DEF PatchJourney
<1>7. WellFormed(Job(<<Add("customers")>>, 0))
  BY <1>1, PlainOne
<1>8. \A k \in Named, fs \in SUBSET Fields :
         WellFormed(Job(<<Update("customers", k, fs)>>, 0))
  BY <1>2, PlainOne
<1>9. \A fs \in SUBSET Fields : WellFormed(Job(<<Update("journeys", 0, fs)>>, 0))
  BY <1>3, PlainOne
<1>10. \A j \in CreateCustomer : WellFormed(j)
  BY <1>4, <1>7
<1>11. \A j \in PatchCustomer : WellFormed(j)
  BY <1>5, <1>8
<1>12. \A j \in PatchJourney : WellFormed(j)
  BY <1>6, <1>9
<1> QED BY <1>10, <1>11, <1>12

LEMMA MatchScripts ==
    ASSUME NEW t \in IfMatch
    PROVE  /\ WellFormed(Job(<<Add(t)>>, 0))
           /\ \A k \in Named, fs \in Supplied, v \in Transactions :
                 WellFormed(Job(<<Match(t, k, fs)>>, v))
<1>1. t \in Tables /\ t \in Generated /\ t \notin LookedUp
  BY DEF IfMatch, Tables, Generated, LookedUp
<1>2. WellFormed(Job(<<Add(t)>>, 0))
  BY <1>1, PlainStatements, PlainOne
<1>3. ASSUME NEW k \in Named, NEW fs \in Supplied, NEW v \in Transactions
      PROVE  WellFormed(Job(<<Match(t, k, fs)>>, v))
  <2>1. Match(t, k, fs) \in Statements /\ v \in Nat
    BY <1>1, StatementTypes, NamedIds, NAssumption DEF Supplied, Transactions
  <2>2. /\ Match(t, k, fs).do = "match" /\ Match(t, k, fs).table = t
        /\ Match(t, k, fs).key = k
    BY DEF Match, Statement
  <2>3. <<t, k>> \in RowIds
    BY <1>1, NamedIds DEF RowIds
  <2>4. t # "deliveries"
    BY DEF IfMatch
  <2> QED BY <1>1, <2>1, <2>2, <2>3, <2>4 DEF WellFormed, Job, Jobs, Explicit, IfMatch
<1> QED BY <1>2, <1>3

\* Every script of every group.
LEMMA Scripts == \A g \in DOMAIN Handlers : \A j \in Handlers[g] : WellFormed(j)
<1>1. \A j \in CreateDealer \union PatchDealer : WellFormed(j)
  <2>1. "dealers" \in IfMatch
    BY DEF IfMatch
  <2>2. \A j \in CreateDealer : j = Job(<<Add("dealers")>>, 0)
    BY DEF CreateDealer
  <2>3. \A j \in PatchDealer : \E k \in Named, fs \in Supplied, v \in Transactions :
           j = Job(<<Match("dealers", k, fs)>>, v)
    BY DEF PatchDealer
  <2>4. \A j \in CreateDealer : WellFormed(j)
    BY <2>1, <2>2, MatchScripts
  <2>5. \A j \in PatchDealer : WellFormed(j)
    BY <2>1, <2>3, MatchScripts
  <2> QED BY <2>4, <2>5
<1>2. \A j \in CreateOutlet \union PatchOutlet : WellFormed(j)
  <2>1. "dealer_outlets" \in IfMatch
    BY DEF IfMatch
  <2>2. \A j \in CreateOutlet : j = Job(<<Add("dealer_outlets")>>, 0)
    BY DEF CreateOutlet
  <2>3. \A j \in PatchOutlet : \E k \in Named, fs \in Supplied, v \in Transactions :
           j = Job(<<Match("dealer_outlets", k, fs)>>, v)
    BY DEF PatchOutlet
  <2>4. \A j \in CreateOutlet : WellFormed(j)
    BY <2>1, <2>2, MatchScripts
  <2>5. \A j \in PatchOutlet : WellFormed(j)
    BY <2>1, <2>3, MatchScripts
  <2> QED BY <2>4, <2>5
<1> QED BY <1>1, <1>2, BookingScripts, VehicleScripts, InsuranceScripts,
           CommercialScripts, DeliveryScripts, FinanceScripts, PaymentScripts,
           FindingScripts, CustomerScripts DEF Handlers

-----------------------------------------------------------------------------
(***************************************************************************)
(* The steps.                                                              *)
(***************************************************************************)
LEMMA AllWellFormed == TypeOK => WellFormedAll
BY Scripts, EmptyScript DEF TypeOK, WellFormedAll

\* The next statement of a transaction.
LEMMA CurrentStatement ==
    ASSUME TypeOK, NEW n \in Transactions, More(n)
    PROVE  /\ at[n] + 1 \in DOMAIN job[n].script
           /\ at[n] \in Nat
           /\ phase[n] = "open"
           /\ Current(n) = job[n].script[at[n] + 1]
           /\ Current(n) \in Statements
<1>1. job[n] \in Jobs /\ at[n] \in Nat
  BY DEF TypeOK
<1>2. job[n].script \in Seq(Statements)
  BY <1>1 DEF Jobs
<1>3. at[n] + 1 \in DOMAIN job[n].script
  BY <1>1, <1>2 DEF More
<1> QED BY <1>1, <1>2, <1>3 DEF More, Current

LEMMA TargetTable ==
    ASSUME NEW n \in Transactions, NEW s \in Statements
    PROVE  Target(n, s)[1] = s.table
BY DEF Target, Statements

LEMMA TargetRow ==
    ASSUME TypeOK, NEW n \in Transactions, More(n),
           Current(n).do \notin {"need", "look"}
    PROVE  Target(n, Current(n)) \in RowIds
<1> DEFINE s == Current(n)
           i == at[n] + 1
<1>1. i \in DOMAIN job[n].script /\ s = job[n].script[i] /\ s \in Statements
  BY CurrentStatement
<1>2. WellFormed(job[n])
  BY AllWellFormed DEF WellFormedAll
<1>3. /\ s.do \in {"put", "update", "match", "need"} => <<s.table, s.key>> \in RowIds
      /\ s.do \in {"add", "save", "observe"} => s.table \in Generated
  BY <1>1, <1>2 DEF WellFormed
<1>4. s.do \in {"put", "update", "match", "add", "save", "observe"}
  BY <1>1 DEF Statements
<1>5. seen[n] \in 0 .. N
  BY DEF TypeOK
<1>6. \A t \in Generated : \A k \in Transactions : <<t, k>> \in RowIds
  BY DEF RowIds
<1> SUFFICES Target(n, s) \in RowIds
  OBVIOUS
<1> HIDE DEF s, i
<1>7. CASE s.do \in {"add", "observe"}
  BY <1>3, <1>6, <1>7 DEF Target
<1>8. CASE s.do = "save"
  <2>1. Target(n, s) = <<s.table, IF seen[n] = 0 THEN n ELSE seen[n]>>
    BY <1>8 DEF Target
  <2>2. (IF seen[n] = 0 THEN n ELSE seen[n]) \in Transactions
    BY <1>5, NAssumption DEF Transactions
  <2> QED BY <1>3, <1>6, <1>8, <2>1, <2>2
<1>9. CASE s.do \in {"put", "update", "match"}
  BY <1>3, <1>9 DEF Target
<1> QED BY <1>4, <1>7, <1>8, <1>9

\* Three kinds of statement: a write, a look-up, one that only passes.
Writes(n) ==
    /\ More(n) /\ Current(n).do \in Explicit \union {"save", "observe"}
    /\ Current(n).do \in {"update", "match"} => Hits(n, Current(n))
    /\ WriteRow(n, Target(n, Current(n)), Current(n).fields)

Passes(n) ==
    /\ More(n) /\ Current(n).do \in {"need", "observe"}
    /\ Current(n).do = "observe" => ~IsNews(n)
    /\ Step(n)
    /\ UNCHANGED <<group, rows, phase, job, since, seen, mine, log>>

RollsBack(n) ==
    /\ phase[n] = "open"
    /\ End(n, "rolled back")
    /\ UNCHANGED <<rows, log>>

LEMMA Kinds ==
    ASSUME TypeOK, [Next]_vars
    PROVE  \/ UNCHANGED vars
           \/ \E n \in Transactions :
                 \/ Begin(n) \/ Writes(n) \/ LookUp(n) \/ Passes(n)
                 \/ RollsBack(n) \/ Commit(n)
<1> SUFFICES ASSUME NEW n \in Transactions,
               \/ Begin(n) \/ Write(n) \/ Change(n) \/ LookUp(n) \/ Find(n)
               \/ Record(n) \/ NoRecord(n) \/ Miss(n) \/ Abort(n) \/ Commit(n)
             PROVE \/ Begin(n) \/ Writes(n) \/ LookUp(n) \/ Passes(n)
                   \/ RollsBack(n) \/ Commit(n)
  BY DEF Next
<1>1. CASE Write(n)
  BY <1>1 DEF Write, Writes, Explicit
<1>2. CASE Change(n)
  BY <1>2 DEF Change, Writes, Explicit
<1>3. CASE Find(n)
  BY <1>3 DEF Find, Passes
<1>4. CASE Record(n)
  <2>1. Current(n) = Observe
    <3>1. /\ at[n] + 1 \in DOMAIN job[n].script
          /\ Current(n) = job[n].script[at[n] + 1] /\ Current(n).do = "observe"
      BY <1>4, CurrentStatement DEF Record
    <3>2. WellFormed(job[n])
      BY AllWellFormed DEF WellFormedAll
    <3> QED BY <3>1, <3>2 DEF WellFormed
  <2>2. Current(n).fields = Fields
    BY <2>1 DEF Observe, Statement
  <2> QED BY <1>4, <2>2 DEF Record, Writes, Explicit
<1>5. CASE NoRecord(n)
  BY <1>5 DEF NoRecord, Passes
<1>6. CASE Miss(n) \/ Abort(n)
  BY <1>6 DEF Miss, Abort, RollsBack, More
<1> QED BY <1>1, <1>2, <1>3, <1>4, <1>5, <1>6

LEMMA ViewTyped ==
    ASSUME TypeOK, NEW n \in Transactions, NEW x \in RowIds
    PROVE  /\ View(n, x) \in Columns
           /\ \A fs \in SUBSET Fields : Revised(View(n, x), n, fs) \in Columns
           /\ \A fs \in SUBSET Fields : Revised(View(n, x), n, fs).version > 0
<1>1. View(n, x) \in Columns
  BY DEF TypeOK, View
<1>2. n \in 0 .. N
  BY NAssumption DEF Transactions
<1>3. ASSUME NEW fs \in SUBSET Fields, NEW old \in Columns
      PROVE  Revised(old, n, fs) \in Columns /\ Revised(old, n, fs).version > 0
  BY <1>2, <1>3 DEF Revised, Columns
<1> QED BY <1>1, <1>3

\* What a write does, whatever it writes.
Wrote(n, x) ==
    /\ x \in RowIds /\ x[1] = Current(n).table /\ Free(n, x)
    /\ Current(n).fields \in SUBSET Fields
    /\ at' = [at EXCEPT ![n] = at[n] + 1]
    /\ UNCHANGED <<group, rows, phase, job, since, seen, log>>
    /\ DOMAIN mine' = Transactions
    /\ \A m \in Transactions \ {n} : mine'[m] = mine[m]
    /\ DOMAIN mine'[n] = DOMAIN mine[n] \union {x}
    /\ mine'[n][x] = Revised(View(n, x), n, Current(n).fields)
    /\ \A y \in DOMAIN mine[n] : y # x => mine'[n][y] = mine[n][y]
    /\ mine'[n][x] \in Columns /\ mine'[n][x].version > 0

LEMMA WriteEffect ==
    ASSUME TypeOK, NEW n \in Transactions, Writes(n)
    PROVE  Wrote(n, Target(n, Current(n)))
<1> DEFINE x == Target(n, Current(n))
<1>1. More(n) /\ WriteRow(n, x, Current(n).fields)
  BY DEF Writes
<1>2. Current(n) \in Statements /\ Current(n).do \notin {"need", "look"}
  BY <1>1, CurrentStatement DEF Writes, Explicit
<1>3. x \in RowIds /\ x[1] = Current(n).table
  BY <1>1, <1>2, TargetRow, TargetTable
<1>4. Current(n).fields \in SUBSET Fields
  BY <1>2 DEF Statements
<1>5. DOMAIN mine = Transactions
  BY DEF TypeOK
<1>6. mine' = [mine EXCEPT ![n] =
          [y \in DOMAIN mine[n] \union {x} |->
              IF y = x THEN Revised(View(n, x), n, Current(n).fields) ELSE mine[n][y]]]
  BY <1>1 DEF WriteRow
<1>7. /\ DOMAIN mine' = Transactions
      /\ \A m \in Transactions \ {n} : mine'[m] = mine[m]
      /\ DOMAIN mine'[n] = DOMAIN mine[n] \union {x}
      /\ mine'[n][x] = Revised(View(n, x), n, Current(n).fields)
      /\ \A y \in DOMAIN mine[n] : y # x => mine'[n][y] = mine[n][y]
  BY <1>5, <1>6
<1>8. /\ Free(n, x) /\ at' = [at EXCEPT ![n] = at[n] + 1]
      /\ UNCHANGED <<group, rows, phase, job, since, seen, log>>
  BY <1>1 DEF WriteRow, Step
<1> QED BY <1>3, <1>4, <1>7, <1>8, ViewTyped DEF Wrote

LEMMA EmptyDomain == DOMAIN <<>> = {}
OBVIOUS

Committed(n) ==
    /\ phase[n] = "open" /\ at[n] = Len(job[n].script)
    /\ phase' = [phase EXCEPT ![n] = "committed"]
    /\ DOMAIN mine' = Transactions /\ DOMAIN mine'[n] = {}
    /\ \A m \in Transactions \ {n} : mine'[m] = mine[m]
    /\ UNCHANGED <<group, job, since, at, seen>>
    /\ rows' \in [RowIds -> Columns]
    /\ \A x \in DOMAIN mine[n] : rows'[x] = mine[n][x]
    /\ \A x \in RowIds : x \notin DOMAIN mine[n] => rows'[x] = rows[x]
    /\ log' \in Seq(Transactions) /\ Len(log') = Len(log) + 1 /\ Len(log) \in Nat
    /\ DOMAIN log' = DOMAIN log \union {Len(log) + 1}
    /\ \A i \in DOMAIN log : log'[i] = log[i] /\ i \in 1 .. Len(log)
    /\ log'[Len(log) + 1] = n

LEMMA CommitEffect ==
    ASSUME TypeOK, NEW n \in Transactions, Commit(n)
    PROVE  Committed(n)
<1>1. /\ phase[n] = "open" /\ ~More(n) /\ End(n, "committed")
      /\ rows' = [x \in RowIds |-> View(n, x)] /\ log' = Append(log, n)
  BY DEF Commit
<1>2. at[n] = Len(job[n].script)
  <2>1. at[n] \in Nat /\ at[n] <= Len(job[n].script) /\ job[n].script \in Seq(Statements)
    BY DEF TypeOK, Jobs
  <2> QED BY <1>1, <2>1 DEF More
<1>3. /\ phase' = [phase EXCEPT ![n] = "committed"]
      /\ mine' = [mine EXCEPT ![n] = <<>>]
      /\ UNCHANGED <<group, job, since, at, seen>>
  BY <1>1 DEF End
<1>4. /\ DOMAIN mine' = Transactions /\ DOMAIN mine'[n] = {}
      /\ \A m \in Transactions \ {n} : mine'[m] = mine[m]
  BY <1>3, EmptyDomain DEF TypeOK
<1>5. rows' \in [RowIds -> Columns]
  BY <1>1, ViewTyped
<1>6. /\ \A x \in DOMAIN mine[n] : rows'[x] = mine[n][x]
      /\ \A x \in RowIds : x \notin DOMAIN mine[n] => rows'[x] = rows[x]
  BY <1>1 DEF View, TypeOK
<1>7. log \in Seq(Transactions)
  BY DEF TypeOK
<1>8. /\ log' \in Seq(Transactions)
      /\ Len(log') = Len(log) + 1 /\ Len(log) \in Nat
      /\ DOMAIN log' = DOMAIN log \union {Len(log) + 1}
      /\ \A i \in DOMAIN log : log'[i] = log[i] /\ i \in 1 .. Len(log)
      /\ log'[Len(log) + 1] = n
  BY <1>1, <1>7
<1> QED BY <1>1, <1>2, <1>3, <1>4, <1>5, <1>6, <1>8 DEF Committed

RolledBack(n) ==
    /\ phase[n] = "open" /\ phase' = [phase EXCEPT ![n] = "rolled back"]
    /\ DOMAIN mine' = Transactions /\ DOMAIN mine'[n] = {}
    /\ \A m \in Transactions \ {n} : mine'[m] = mine[m]
    /\ UNCHANGED <<group, rows, job, since, at, seen, log>>

LEMMA RollBackEffect ==
    ASSUME TypeOK, NEW n \in Transactions, RollsBack(n)
    PROVE  RolledBack(n)
BY EmptyDomain DEF RollsBack, End, TypeOK, RolledBack

LEMMA Largest ==
    ASSUME NEW K \in Nat, NEW S, S \subseteq 1 .. K, S # {}
    PROVE  \E k \in S : \A j \in S : j <= k
<1> DEFINE T == {K - k : k \in S}
<1>1. T \subseteq Nat /\ T # {}
  <2>1. \A k \in 1 .. K : K - k \in Nat
    OBVIOUS
  <2> QED BY <2>1
<1>2. \E m \in T : \A j \in T : ~(<<j, m>> \in OpToRel(<, Nat))
  BY <1>1, NatLessThanWellFounded, WFMin, Zenon
<1>3. PICK m \in T : \A j \in T : ~(<<j, m>> \in OpToRel(<, Nat))
  BY <1>2
<1>4. \A j \in T : ~(j < m)
  BY <1>1, <1>3 DEF OpToRel
<1>5. PICK k \in S : m = K - k
  OBVIOUS
<1>6. ASSUME NEW j \in S PROVE j <= k
  <2>1. ~(K - j < K - k)
    BY <1>4, <1>5
  <2>2. j \in Nat /\ k \in Nat
    OBVIOUS
  <2> QED BY <2>1, <2>2
<1> QED BY <1>6

LEMMA MaxOf ==
    ASSUME NEW K \in Nat, NEW S, S \subseteq 1 .. K, S # {}
    PROVE  Max(S) \in S /\ \A j \in S : j <= Max(S)
<1>1. PICK k \in S : \A j \in S : j <= k
  BY Largest
<1>2. k >= k /\ \A j \in S : k >= j
  BY <1>1
<1>3. Max(S) \in S /\ \A j \in S : Max(S) >= j
  BY <1>2 DEF Max
<1> QED BY <1>3

\* What ORDER BY created_at_utc DESC LIMIT 1 returns.
LEMMA LatestIs ==
    ASSUME NEW t
    PROVE  /\ Latest(t) \in Transactions \union {0}
           /\ Latest(t) # 0 => Present(<<t, Latest(t)>>)
           /\ Latest(t) = 0 <=> \A k \in Transactions : ~Present(<<t, k>>)
           /\ \A k \in Transactions : Present(<<t, k>>) => k <= Latest(t)
<1> DEFINE Ids == {k \in Transactions : Present(<<t, k>>)}
<1>1. 0 \notin Transactions
  BY DEF Transactions
<1>2. CASE Ids = {}
  BY <1>1, <1>2 DEF Latest
<1>3. CASE Ids # {}
  <2> DEFINE top == CHOOSE k \in Ids : \A j \in Ids : j <= k
  <2>1. Latest(t) = top
    BY <1>3 DEF Latest
  <2>2. \E k \in Ids : \A j \in Ids : j <= k
    <3>1. N \in Nat /\ Ids \subseteq 1 .. N
      BY NAssumption DEF Transactions
    <3> HIDE DEF Ids
    <3> QED BY <3>1, <1>3, Largest
  <2>3. top \in Ids /\ \A j \in Ids : j <= top
    BY <2>2
  <2> HIDE DEF top
  <2> QED BY <1>1, <2>1, <2>3
<1> QED BY <1>2, <1>3

SawLatest(n) ==
    /\ More(n) /\ Current(n).do = "look"
    /\ Current(n).table \in Twins \union {"deliveries"}
    /\ \A i \in 1 .. at[n] : job[n].script[i].do # "look"
    /\ Existing(Current(n).table) \in 0 .. N
    /\ seen' = [seen EXCEPT ![n] = Existing(Current(n).table)]
    /\ at' = [at EXCEPT ![n] = at[n] + 1]
    /\ UNCHANGED <<group, rows, phase, job, since, mine, log>>

LEMMA LookUpEffect ==
    ASSUME TypeOK, NEW n \in Transactions, LookUp(n)
    PROVE  SawLatest(n)
<1>1. More(n) /\ Current(n).do = "look"
  BY DEF LookUp
<1>2. /\ at[n] + 1 \in DOMAIN job[n].script /\ at[n] \in Nat
      /\ Current(n) = job[n].script[at[n] + 1]
  BY <1>1, CurrentStatement
<1>3. WellFormed(job[n])
  BY AllWellFormed DEF WellFormedAll
<1>4. Current(n).table \in Twins \union {"deliveries"}
  BY <1>1, <1>2, <1>3 DEF WellFormed
<1>5. ASSUME NEW i \in 1 .. at[n], job[n].script[i].do = "look" PROVE FALSE
  <2>1. i \in DOMAIN job[n].script /\ i # at[n] + 1
    <3>1. job[n].script \in Seq(Statements) /\ at[n] <= Len(job[n].script)
      BY DEF TypeOK, Jobs
    <3> QED BY <1>2, <3>1
  <2> QED BY <1>1, <1>2, <1>3, <1>5, <2>1 DEF WellFormed
<1>6. Existing(Current(n).table) \in 0 .. N
  <2>1. \A t : Latest(t) \in 0 .. N
    <3>1. Transactions \union {0} = 0 .. N
      BY NAssumption DEF Transactions
    <3> QED BY <3>1, LatestIs
  <2>2. CASE Current(n).table = "deliveries"
    <3>1. <<"deliveries", 0>> \in RowIds
      BY DEF RowIds, PerJourney
    <3>2. rows[<<"deliveries", 0>>].f \in 0 .. N
      BY <3>1 DEF TypeOK, Columns
    <3> QED BY <2>2, <3>2 DEF Existing, Generated
  <2>3. CASE Current(n).table \in Twins
    BY <2>1, <2>3 DEF Existing, Generated, Twins
  <2> QED BY <1>4, <2>2, <2>3
<1>7. /\ seen' = [seen EXCEPT ![n] = Existing(Current(n).table)]
      /\ at' = [at EXCEPT ![n] = at[n] + 1]
      /\ UNCHANGED <<group, rows, phase, job, since, mine, log>>
  BY DEF LookUp, Step, TypeOK
<1> QED BY <1>1, <1>4, <1>5, <1>6, <1>7 DEF SawLatest

-----------------------------------------------------------------------------
(***************************************************************************)
(* Types and phases.                                                       *)
(***************************************************************************)
\* What follows from TypeOK, in pieces.
TypedTransactions ==
    /\ phase \in [Transactions -> {"new", "open", "committed", "rolled back"}]
    /\ job \in [Transactions -> Jobs]
    /\ since \in [Transactions -> Nat] /\ at \in [Transactions -> Nat]
    /\ seen \in [Transactions -> 0 .. N] /\ rows \in [RowIds -> Columns]
    /\ DOMAIN mine = Transactions
    /\ \A n \in Transactions :
          /\ DOMAIN mine[n] \subseteq RowIds
          /\ phase[n] # "open" => DOMAIN mine[n] = {}

TypedLog ==
    /\ Len(log) \in Nat /\ DOMAIN log = 1 .. Len(log)
    /\ \A i, j \in DOMAIN log : log[i] = log[j] => i = j
    /\ \A i \in DOMAIN log : log[i] \in Transactions /\ phase[log[i]] = "committed"
    /\ \A n \in Transactions : phase[n] = "committed" => \E i \in DOMAIN log : log[i] = n
    /\ \A n \in Transactions : since[n] <= Len(log)

TypedScript(n) ==
    /\ at[n] \in Nat /\ at[n] <= Len(job[n].script)
    /\ Len(job[n].script) \in Nat
    /\ DOMAIN job[n].script = 1 .. Len(job[n].script)
    /\ \A i \in DOMAIN job[n].script : job[n].script[i] \in Statements

LEMMA Typing ==
    ASSUME TypeOK
    PROVE  /\ TypedTransactions /\ TypedLog
           /\ \A n \in Transactions : TypedScript(n)
<1>1. /\ log \in Seq(Transactions)
      /\ \A i, j \in DOMAIN log : log[i] = log[j] => i = j
      /\ ToSet(log) = {n \in Transactions : phase[n] = "committed"}
      /\ \A n \in Transactions : since[n] <= Len(log)
  BY DEF TypeOK
<1>2. Len(log) \in Nat /\ DOMAIN log = 1 .. Len(log)
  BY <1>1
<1>3. ToSet(log) = {log[i] : i \in DOMAIN log}
  BY DEF ToSet
<1>4. TypedLog
  BY <1>1, <1>2, <1>3 DEF TypedLog
<1>5. ASSUME NEW n \in Transactions PROVE TypedScript(n)
  <2>1. job[n] \in Jobs /\ at[n] \in Nat /\ at[n] <= Len(job[n].script)
    BY DEF TypeOK
  <2>2. job[n].script \in Seq(Statements)
    BY <2>1 DEF Jobs
  <2> QED BY <2>1, <2>2 DEF TypedScript
<1>6. TypedTransactions
  BY DEF TypeOK, TypedTransactions
<1> QED BY <1>4, <1>5, <1>6

Began(n) ==
    /\ phase[n] = "new" /\ at[n] = 0 /\ DOMAIN mine[n] = {}
    /\ phase' = [phase EXCEPT ![n] = "open"]
    /\ job' \in [Transactions -> Jobs] /\ job'[n] \in Handlers[group]
    /\ \A m \in Transactions \ {n} : job'[m] = job[m]
    /\ since' = [since EXCEPT ![n] = Len(log)]
    /\ UNCHANGED <<group, rows, at, seen, mine, log>>

LEMMA BeginEffect ==
    ASSUME TypeOK, Phases, NEW n \in Transactions, Begin(n)
    PROVE  Began(n)
<1>1. phase[n] = "new" /\ job[n] = Job(<<>>, 0)
  BY DEF Begin, Phases
<1>2. at[n] \in Nat /\ at[n] <= Len(job[n].script)
  BY DEF TypeOK
<1>3. job[n].script = <<>>
  BY <1>1 DEF Job
<1>4. at[n] = 0
  BY <1>2, <1>3
<1>5. PICK j \in Handlers[group] : job' = [job EXCEPT ![n] = j]
  BY DEF Begin
<1>6. j \in Jobs
  BY <1>5, Scripts DEF TypeOK, WellFormed
<1> QED BY <1>1, <1>4, <1>5, <1>6 DEF Begin, TypeOK, Began

LEMMA TypesBegin ==
    ASSUME TypeOK, Phases, NEW n \in Transactions, Begin(n)
    PROVE  TypeOK'
<1>0. Began(n)
  BY BeginEffect
<1>1. /\ phase' \in [Transactions -> {"new", "open", "committed", "rolled back"}]
      /\ since' \in [Transactions -> Nat] /\ Len(log) \in Nat
  BY <1>0, Typing DEF Began, TypedTransactions, TypedLog
<1>2. ToSet(log)' = {m \in Transactions : phase'[m] = "committed"}
  <2>1. ToSet(log)' = ToSet(log)
    BY <1>0 DEF Began, ToSet
  <2>2. \A m \in Transactions : phase'[m] = "committed" <=> phase[m] = "committed"
    BY <1>0, Typing DEF Began, TypedTransactions, TypedLog
  <2> QED BY <2>1, <2>2 DEF TypeOK
<1>3. ASSUME NEW m \in Transactions
      PROVE  /\ job'[m] \in Handlers[group] \union {Job(<<>>, 0)}
             /\ since'[m] <= Len(log)
             /\ at[m] <= Len(job'[m].script)
             /\ \A x \in DOMAIN mine[m] :
                   phase'[m] = "open" /\ mine[m][x] \in Columns /\ Free(m, x)'
  <2>1. CASE m = n
    <3>1. job'[n].script \in Seq(Statements)
      BY <1>0 DEF Began, Jobs
    <3>2. since'[n] = Len(log) /\ at[n] = 0 /\ DOMAIN mine[n] = {}
          /\ job'[n] \in Handlers[group] /\ Len(job'[n].script) \in Nat
      <4>1. Len(job'[n].script) \in Nat
        BY <3>1
      <4>2. since'[n] = Len(log)
        BY <1>0, Typing DEF Began, TypedTransactions
      <4> QED BY <4>1, <4>2, <1>0 DEF Began
    <3>3. at[n] <= Len(job'[n].script) /\ since'[n] <= Len(log)
      <4>1. Len(log) \in Nat
        BY <1>1
      <4>2. at[n] = 0 /\ since'[n] = Len(log)
        BY <3>2
      <4>3. Len(job'[n].script) \in Nat
        BY <3>2
      <4>4. at[n] <= Len(job'[n].script)
        BY <4>2, <4>3
      <4>5. since'[n] <= Len(log)
        BY <4>1, <4>2
      <4> QED BY <4>4, <4>5
    <3> QED BY <2>1, <3>2, <3>3
  <2>2. CASE m # n
    BY <2>2, <1>0 DEF Began, TypeOK, Free
  <2> QED BY <2>1, <2>2
<1> QED BY <1>1, <1>2, <1>3, <1>0 DEF Began, TypeOK

LEMMA TypesWrite ==
    ASSUME TypeOK, NEW n \in Transactions, Writes(n)
    PROVE  TypeOK'
<1>0. PICK x : Wrote(n, x)
  BY WriteEffect
<1>1. More(n) /\ phase[n] = "open" /\ at[n] \in Nat
  BY CurrentStatement DEF Writes
<1>2. at' \in [Transactions -> Nat] /\ at'[n] <= Len(job[n].script)
  <2>1. at[n] + 1 \in Nat /\ at[n] + 1 <= Len(job[n].script)
    BY <1>1, Typing DEF TypedScript, More
  <2>2. at \in [Transactions -> Nat] /\ at' = [at EXCEPT ![n] = at[n] + 1]
    BY <1>0, Typing DEF Wrote, TypedTransactions
  <2> QED BY <2>1, <2>2
<1>3. \A m \in Transactions : at'[m] <= Len(job[m].script)
  BY <1>2, <1>0 DEF Wrote, TypeOK
<1>4. ASSUME NEW m \in Transactions, NEW y \in DOMAIN mine'[m]
      PROVE  /\ y \in RowIds /\ phase[m] = "open" /\ mine'[m][y] \in Columns
             /\ \A k \in Transactions \ {m} : y \notin DOMAIN mine'[k]
  <2>1. CASE m = n
    <3>1. CASE y = x
      BY <2>1, <3>1, <1>1, <1>4, <1>0 DEF Wrote, TypeOK, Free
    <3>2. CASE y # x
      BY <2>1, <3>2, <1>1, <1>4, <1>0 DEF Wrote, TypeOK, Free
    <3> QED BY <3>1, <3>2
  <2>2. CASE m # n
    <3>1. y \in DOMAIN mine[m] /\ mine'[m] = mine[m]
      BY <2>2, <1>4, <1>0 DEF Wrote
    <3>2. y # x
      BY <3>1, <2>2, <1>0 DEF Wrote, Free
    <3> QED BY <2>2, <3>1, <3>2, <1>0 DEF Wrote, TypeOK, Free
  <2> QED BY <2>1, <2>2
<1>5. ToSet(log)' = ToSet(log)
  BY <1>0 DEF Wrote, ToSet
<1>6. /\ UNCHANGED <<group, rows, phase, job, since, seen, log>>
      /\ DOMAIN mine' = Transactions
  BY <1>0 DEF Wrote
<1> QED BY <1>2, <1>3, <1>4, <1>5, <1>6 DEF TypeOK, Free

LEMMA TypesPass ==
    ASSUME TypeOK, NEW n \in Transactions, LookUp(n) \/ Passes(n)
    PROVE  TypeOK'
<1>0. More(n) /\ phase[n] = "open" /\ at[n] \in Nat
  BY CurrentStatement DEF LookUp, Passes
<1>1. /\ at' = [at EXCEPT ![n] = at[n] + 1]
      /\ UNCHANGED <<group, rows, phase, job, since, mine, log>>
  BY DEF LookUp, Passes, Step, TypeOK
<1>2. seen' \in [Transactions -> 0 .. N]
  <2>1. seen \in [Transactions -> 0 .. N]
    BY DEF TypeOK
  <2>2. CASE LookUp(n)
    <3>1. SawLatest(n)
      BY <2>2, LookUpEffect
    <3> QED BY <2>1, <3>1 DEF SawLatest
  <2>3. CASE Passes(n)
    BY <2>1, <2>3 DEF Passes
  <2> QED BY <2>2, <2>3
<1>3. at' \in [Transactions -> Nat] /\ at'[n] <= Len(job[n].script)
  <2>1. at[n] + 1 \in Nat /\ at[n] + 1 <= Len(job[n].script)
    BY <1>0, Typing DEF TypedScript, More
  <2>2. at \in [Transactions -> Nat]
    BY Typing DEF TypedTransactions
  <2> QED BY <1>1, <2>1, <2>2
<1>4. \A m \in Transactions : at'[m] <= Len(job[m].script)
  BY <1>1, <1>3 DEF TypeOK
<1>5. ToSet(log)' = ToSet(log)
  BY <1>1 DEF ToSet
<1> QED
  <2>1. ASSUME NEW m \in Transactions
        PROVE  \A x \in DOMAIN mine[m] : Free(m, x)'
    BY <1>1 DEF TypeOK, Free
  <2> QED BY <1>1, <1>2, <1>3, <1>4, <1>5, <2>1 DEF TypeOK

LEMMA TypesRollBack ==
    ASSUME TypeOK, NEW n \in Transactions, RollsBack(n)
    PROVE  TypeOK'
<1>0. RolledBack(n)
  BY RollBackEffect
<1>1. phase' \in [Transactions -> {"new", "open", "committed", "rolled back"}]
  BY <1>0 DEF RolledBack, TypeOK
<1>2. ToSet(log)' = {m \in Transactions : phase'[m] = "committed"}
  <2>1. ToSet(log)' = ToSet(log)
    BY <1>0 DEF RolledBack, ToSet
  <2>2. \A m \in Transactions : phase'[m] = "committed" <=> phase[m] = "committed"
    BY <1>0, Typing DEF RolledBack, TypedTransactions
  <2> QED BY <2>1, <2>2 DEF TypeOK
<1>3. ASSUME NEW m \in Transactions, NEW y \in DOMAIN mine'[m]
      PROVE  /\ y \in RowIds /\ phase'[m] = "open" /\ mine'[m][y] \in Columns
             /\ \A k \in Transactions \ {m} : y \notin DOMAIN mine'[k]
  <2>1. m # n /\ y \in DOMAIN mine[m] /\ mine'[m] = mine[m]
    BY <1>3, <1>0 DEF RolledBack
  <2> QED BY <2>1, <1>0 DEF RolledBack, TypeOK, Free
<1> QED BY <1>1, <1>2, <1>3, <1>0 DEF RolledBack, TypeOK, Free

LEMMA TypesCommit ==
    ASSUME TypeOK, NEW n \in Transactions, Commit(n)
    PROVE  TypeOK'
<1>0. Committed(n)
  BY CommitEffect
<1>1. phase' \in [Transactions -> {"new", "open", "committed", "rolled back"}]
  BY <1>0, Typing DEF Committed, TypedTransactions, TypedLog
<1>2. log' \in Seq(Transactions)
  BY <1>0 DEF Committed
<1>3. \A i \in DOMAIN log : log[i] # n
  BY <1>0, Typing DEF Committed, TypedTransactions, TypedLog
<1>4. \A i, j \in DOMAIN log' : log'[i] = log'[j] => i = j
  <2> TAKE i, j \in DOMAIN log'
  <2>1. \A k \in DOMAIN log' : k \in DOMAIN log \/ k = Len(log) + 1
    BY <1>0 DEF Committed
  <2>2. CASE i \in DOMAIN log /\ j \in DOMAIN log
    BY <2>2, <1>0, Typing DEF Committed, TypedLog
  <2>3. CASE i = Len(log) + 1 /\ j \in DOMAIN log
    BY <2>3, <1>3, <1>0 DEF Committed
  <2>4. CASE i \in DOMAIN log /\ j = Len(log) + 1
    BY <2>4, <1>3, <1>0 DEF Committed
  <2> QED BY <2>1, <2>2, <2>3, <2>4
<1>5. ToSet(log)' = {m \in Transactions : phase'[m] = "committed"}
  <2>1. ToSet(log) = {m \in Transactions : phase[m] = "committed"}
    BY DEF TypeOK
  <2>2. \A m : m \in ToSet(log') <=> m \in ToSet(log) \/ m = n
    BY <1>0 DEF Committed, ToSet
  <2>3. \A m \in Transactions : phase'[m] = "committed" <=> phase[m] = "committed" \/ m = n
    BY <1>0, Typing DEF Committed, TypedTransactions, TypedLog
  <2> QED BY <2>1, <2>2, <2>3
<1>6. ASSUME NEW m \in Transactions, NEW y \in DOMAIN mine'[m]
      PROVE  /\ y \in RowIds /\ phase'[m] = "open" /\ mine'[m][y] \in Columns
             /\ \A k \in Transactions \ {m} : y \notin DOMAIN mine'[k]
  <2>1. m # n /\ y \in DOMAIN mine[m] /\ mine'[m] = mine[m]
    BY <1>6, <1>0 DEF Committed
  <2> QED BY <2>1, <1>0 DEF Committed, TypeOK, Free
<1>7. \A m \in Transactions : since[m] <= Len(log')
  <2> TAKE m \in Transactions
  <2>1. since[m] \in Nat /\ since[m] <= Len(log) /\ Len(log) \in Nat
    BY Typing DEF TypedTransactions, TypedLog
  <2>2. Len(log') = Len(log) + 1
    BY <1>0 DEF Committed
  <2> QED BY <2>1, <2>2
<1> QED BY <1>1, <1>2, <1>4, <1>5, <1>6, <1>7, <1>0 DEF Committed, TypeOK, Free

LEMMA PhasesNext ==
    ASSUME TypeOK, Phases, [Next]_vars
    PROVE  TypeOK' /\ Phases'
<1>0. /\ phase \in [Transactions -> {"new", "open", "committed", "rolled back"}]
      /\ at \in [Transactions -> Nat] /\ since \in [Transactions -> Nat]
      /\ Len(log) \in Nat /\ DOMAIN log = 1 .. Len(log)
      /\ \A m \in Transactions : since[m] <= Len(log)
      /\ \A i \in DOMAIN log : phase[log[i]] = "committed"
  BY Typing DEF TypedTransactions, TypedLog
<1>1. CASE UNCHANGED vars
  <2>1. ToSet(log)' = ToSet(log)
    BY <1>1 DEF ToSet, vars
  <2>2. \A n \in Transactions : \A x : Free(n, x)' <=> Free(n, x)
    BY <1>1 DEF Free, vars
  <2>3. Phases'
    BY <1>1 DEF Phases, vars
  <2> QED BY <1>1, <2>1, <2>2, <2>3 DEF TypeOK, vars
<1>2. ASSUME NEW n \in Transactions, Begin(n) PROVE TypeOK' /\ Phases'
  <2>1. Began(n) /\ TypeOK'
    BY <1>2, TypesBegin, BeginEffect
  <2> QED BY <2>1, <1>0 DEF Phases, Began
<1>3. ASSUME NEW n \in Transactions, Writes(n) PROVE TypeOK' /\ Phases'
  <2>1. phase[n] = "open" /\ TypeOK'
    BY <1>3, CurrentStatement, TypesWrite DEF Writes
  <2>2. PICK x : Wrote(n, x)
    BY <1>3, WriteEffect
  <2> QED BY <2>1, <2>2, <1>0 DEF Phases, Wrote
<1>4. ASSUME NEW n \in Transactions, LookUp(n) \/ Passes(n) PROVE TypeOK' /\ Phases'
  <2>1. phase[n] = "open" /\ TypeOK'
    BY <1>4, CurrentStatement, TypesPass DEF LookUp, Passes
  <2>2. at' = [at EXCEPT ![n] = at[n] + 1] /\ UNCHANGED <<phase, job, since, log>>
    BY <1>4, <1>0 DEF LookUp, Passes, Step
  <2> QED BY <2>1, <2>2, <1>0 DEF Phases
<1>5. ASSUME NEW n \in Transactions, RollsBack(n) PROVE TypeOK' /\ Phases'
  <2>1. RolledBack(n) /\ TypeOK'
    BY <1>5, TypesRollBack, RollBackEffect
  <2> QED BY <2>1, <1>0 DEF Phases, RolledBack
<1>6. ASSUME NEW n \in Transactions, Commit(n) PROVE TypeOK' /\ Phases'
  <2>1. Committed(n) /\ TypeOK'
    BY <1>6, TypesCommit, CommitEffect
  <2>2. phase[n] # "new"
    BY <2>1 DEF Committed
  <2>3. ASSUME NEW m \in Transactions
        PROVE  /\ phase'[m] = "new" => job'[m] = Job(<<>>, 0)
               /\ phase'[m] = "committed" => at'[m] = Len(job'[m].script)
    BY <2>1, <1>0 DEF Phases, Committed
  <2>4. ASSUME NEW m \in Transactions, NEW i \in DOMAIN log', log'[i] = m
        PROVE  since'[m] < i
    <3>1. CASE i = Len(log) + 1
      <4>1. m = n /\ since' = since
        BY <2>1, <2>4, <3>1 DEF Committed
      <4>2. since[n] \in Nat /\ since[n] <= Len(log) /\ Len(log) \in Nat
        BY <1>0
      <4> QED BY <3>1, <4>1, <4>2
    <3>2. CASE i \in DOMAIN log
      BY <2>1, <2>4, <3>2, <1>0 DEF Phases, Committed
    <3> QED BY <2>1, <3>1, <3>2 DEF Committed
  <2> QED BY <2>1, <2>3, <2>4 DEF Phases
<1> QED BY <1>1, <1>2, <1>3, <1>4, <1>5, <1>6, Kinds

-----------------------------------------------------------------------------
(***************************************************************************)
(* What a transaction has written is what its statements said so far.      *)
(***************************************************************************)
LEMMA SpotIsTarget ==
    ASSUME NEW n, NEW s, s.do \in Explicit
    PROVE  Target(n, s) = Spot(n, s)
BY DEF Target, Spot, Explicit

LEMMA NamesSpeak ==
    \A n, x : /\ About(n, x) # {} <=> SpeaksIn(job[n], n, x)
             /\ \A c : Names(n, x, c) <=> NamesIn(job[n], n, x, c)
<1> SUFFICES ASSUME NEW n, NEW x
             PROVE  /\ About(n, x) # {} <=> SpeaksIn(job[n], n, x)
                    /\ \A c : Names(n, x, c) <=> NamesIn(job[n], n, x, c)
  OBVIOUS
<1>1. ASSUME NEW s
      PROVE  s \in About(n, x) <=> \E i \in DOMAIN job[n].script :
                 /\ job[n].script[i].do \in Explicit
                 /\ Spot(n, job[n].script[i]) = x
                 /\ s = job[n].script[i]
  BY SpotIsTarget DEF About, ToSet, Explicit
<1> QED BY <1>1 DEF Names, NamesIn, SpeaksIn

LEMMA LastWordIs == LastWordHolds <=> LastWord
<1>1. \A x, c : {i \in DOMAIN log : Names(log[i], x, c)}
                = {i \in DOMAIN log : NamesIn(job[log[i]], log[i], x, c)}
  BY NamesSpeak
<1> DEFINE Shows(x, c, S) == rows[x][c] = IF S = {} THEN 0 ELSE log[Max(S)]
<1>2. LastWordHolds <=>
        \A x \in RowIds, c \in Fields : x[1] \notin LookedUp =>
            Shows(x, c, {i \in DOMAIN log : Names(log[i], x, c)})
  BY DEF LastWordHolds
<1>3. LastWord <=>
        \A x \in RowIds, c \in Fields : x[1] \notin LookedUp =>
            Shows(x, c, {i \in DOMAIN log : NamesIn(job[log[i]], log[i], x, c)})
  BY DEF LastWord
<1> HIDE DEF Shows
<1> QED BY <1>1, <1>2, <1>3

\* Whoever did not move has spoken of the same rows.
LEMMA SpeaksStays ==
    ASSUME NEW n, job'[n] = job[n]
    PROVE  \A i, x : Speaks(n, i, x)' <=> Speaks(n, i, x)
BY DEF Speaks

\* A written row: the latest statement is about it or not in so many words.
LEMMA WrittenRow ==
    ASSUME TypeOK, NEW n \in Transactions, Writes(n), NEW x, x = Target(n, Current(n)),
           NEW y, y[1] \notin LookedUp
    PROVE  Speaks(n, at[n] + 1, y) <=> y = x
<1> DEFINE s == Current(n)
<1>1. /\ More(n) /\ s = job[n].script[at[n] + 1] /\ s \in Statements
      /\ at[n] + 1 \in DOMAIN job[n].script
      /\ s.do \in Explicit \union {"save", "observe"}
  BY CurrentStatement DEF Writes
<1>2. WellFormed(job[n])
  BY AllWellFormed DEF WellFormedAll
<1>3. s.do \in {"save", "observe"} => s.table \in LookedUp
  <2>1. s.do = "save" => s.table \in Twins
    BY <1>1, <1>2 DEF WellFormed
  <2>2. s.do = "observe" => s = Observe
    BY <1>1, <1>2 DEF WellFormed
  <2> QED BY <2>1, <2>2 DEF LookedUp, Twins, Observe, Statement
<1>4. x[1] = s.table
  BY <1>1, TargetTable
<1>5. CASE s.do \in Explicit
  <2>1. x = Spot(n, s)
    BY <1>5, SpotIsTarget
  <2> QED BY <1>1, <1>5, <2>1 DEF Speaks
<1>6. CASE s.do \in {"save", "observe"}
  <2>1. y # x
    BY <1>3, <1>4, <1>6
  <2> QED BY <1>1, <1>6, <2>1 DEF Speaks, Explicit
<1> QED BY <1>1, <1>5, <1>6

\* A statement that writes nothing speaks of nothing.
LEMMA PassedRow ==
    ASSUME TypeOK, NEW n \in Transactions, More(n), NEW y,
           Current(n).do \in {"look", "need", "observe"}
    PROVE  ~Speaks(n, at[n] + 1, y)
BY CurrentStatement DEF Speaks, Explicit

LEMMA WrittenWrite ==
    ASSUME TypeOK, WrittenTold, NEW n \in Transactions, Writes(n)
    PROVE  WrittenTold'
<1>0. PICK x : x = Target(n, Current(n)) /\ Wrote(n, x)
  BY WriteEffect
<1>1. More(n) /\ phase[n] = "open" /\ at[n] \in Nat /\ Current(n) = job[n].script[at[n] + 1]
  BY CurrentStatement DEF Writes
<1>2. ASSUME NEW y \in RowIds, y[1] \notin LookedUp
      PROVE  WrittenOf(n, y)'
  <2>1. WrittenOf(n, y)
    BY <1>1, <1>2 DEF WrittenTold
  <2>2. Speaks(n, at[n] + 1, y) <=> y = x
    BY <1>0, <1>2, WrittenRow
  <2>3. /\ at'[n] = at[n] + 1 /\ job'[n] = job[n] /\ rows' = rows
    BY <1>0, Typing DEF Wrote, TypedTransactions
  <2>4. \A i : i \in 1 .. at'[n] <=> i \in 1 .. at[n] \/ i = at[n] + 1
    BY <1>1, <2>3
  <2>5. \A i : Speaks(n, i, y)' <=> Speaks(n, i, y)
    BY <2>3, SpeaksStays
  <2>6. (\E i \in 1 .. at'[n] : Speaks(n, i, y)')
           <=> (\E i \in 1 .. at[n] : Speaks(n, i, y)) \/ y = x
    BY <2>2, <2>4, <2>5
  <2>7. y \in DOMAIN mine'[n] <=> \E i \in 1 .. at'[n] : Speaks(n, i, y)'
    BY <1>0, <2>1, <2>6 DEF WrittenOf, Wrote
  <2>8. ASSUME y \in DOMAIN mine'[n], NEW c \in Fields
        PROVE  mine'[n][y][c] =
                  IF \E i \in 1 .. at'[n] :
                        Speaks(n, i, y)' /\ c \in job'[n].script[i].fields
                  THEN n ELSE rows'[y][c]
    <3>1. (\E i \in 1 .. at'[n] : Speaks(n, i, y)' /\ c \in job'[n].script[i].fields)
            <=> \/ \E i \in 1 .. at[n] : Speaks(n, i, y) /\ c \in job[n].script[i].fields
                \/ y = x /\ c \in Current(n).fields
      BY <1>1, <2>2, <2>3, <2>4, <2>5
    <3>2. CASE y # x
      <4>1. y \in DOMAIN mine[n] /\ mine'[n][y] = mine[n][y]
        BY <1>0, <2>8, <3>2 DEF Wrote
      <4> QED BY <2>1, <2>3, <3>1, <3>2, <4>1 DEF WrittenOf
    <3>3. CASE y = x
      <4>1. mine'[n][y] = Revised(View(n, y), n, Current(n).fields)
        BY <1>0, <3>3 DEF Wrote
      <4>2. mine'[n][y][c] = IF c \in Current(n).fields THEN n ELSE View(n, y)[c]
        BY <4>1 DEF Revised, Fields
      <4>3. View(n, y)[c] =
               IF \E i \in 1 .. at[n] : Speaks(n, i, y) /\ c \in job[n].script[i].fields
               THEN n ELSE rows[y][c]
        BY <2>1 DEF WrittenOf, View
      <4> QED BY <2>3, <3>1, <3>3, <4>2, <4>3
    <3> QED BY <3>2, <3>3
  <2> QED BY <2>7, <2>8 DEF WrittenOf
<1>3. ASSUME NEW m \in Transactions \ {n}, NEW y \in RowIds, phase[m] = "open",
             y[1] \notin LookedUp
      PROVE  WrittenOf(m, y)'
  <2>1. WrittenOf(m, y)
    BY <1>3 DEF WrittenTold
  <2>2. mine'[m] = mine[m] /\ job'[m] = job[m] /\ at'[m] = at[m] /\ rows' = rows
    BY <1>0, Typing DEF Wrote, TypedTransactions
  <2> QED BY <2>1, <2>2, SpeaksStays DEF WrittenOf
<1> QED BY <1>0, <1>2, <1>3 DEF WrittenTold, Wrote

LEMMA WrittenPass ==
    ASSUME TypeOK, WrittenTold, NEW n \in Transactions, LookUp(n) \/ Passes(n)
    PROVE  WrittenTold'
<1>1. /\ More(n) /\ phase[n] = "open" /\ at[n] \in Nat
      /\ Current(n).do \in {"look", "need", "observe"}
  BY CurrentStatement DEF LookUp, Passes
<1>2. at' = [at EXCEPT ![n] = at[n] + 1] /\ UNCHANGED <<rows, phase, job, mine>>
  BY Typing DEF LookUp, Passes, Step, TypedTransactions
<1>3. SUFFICES ASSUME NEW m \in Transactions, NEW y \in RowIds, phase[m] = "open",
                      y[1] \notin LookedUp
               PROVE  WrittenOf(m, y)'
  BY <1>2 DEF WrittenTold
<1>4. WrittenOf(m, y)
  BY <1>3 DEF WrittenTold
<1>5. \A i : Speaks(m, i, y)' <=> Speaks(m, i, y)
  BY <1>2, SpeaksStays
<1>6. CASE m = n
  <2>1. ~Speaks(n, at[n] + 1, y)
    BY <1>1, PassedRow
  <2>2. at'[n] = at[n] + 1
    BY <1>2, Typing DEF TypedTransactions
  <2>3. \A i : i \in 1 .. at'[n] <=> i \in 1 .. at[n] \/ i = at[n] + 1
    BY <1>1, <2>2
  <2> QED BY <1>2, <1>4, <1>5, <1>6, <2>1, <2>3 DEF WrittenOf
<1>7. CASE m # n
  <2>1. at'[m] = at[m]
    BY <1>2, <1>7
  <2> QED BY <1>2, <1>4, <1>5, <2>1 DEF WrittenOf
<1> QED BY <1>6, <1>7

LEMMA WrittenNext ==
    ASSUME TypeOK, Phases, WrittenTold, [Next]_vars
    PROVE  WrittenTold'
<1>1. CASE UNCHANGED vars
  BY <1>1 DEF WrittenTold, WrittenOf, Speaks, vars
<1>2. ASSUME NEW n \in Transactions, Begin(n) PROVE WrittenTold'
  <2>1. Began(n)
    BY <1>2, BeginEffect
  <2>2. SUFFICES ASSUME NEW m \in Transactions, NEW y \in RowIds,
                        phase'[m] = "open", y[1] \notin LookedUp
                 PROVE  WrittenOf(m, y)'
    BY DEF WrittenTold
  <2>3. CASE m = n
    <3>1. mine' = mine /\ DOMAIN mine[n] = {} /\ at'[n] = 0
      BY <2>1 DEF Began
    <3>2. \A i : i \notin 1 .. at'[n]
      BY <3>1
    <3> QED BY <2>3, <3>1, <3>2 DEF WrittenOf
  <2>4. CASE m # n
    <3>1. /\ phase[m] = "open" /\ mine'[m] = mine[m] /\ job'[m] = job[m]
          /\ at'[m] = at[m] /\ rows' = rows
      BY <2>1, <2>2, <2>4, Typing DEF Began, TypedTransactions
    <3>2. WrittenOf(m, y)
      BY <2>2, <3>1 DEF WrittenTold
    <3> QED BY <3>1, <3>2, SpeaksStays DEF WrittenOf
  <2> QED BY <2>3, <2>4
<1>3. ASSUME NEW n \in Transactions, RollsBack(n) PROVE WrittenTold'
  <2>1. RolledBack(n)
    BY <1>3, RollBackEffect
  <2>2. SUFFICES ASSUME NEW m \in Transactions, NEW y \in RowIds,
                        phase'[m] = "open", y[1] \notin LookedUp
                 PROVE  WrittenOf(m, y)'
    BY DEF WrittenTold
  <2>3. m # n /\ phase[m] = "open" /\ rows' = rows /\ at' = at /\ job' = job
    BY <2>1, <2>2, Typing DEF RolledBack, TypedTransactions
  <2>4. mine'[m] = mine[m]
    BY <2>1, <2>3 DEF RolledBack
  <2>5. WrittenOf(m, y)
    BY <2>2, <2>3 DEF WrittenTold
  <2> QED BY <2>3, <2>4, <2>5, SpeaksStays DEF WrittenOf
<1>4. ASSUME NEW n \in Transactions, Commit(n) PROVE WrittenTold'
  <2>1. Committed(n)
    BY <1>4, CommitEffect
  <2>2. SUFFICES ASSUME NEW m \in Transactions, NEW y \in RowIds,
                        phase'[m] = "open", y[1] \notin LookedUp
                 PROVE  WrittenOf(m, y)'
    BY DEF WrittenTold
  <2>3. m # n /\ phase[m] = "open" /\ at' = at /\ job' = job
    BY <2>1, <2>2, Typing DEF Committed, TypedTransactions
  <2>4. mine'[m] = mine[m]
    BY <2>1, <2>3 DEF Committed
  <2>5. WrittenOf(m, y)
    BY <2>2, <2>3 DEF WrittenTold
  <2>6. y \in DOMAIN mine[m] => rows'[y] = rows[y]
    <3>1. y \in DOMAIN mine[m] => y \notin DOMAIN mine[n]
      BY <2>3 DEF TypeOK, Free
    <3> QED BY <2>1, <3>1 DEF Committed
  <2> QED BY <2>3, <2>4, <2>5, <2>6, SpeaksStays DEF WrittenOf
<1> QED BY <1>1, <1>2, <1>3, <1>4, WrittenWrite, WrittenPass, Kinds

-----------------------------------------------------------------------------
(***************************************************************************)
(* The last word.                                                          *)
(***************************************************************************)
\* What a commit leaves in a row: the columns its script named are its own.
LEMMA CommitSays ==
    ASSUME TypeOK, WrittenTold, NEW n \in Transactions, Commit(n),
           NEW x \in RowIds, x[1] \notin LookedUp, NEW c \in Fields
    PROVE  rows'[x][c] = IF NamesIn(job[n], n, x, c) THEN n ELSE rows[x][c]
<1>1. Committed(n)
  BY CommitEffect
<1>2. WrittenOf(n, x)
  BY <1>1 DEF WrittenTold, Committed
<1>3. DOMAIN job[n].script = 1 .. at[n]
  BY <1>1, Typing DEF Committed, TypedScript
<1>4. NamesIn(job[n], n, x, c) <=> \E i \in 1 .. at[n] :
                             Speaks(n, i, x) /\ c \in job[n].script[i].fields
  BY <1>3 DEF NamesIn, Speaks
<1>5. CASE x \in DOMAIN mine[n]
  BY <1>1, <1>2, <1>4, <1>5 DEF WrittenOf, Committed
<1>6. CASE x \notin DOMAIN mine[n]
  BY <1>1, <1>2, <1>4, <1>6 DEF WrittenOf, Committed
<1> QED BY <1>5, <1>6

\* Transactions that have committed keep their scripts.
LEMMA LoggedStay ==
    ASSUME TypeOK, Phases, [Next]_vars
    PROVE  /\ \A i \in DOMAIN log : /\ i \in DOMAIN log' /\ log'[i] = log[i]
                                    /\ job'[log[i]] = job[log[i]]
                                    /\ since'[log[i]] = since[log[i]]
                                    /\ seen'[log[i]] = seen[log[i]]
                                    /\ at'[log[i]] = at[log[i]]
           /\ (log' = log /\ rows' = rows) \/ \E n \in Transactions : Commit(n)
<1>1. \A i \in DOMAIN log : log[i] \in Transactions /\ phase[log[i]] = "committed"
  BY Typing DEF TypedLog
<1>2. CASE UNCHANGED vars
  BY <1>2 DEF vars
<1>3. ASSUME NEW n \in Transactions, Begin(n)
      PROVE  /\ log' = log /\ rows' = rows /\ phase[n] = "new"
             /\ \A m \in Transactions \ {n} : /\ job'[m] = job[m] /\ since'[m] = since[m]
                                              /\ seen'[m] = seen[m] /\ at'[m] = at[m]
  <2>1. Began(n)
    BY <1>3, BeginEffect
  <2> QED BY <2>1, Typing DEF Began, TypedTransactions
<1>4. ASSUME NEW n \in Transactions, Writes(n) \/ LookUp(n) \/ Passes(n) \/ RollsBack(n)
      PROVE  /\ log' = log /\ rows' = rows /\ phase[n] = "open"
             /\ \A m \in Transactions \ {n} : /\ job'[m] = job[m] /\ since'[m] = since[m]
                                              /\ seen'[m] = seen[m] /\ at'[m] = at[m]
  BY <1>4, Typing DEF Writes, LookUp, Passes, RollsBack, WriteRow, Step, End, More,
                      TypedTransactions
<1>5. ASSUME NEW n \in Transactions, Commit(n)
      PROVE  \A i \in DOMAIN log : /\ i \in DOMAIN log' /\ log'[i] = log[i]
                                   /\ UNCHANGED <<job, since, seen, at>>
  <2>1. Committed(n)
    BY <1>5, CommitEffect
  <2> QED BY <2>1 DEF Committed
<1> QED BY <1>1, <1>2, <1>3, <1>4, <1>5, Kinds

LEMMA LastWordNext ==
    ASSUME TypeOK, Phases, WrittenTold, LastWord, [Next]_vars
    PROVE  LastWord'
<1>1. SUFFICES ASSUME NEW x \in RowIds, x[1] \notin LookedUp, NEW c \in Fields,
                      NEW S, S = {i \in DOMAIN log' : NamesIn(job'[log'[i]], log'[i], x, c)}
               PROVE  rows'[x][c] = IF S = {} THEN 0 ELSE log'[Max(S)]
  BY DEF LastWord
<1> DEFINE Naming == {i \in DOMAIN log : NamesIn(job[log[i]], log[i], x, c)}
<1>2. rows[x][c] = IF Naming = {} THEN 0 ELSE log[Max(Naming)]
  BY <1>1 DEF LastWord
<1>3. \A i \in DOMAIN log : NamesIn(job'[log'[i]], log'[i], x, c)
                               <=> NamesIn(job[log[i]], log[i], x, c)
  BY LoggedStay
<1>4. CASE log' = log /\ rows' = rows
  <2>1. S = Naming
    BY <1>1, <1>3, <1>4
  <2> QED BY <1>2, <1>4, <2>1
<1>5. ASSUME NEW n \in Transactions, Commit(n)
      PROVE  rows'[x][c] = IF S = {} THEN 0 ELSE log'[Max(S)]
  <2>1. Committed(n)
    BY <1>5, CommitEffect
  <2>2. rows'[x][c] = IF NamesIn(job[n], n, x, c) THEN n ELSE rows[x][c]
    BY <1>1, <1>5, CommitSays
  <2>3. \A i : i \in S <=> \/ i \in Naming
                           \/ i = Len(log) + 1 /\ NamesIn(job[n], n, x, c)
    BY <1>1, <1>3, <2>1 DEF Committed
  <2> HIDE DEF Naming
  <2>4. Len(log) \in Nat /\ DOMAIN log = 1 .. Len(log) /\ Naming \subseteq 1 .. Len(log)
    BY Typing DEF TypedLog, Naming
  <2>5. CASE NamesIn(job[n], n, x, c)
    <3>1. Len(log) + 1 \in S /\ S \subseteq 1 .. (Len(log) + 1)
      <4>1. Len(log) + 1 \in S
        BY <2>3, <2>5
      <4>2. ASSUME NEW i \in S PROVE i \in 1 .. (Len(log) + 1)
        <5>1. i \in 1 .. Len(log) \/ i = Len(log) + 1
          BY <2>3, <2>4, <4>2
        <5> QED BY <5>1, <2>4
      <4> QED BY <4>1, <4>2
    <3>2. Len(log) + 1 \in Nat /\ S # {}
      BY <3>1, <2>4
    <3>3. Max(S) \in S /\ Len(log) + 1 <= Max(S)
      BY <3>1, <3>2, MaxOf
    <3>4. Max(S) = Len(log) + 1
      <4>1. Max(S) \in 1 .. (Len(log) + 1)
        BY <3>1, <3>3
      <4> QED BY <4>1, <3>3, <2>4
    <3> QED BY <2>1, <2>2, <2>5, <3>2, <3>4 DEF Committed
  <2>6. CASE ~NamesIn(job[n], n, x, c)
    <3>1. S = Naming
      BY <2>3, <2>6
    <3>2. S # {} => Max(S) \in DOMAIN log
      BY <2>4, <3>1, MaxOf
    <3> QED BY <1>2, <2>1, <2>2, <2>6, <3>1, <3>2 DEF Committed
  <2> QED BY <2>5, <2>6
<1> QED BY <1>4, <1>5, LoggedStay

-----------------------------------------------------------------------------
(***************************************************************************)
(* Rows with generated ids, and what a look-up found.                      *)
(***************************************************************************)
LEMMA SaveFacts ==
    ASSUME TypeOK, NEW n \in Transactions, NEW i \in DOMAIN job[n].script,
           job[n].script[i].do = "save"
    PROVE  /\ job[n].script[i].table \in Twins /\ job[n].script[i].fields = Fields
           /\ \E k \in 1 .. (i - 1) : /\ job[n].script[k].do = "look"
                                      /\ job[n].script[k].table = job[n].script[i].table
<1>1. WellFormed(job[n])
  BY AllWellFormed DEF WellFormedAll
<1>2. /\ job[n].script[i].table \in Twins /\ job[n].script[i].fields = Fields
      /\ \E k \in 1 .. (i - 1) : job[n].script[k] = Look(job[n].script[i].table)
  BY <1>1 DEF WellFormed
<1> QED BY <1>2 DEF Look, Statement

LEMMA SavedLooked ==
    ASSUME TypeOK, NEW n \in Transactions, NEW t, Saved(n, t)
    PROVE  Looked(n, t)
<1>1. PICK i \in 1 .. at[n] : job[n].script[i].do = "save" /\ job[n].script[i].table = t
  BY DEF Saved
<1>2. at[n] \in Nat /\ i \in DOMAIN job[n].script
  BY Typing DEF TypedScript
<1>3. PICK k \in 1 .. (i - 1) : job[n].script[k].do = "look" /\ job[n].script[k].table = t
  BY <1>1, <1>2, SaveFacts
<1>4. k \in 1 .. at[n]
  BY <1>2
<1> QED BY <1>3, <1>4 DEF Looked

\* A write to the tables without a unique key is the save of what was looked up.
LEMMA TwinWrite ==
    ASSUME TypeOK, NEW n \in Transactions, Writes(n), NEW x, x = Target(n, Current(n)),
           NEW t \in Twins
    PROVE  /\ x[1] = t <=> Current(n).do = "save" /\ Current(n).table = t
           /\ x[1] = t => /\ x = <<t, IF seen[n] = 0 THEN n ELSE seen[n]>>
                          /\ Current(n).fields = Fields
<1>1. /\ More(n) /\ Current(n) = job[n].script[at[n] + 1] /\ Current(n) \in Statements
      /\ at[n] + 1 \in DOMAIN job[n].script
      /\ Current(n).do \in Explicit \union {"save", "observe"}
  BY CurrentStatement DEF Writes
<1>2. WellFormed(job[n])
  BY AllWellFormed DEF WellFormedAll
<1>3. x[1] = Current(n).table
  BY <1>1, TargetTable
<1>4. Current(n).do \in Explicit => Current(n).table \notin LookedUp
  BY <1>1, <1>2 DEF WellFormed
<1>5. Current(n).do = "observe" => Current(n) = Observe
  BY <1>1, <1>2 DEF WellFormed
<1>6. t \in LookedUp /\ t # Observe.table
  BY DEF Twins, LookedUp, Observe, Statement
<1>7. x[1] = t => Current(n).do = "save"
  BY <1>1, <1>3, <1>4, <1>5, <1>6
<1>8. Current(n).do = "save" =>
        /\ x = <<Current(n).table, IF seen[n] = 0 THEN n ELSE seen[n]>>
        /\ Current(n).fields = Fields
  BY <1>1, SaveFacts DEF Target
<1> QED BY <1>3, <1>7, <1>8

\* How a step extends what a transaction has done.
LEMMA OneMore ==
    ASSUME TypeOK, NEW n \in Transactions, More(n),
           at' = [at EXCEPT ![n] = at[n] + 1], job' = job, NEW t
    PROVE  /\ Looked(n, t)' <=> \/ Looked(n, t)
                                \/ Current(n).do = "look" /\ Current(n).table = t
           /\ Saved(n, t)' <=> \/ Saved(n, t)
                               \/ Current(n).do = "save" /\ Current(n).table = t
           /\ \A m \in Transactions \ {n} :
                 (Looked(m, t)' <=> Looked(m, t)) /\ (Saved(m, t)' <=> Saved(m, t))
<1>1. at[n] \in Nat /\ Current(n) = job[n].script[at[n] + 1]
  BY CurrentStatement
<1>2. at'[n] = at[n] + 1 /\ \A m \in Transactions \ {n} : at'[m] = at[m]
  BY Typing DEF TypedTransactions
<1>3. \A i : i \in 1 .. at'[n] <=> i \in 1 .. at[n] \/ i = at[n] + 1
  BY <1>1, <1>2
<1>4. /\ Looked(n, t)' <=> \/ Looked(n, t)
                           \/ Current(n).do = "look" /\ Current(n).table = t
      /\ Saved(n, t)' <=> \/ Saved(n, t)
                          \/ Current(n).do = "save" /\ Current(n).table = t
  BY <1>1, <1>3 DEF Looked, Saved
<1>5. \A m \in Transactions \ {n} :
         (Looked(m, t)' <=> Looked(m, t)) /\ (Saved(m, t)' <=> Saved(m, t))
  BY <1>2 DEF Looked, Saved
<1> QED BY <1>4, <1>5

\* A transaction that did not move, while log and rows stay as they are.
LEMMA LookedStays ==
    ASSUME NEW n, NEW t, LookedOf(n, t), UNCHANGED <<rows, log>>,
           job'[n] = job[n], at'[n] = at[n], seen'[n] = seen[n], since'[n] = since[n],
           mine'[n] = mine[n], phase'[n] = phase[n]
    PROVE  LookedOf(n, t)'
<1>1. Looked(n, t)' <=> Looked(n, t)
  BY DEF Looked
<1>2. Saved(n, t)' <=> Saved(n, t)
  BY DEF Saved
<1>3. Latest(t)' = Latest(t) /\ \A x : Present(x)' <=> Present(x)
  BY DEF Latest, Present
<1> QED BY <1>1, <1>2, <1>3 DEF LookedOf, Present

LEMMA LookedBegin ==
    ASSUME TypeOK, Phases, LookedAll, NEW n \in Transactions, Begin(n)
    PROVE  LookedAll'
<1>0. Began(n)
  BY BeginEffect
<1>1. ASSUME NEW m \in Transactions \ {n}, NEW t \in Twins PROVE LookedOf(m, t)'
  <2>1. LookedOf(m, t)
    BY DEF LookedAll
  <2>2. /\ UNCHANGED <<rows, log>> /\ job'[m] = job[m] /\ at'[m] = at[m]
        /\ seen'[m] = seen[m] /\ since'[m] = since[m] /\ mine'[m] = mine[m]
        /\ phase'[m] = phase[m]
    BY <1>0, Typing DEF Began, TypedTransactions
  <2> QED BY <2>1, <2>2, LookedStays
<1>2. ASSUME NEW t \in Twins PROVE LookedOf(n, t)'
  <2>1. at[n] = 0 /\ at'[n] = 0 /\ mine' = mine /\ DOMAIN mine[n] = {} /\ rows' = rows
    BY <1>0 DEF Began
  <2>2. ~Looked(n, t) /\ ~Looked(n, t)' /\ ~Saved(n, t)'
    BY <2>1 DEF Looked, Saved
  <2>3. ~Present(<<t, n>>)
    BY <2>2 DEF LookedAll, LookedOf
  <2> QED BY <2>1, <2>2, <2>3 DEF LookedOf, Present
<1> QED BY <1>1, <1>2 DEF LookedAll

LEMMA LookedWrite ==
    ASSUME TypeOK, LookedAll, NEW n \in Transactions, Writes(n)
    PROVE  LookedAll'
<1>0. PICK x : x = Target(n, Current(n)) /\ Wrote(n, x)
  BY WriteEffect
<1>1. ASSUME NEW m \in Transactions \ {n}, NEW t \in Twins PROVE LookedOf(m, t)'
  <2>1. LookedOf(m, t)
    BY DEF LookedAll
  <2>2. /\ UNCHANGED <<rows, log>> /\ job'[m] = job[m] /\ at'[m] = at[m]
        /\ seen'[m] = seen[m] /\ since'[m] = since[m] /\ mine'[m] = mine[m]
        /\ phase'[m] = phase[m]
    BY <1>0, Typing DEF Wrote, TypedTransactions
  <2> QED BY <2>1, <2>2, LookedStays
<1>2. ASSUME NEW t \in Twins PROVE LookedOf(n, t)'
  <2>1. LookedOf(n, t)
    BY DEF LookedAll
  <2>2. /\ More(n) /\ at' = [at EXCEPT ![n] = at[n] + 1] /\ job' = job
        /\ UNCHANGED <<rows, log, seen, since, phase>> /\ phase[n] = "open"
        /\ Current(n).do # "look"
    BY <1>0, CurrentStatement DEF Writes, Wrote, Explicit
  <2>3. /\ Looked(n, t)' <=> Looked(n, t)
        /\ Saved(n, t)' <=> \/ Saved(n, t)
                            \/ Current(n).do = "save" /\ Current(n).table = t
    BY <2>2, OneMore
  <2>4. Latest(t)' = Latest(t) /\ \A y : Present(y)' <=> Present(y)
    BY <2>2 DEF Latest, Present
  <2>5. /\ x[1] = t <=> Current(n).do = "save" /\ Current(n).table = t
        /\ x[1] = t => /\ x = <<t, IF seen[n] = 0 THEN n ELSE seen[n]>>
                       /\ Current(n).fields = Fields
    BY <1>0, TwinWrite
  <2>6. DOMAIN mine'[n] = DOMAIN mine[n] \union {x}
    BY <1>0 DEF Wrote
  <2>7. \A k \in Transactions : <<t, k>> = x <=>
          /\ Current(n).do = "save" /\ Current(n).table = t
          /\ k = IF seen[n] = 0 THEN n ELSE seen[n]
    BY <2>5
  <2>8. \A k \in Transactions : <<t, k>> \in DOMAIN mine'[n] <=>
          Saved(n, t)' /\ k = IF seen'[n] = 0 THEN n ELSE seen'[n]
    BY <2>1, <2>2, <2>3, <2>6, <2>7 DEF LookedOf
  <2>9. ASSUME NEW k \in Transactions, <<t, k>> \in DOMAIN mine'[n]
        PROVE  mine'[n][<<t, k>>].f = n
    <3>1. CASE <<t, k>> = x
      <4>1. Current(n).fields = Fields
        BY <2>5, <3>1
      <4>2. mine'[n][x].f = n
        BY <1>0, <4>1 DEF Wrote, Revised, Fields
      <4> QED BY <3>1, <4>2
    <3>2. CASE <<t, k>> # x
      BY <1>0, <2>1, <2>6, <2>9, <3>2 DEF Wrote, LookedOf
    <3> QED BY <3>1, <3>2
  <2> QED BY <2>1, <2>2, <2>3, <2>4, <2>8, <2>9 DEF LookedOf, Present
<1> QED BY <1>1, <1>2 DEF LookedAll

LEMMA LookedLookUp ==
    ASSUME TypeOK, LookedAll, NEW n \in Transactions, LookUp(n)
    PROVE  LookedAll'
<1>0. SawLatest(n)
  BY LookUpEffect
<1>1. ASSUME NEW m \in Transactions \ {n}, NEW t \in Twins PROVE LookedOf(m, t)'
  <2>1. LookedOf(m, t)
    BY DEF LookedAll
  <2>2. /\ UNCHANGED <<rows, log>> /\ job'[m] = job[m] /\ at'[m] = at[m]
        /\ seen'[m] = seen[m] /\ since'[m] = since[m] /\ mine'[m] = mine[m]
        /\ phase'[m] = phase[m]
    BY <1>0, Typing DEF SawLatest, TypedTransactions
  <2> QED BY <2>1, <2>2, LookedStays
<1>2. ASSUME NEW t \in Twins PROVE LookedOf(n, t)'
  <2>1. LookedOf(n, t)
    BY DEF LookedAll
  <2>2. /\ More(n) /\ at' = [at EXCEPT ![n] = at[n] + 1] /\ Current(n).do = "look"
        /\ UNCHANGED <<job, rows, log, since, phase, mine>> /\ phase[n] = "open"
    BY <1>0, CurrentStatement DEF SawLatest
  <2>3. ~Looked(n, t) /\ ~Saved(n, t)
    <3>1. ~Looked(n, t)
      BY <1>0 DEF SawLatest, Looked
    <3> QED BY <3>1, SavedLooked
  <2>4. (Looked(n, t)' <=> Current(n).table = t) /\ ~Saved(n, t)'
    BY <2>2, <2>3, OneMore
  <2>5. Latest(t)' = Latest(t) /\ \A y : Present(y)' <=> Present(y)
    BY <2>2 DEF Latest, Present
  <2>6. Current(n).table = t => seen'[n] = Latest(t)
    BY <1>0, Typing DEF SawLatest, Existing, Twins, Generated, TypedTransactions
  <2>7. \A k \in Transactions : <<t, k>> \notin DOMAIN mine[n]
    BY <2>1, <2>2, <2>3 DEF LookedOf
  <2>8. ~Present(<<t, n>>)
    BY <2>1, <2>3 DEF LookedOf
  <2>9. \A i \in DOMAIN log : log[i] \in Transactions
    BY Typing DEF TypedLog
  <2>10. CASE Current(n).table = t
    BY <2>2, <2>4, <2>5, <2>6, <2>7, <2>8, <2>9, <2>10, LatestIs DEF LookedOf, Present
  <2>11. CASE Current(n).table # t
    BY <2>2, <2>4, <2>5, <2>7, <2>8, <2>11 DEF LookedOf, Present
  <2> QED BY <2>10, <2>11
<1> QED BY <1>1, <1>2 DEF LookedAll

LEMMA LookedPass ==
    ASSUME TypeOK, LookedAll, NEW n \in Transactions, Passes(n)
    PROVE  LookedAll'
<1>1. /\ More(n) /\ at' = [at EXCEPT ![n] = at[n] + 1]
      /\ UNCHANGED <<job, rows, log, since, phase, mine, seen>>
      /\ Current(n).do \in {"need", "observe"}
  BY Typing DEF Passes, Step, TypedTransactions
<1>2. SUFFICES ASSUME NEW m \in Transactions, NEW t \in Twins PROVE LookedOf(m, t)'
  BY DEF LookedAll
<1>3. LookedOf(m, t)
  BY DEF LookedAll
<1>4. (Looked(m, t)' <=> Looked(m, t)) /\ (Saved(m, t)' <=> Saved(m, t))
  BY <1>1, OneMore
<1>5. Latest(t)' = Latest(t) /\ \A y : Present(y)' <=> Present(y)
  BY <1>1 DEF Latest, Present
<1> QED BY <1>1, <1>3, <1>4, <1>5 DEF LookedOf, Present

LEMMA LookedRollBack ==
    ASSUME TypeOK, LookedAll, NEW n \in Transactions, RollsBack(n)
    PROVE  LookedAll'
<1>0. RolledBack(n)
  BY RollBackEffect
<1>1. ASSUME NEW m \in Transactions \ {n}, NEW t \in Twins PROVE LookedOf(m, t)'
  <2>1. LookedOf(m, t)
    BY DEF LookedAll
  <2>2. /\ UNCHANGED <<rows, log>> /\ job'[m] = job[m] /\ at'[m] = at[m]
        /\ seen'[m] = seen[m] /\ since'[m] = since[m] /\ mine'[m] = mine[m]
        /\ phase'[m] = phase[m]
    BY <1>0, Typing DEF RolledBack, TypedTransactions
  <2> QED BY <2>1, <2>2, LookedStays
<1>2. ASSUME NEW t \in Twins PROVE LookedOf(n, t)'
  <2>1. LookedOf(n, t)
    BY DEF LookedAll
  <2>2. /\ UNCHANGED <<job, at, rows, log, seen, since>> /\ phase'[n] = "rolled back"
        /\ DOMAIN mine'[n] = {}
    BY <1>0, Typing DEF RolledBack, TypedTransactions
  <2>3. Looked(n, t)' <=> Looked(n, t)
    BY <2>2 DEF Looked
  <2> QED BY <2>1, <2>2, <2>3 DEF LookedOf, Present
<1> QED BY <1>1, <1>2 DEF LookedAll

\* The rows of these tables after a commit: those before, and the one it
\* inserted if its look-up found none.
LEMMA TwinCommit ==
    ASSUME TypeOK, Inserted, LookedAll, NEW n \in Transactions, Commit(n), NEW t \in Twins
    PROVE  /\ \A k \in Transactions \ {n} : Present(<<t, k>>)' <=> Present(<<t, k>>)
           /\ ~Present(<<t, n>>)
           /\ Present(<<t, n>>)' <=> Saved(n, t) /\ seen[n] = 0
           /\ \A k \in Transactions : <<t, k>> \in DOMAIN mine[n] =>
                 rows'[<<t, k>>].f = n
           /\ Saved(n, t) =>
                 <<t, IF seen[n] = 0 THEN n ELSE seen[n]>> \in DOMAIN mine[n]
           /\ Saved(n, t) => Looked(n, t)
<1>0. Committed(n)
  BY CommitEffect
<1>1. LookedOf(n, t) /\ phase[n] = "open"
  BY <1>0 DEF LookedAll, Committed
<1>2. \A k \in Transactions : <<t, k>> \in RowIds
  BY DEF RowIds, Twins, Generated
<1>3. ~Present(<<t, n>>)
  <2>1. t \in Generated /\ <<t, n>>[1] = t /\ <<t, n>>[2] = n
    BY DEF Twins, Generated
  <2> QED BY <1>1, <1>2, <2>1 DEF Inserted
<1>4. Saved(n, t) => Looked(n, t)
  BY SavedLooked
<1>5. \A k \in Transactions : <<t, k>> \in DOMAIN mine[n] <=>
        Saved(n, t) /\ k = IF seen[n] = 0 THEN n ELSE seen[n]
  BY <1>1 DEF LookedOf
<1>6. Saved(n, t) /\ seen[n] # 0 => Present(<<t, seen[n]>>) /\ seen[n] # n
  BY <1>1, <1>3, <1>4 DEF LookedOf
<1>7. \A x \in DOMAIN mine[n] : mine[n][x].version > 0
  BY DEF Inserted
<1>8. \A k \in Transactions : Present(<<t, k>>)' <=>
         Present(<<t, k>>) \/ <<t, k>> \in DOMAIN mine[n]
  <2> TAKE k \in Transactions
  <2>1. CASE <<t, k>> \in DOMAIN mine[n]
    <3>1. rows'[<<t, k>>] = mine[n][<<t, k>>]
      BY <1>0, <2>1 DEF Committed
    <3> QED BY <1>7, <2>1, <3>1 DEF Present
  <2>2. CASE <<t, k>> \notin DOMAIN mine[n]
    BY <1>0, <1>2, <2>2 DEF Committed, Present
  <2> QED BY <2>1, <2>2
<1>9. \A k \in Transactions \ {n} : Present(<<t, k>>)' <=> Present(<<t, k>>)
  BY <1>5, <1>6, <1>8
<1>10. Present(<<t, n>>)' <=> Saved(n, t) /\ seen[n] = 0
  BY <1>3, <1>5, <1>6, <1>8
<1>11. \A k \in Transactions : <<t, k>> \in DOMAIN mine[n] => rows'[<<t, k>>].f = n
  BY <1>0, <1>1 DEF Committed, LookedOf
<1>12. Saved(n, t) =>
          <<t, IF seen[n] = 0 THEN n ELSE seen[n]>> \in DOMAIN mine[n]
  <2>1. seen[n] \in 0 .. N
    BY Typing DEF TypedTransactions
  <2>2. (IF seen[n] = 0 THEN n ELSE seen[n]) \in Transactions
    BY <2>1, NAssumption DEF Transactions
  <2> QED BY <1>5, <2>2
<1> QED BY <1>3, <1>4, <1>9, <1>10, <1>11, <1>12

LEMMA LookedCommit ==
    ASSUME TypeOK, Inserted, LookedAll, NEW n \in Transactions, Commit(n)
    PROVE  LookedAll'
<1>0. Committed(n)
  BY CommitEffect
<1>1. SUFFICES ASSUME NEW m \in Transactions, NEW t \in Twins PROVE LookedOf(m, t)'
  BY DEF LookedAll
<1>2. LookedOf(m, t)
  BY DEF LookedAll
<1>3. /\ \A k \in Transactions \ {n} : Present(<<t, k>>)' <=> Present(<<t, k>>)
      /\ ~Present(<<t, n>>)
      /\ Present(<<t, n>>)' <=> Saved(n, t) /\ seen[n] = 0
      /\ Saved(n, t) => Looked(n, t)
  BY TwinCommit
<1>4. /\ Looked(m, t)' <=> Looked(m, t)
      /\ Saved(m, t)' <=> Saved(m, t)
  BY <1>0 DEF Committed, Looked, Saved
<1>5. /\ seen' = seen /\ since' = since /\ seen[m] \in 0 .. N
  BY <1>0, Typing DEF Committed, TypedTransactions
<1>6. Looked(m, t) /\ seen[m] # 0 => rows'[<<t, seen[m]>>].version > 0
  <2> SUFFICES ASSUME Looked(m, t), seen[m] # 0
               PROVE  rows'[<<t, seen[m]>>].version > 0
    OBVIOUS
  <2>1. PICK k \in Transactions : k = seen[m]
    BY <1>5, NAssumption DEF Transactions
  <2>2. Present(<<t, k>>)
    BY <1>2, <2>1 DEF LookedOf
  <2>3. Present(<<t, k>>)'
    BY <1>3, <2>2
  <2> QED BY <2>1, <2>3 DEF Present
<1>7. Present(<<t, m>>)' => Looked(m, t) /\ seen[m] = 0
  BY <1>2, <1>3 DEF LookedOf
<1>8. CASE m = n
  <2>1. phase'[n] = "committed" /\ DOMAIN mine'[n] = {}
    BY <1>0, Typing DEF Committed, TypedTransactions
  <2>2. Looked(n, t)' /\ seen'[n] # 0 => Present(<<t, seen[n]>>)'
    BY <1>4, <1>5, <1>6, <1>8 DEF Present
  <2>3. Present(<<t, n>>)' => Looked(n, t)' /\ seen'[n] = 0
    BY <1>4, <1>5, <1>7, <1>8
  <2> QED BY <1>8, <2>1, <2>2, <2>3 DEF LookedOf
<1>9. CASE m # n
  <2>1. phase'[m] = phase[m] /\ mine'[m] = mine[m] /\ Len(log') = Len(log) + 1
    BY <1>0, <1>9, Typing DEF Committed, TypedTransactions
  <2>2. since[m] \in Nat /\ since[m] <= Len(log) /\ Len(log) \in Nat
    BY Typing DEF TypedTransactions, TypedLog
  <2>3. since[m] # Len(log')
    BY <2>1, <2>2
  <2>4. ASSUME Looked(m, t), seen[m] = 0, phase[m] = "open", NEW i \in DOMAIN log',
               rows'[<<t, log'[i]>>].version > 0
        PROVE  i > since[m]
    <3>1. CASE i = Len(log) + 1
      BY <2>2, <3>1
    <3>2. CASE i \in DOMAIN log
      <4>1. log'[i] = log[i] /\ log[i] \in Transactions /\ log[i] # n
        BY <1>0, <3>2, Typing DEF Committed, TypedLog
      <4>2. PICK k : k = log'[i]
        OBVIOUS
      <4>3. Present(<<t, k>>)'
        BY <2>4, <4>2 DEF Present
      <4>4. Present(<<t, log[i]>>)
        BY <1>3, <4>1, <4>2, <4>3
      <4> QED BY <1>2, <2>4, <3>2, <4>4 DEF LookedOf
    <3> QED BY <1>0, <3>1, <3>2 DEF Committed
  <2>5. /\ Looked(m, t)' /\ seen'[m] # 0 => Present(<<t, seen[m]>>)'
        /\ (Looked(m, t) /\ seen[m] = 0 /\ phase[m] = "open" =>
              \A i \in DOMAIN log : Present(<<t, log[i]>>) => i > since[m])'
    BY <1>4, <1>5, <1>6, <2>1, <2>4 DEF Present
  <2>6. Present(<<t, m>>)' => Looked(m, t)' /\ seen'[m] = 0
    BY <1>4, <1>5, <1>7
  <2>7. phase'[m] = "open" => \A k \in Transactions :
          <<t, k>> \in DOMAIN mine'[m] <=>
             Saved(m, t)' /\ k = IF seen'[m] = 0 THEN m ELSE seen'[m]
    BY <1>2, <1>4, <1>5, <2>1 DEF LookedOf
  <2>8. \A k \in Transactions : <<t, k>> \in DOMAIN mine'[m] => mine'[m][<<t, k>>].f = m
    BY <1>2, <2>1 DEF LookedOf
  <2> QED BY <1>5, <2>3, <2>5, <2>6, <2>7, <2>8 DEF LookedOf
<1> QED BY <1>8, <1>9

LEMMA LookedNext ==
    ASSUME TypeOK, Phases, Inserted, LookedAll, [Next]_vars
    PROVE  LookedAll'
<1>1. CASE UNCHANGED vars
  BY <1>1, LookedStays DEF LookedAll, vars
<1> QED BY <1>1, Kinds, LookedBegin, LookedWrite, LookedLookUp, LookedPass,
           LookedRollBack, LookedCommit

-----------------------------------------------------------------------------
LEMMA RowsStay ==
    ASSUME TypeOK, Phases, Inserted, [Next]_vars
    PROVE  /\ \A x \in RowIds : Present(x) => Present(x)'
           /\ \A n \in Transactions : phase[n] = "committed" => phase'[n] = "committed"
<1>1. ASSUME rows' = rows
      PROVE  \A x \in RowIds : Present(x) => Present(x)'
  BY <1>1 DEF Present
<1>2. CASE UNCHANGED vars
  BY <1>1, <1>2 DEF vars
<1>3. ASSUME NEW n \in Transactions, Begin(n)
      PROVE  rows' = rows /\ \A m \in Transactions : phase[m] = "committed" => phase'[m] = "committed"
  <2>1. Began(n)
    BY <1>3, BeginEffect
  <2> QED BY <2>1, Typing DEF Began, TypedTransactions
<1>4. ASSUME NEW n \in Transactions, Writes(n) \/ LookUp(n) \/ Passes(n)
      PROVE  rows' = rows /\ phase' = phase
  BY <1>4 DEF Writes, LookUp, Passes, WriteRow
<1>5. ASSUME NEW n \in Transactions, RollsBack(n)
      PROVE  rows' = rows /\ \A m \in Transactions : phase[m] = "committed" => phase'[m] = "committed"
  <2>1. RolledBack(n)
    BY <1>5, RollBackEffect
  <2> QED BY <2>1, Typing DEF RolledBack, TypedTransactions
<1>6. ASSUME NEW n \in Transactions, Commit(n)
      PROVE  /\ \A x \in RowIds : Present(x) => Present(x)'
             /\ \A m \in Transactions : phase[m] = "committed" => phase'[m] = "committed"
  <2>1. Committed(n)
    BY <1>6, CommitEffect
  <2>2. \A x \in DOMAIN mine[n] : mine[n][x].version > 0
    BY DEF Inserted
  <2>3. \A x \in RowIds : Present(x) => Present(x)'
    BY <2>1, <2>2 DEF Committed, Present
  <2> QED BY <2>1, <2>3, Typing DEF Committed, TypedTransactions
<1> QED BY <1>1, <1>2, <1>3, <1>4, <1>5, <1>6, Kinds DEF vars

LEMMA InsertedNext ==
    ASSUME TypeOK, Phases, Inserted, LookedAll, [Next]_vars
    PROVE  Inserted'
<1>0. /\ \A x \in RowIds : Present(x) => Present(x)'
      /\ \A n \in Transactions : phase[n] = "committed" => phase'[n] = "committed"
  BY RowsStay
<1>a. \A x \in RowIds : x[1] \in Generated => x[2] \in Transactions
  BY DEF RowIds, Generated, PerJourney
\* Unless a transaction commits, no row appears.
<1>b. ASSUME rows' = rows,
             \A m \in Transactions : \A x \in DOMAIN mine'[m] :
                /\ x \in RowIds /\ mine'[m][x].version > 0
                /\ x[1] \in Generated => x[2] = m \/ Present(x)
      PROVE  Inserted'
  BY <1>0, <1>a, <1>b DEF Inserted, Present
<1>1. CASE UNCHANGED vars
  BY <1>b, <1>1, Typing DEF vars, Inserted, TypedTransactions
<1>2. ASSUME NEW n \in Transactions, Begin(n) PROVE Inserted'
  <2>1. Began(n)
    BY <1>2, BeginEffect
  <2> QED BY <1>b, <2>1, Typing DEF Began, Inserted, TypedTransactions
<1>3. ASSUME NEW n \in Transactions, LookUp(n) \/ Passes(n) PROVE Inserted'
  BY <1>b, <1>3, Typing DEF LookUp, Passes, Inserted, TypedTransactions
<1>4. ASSUME NEW n \in Transactions, RollsBack(n) PROVE Inserted'
  <2>1. RolledBack(n)
    BY <1>4, RollBackEffect
  <2> QED BY <1>b, <2>1, Typing DEF RolledBack, Inserted, TypedTransactions
<1>5. ASSUME NEW n \in Transactions, Writes(n) PROVE Inserted'
  <2>1. PICK x : x = Target(n, Current(n)) /\ Wrote(n, x)
    BY <1>5, WriteEffect
  <2>2. x[1] \in Generated => x[2] = n \/ Present(x)
    <3>1. /\ More(n) /\ Current(n) \in Statements
          /\ Current(n) = job[n].script[at[n] + 1] /\ at[n] + 1 \in DOMAIN job[n].script
          /\ Current(n).do \in Explicit \union {"save", "observe"}
      BY <1>5, CurrentStatement DEF Writes
    <3>2. WellFormed(job[n])
      BY AllWellFormed DEF WellFormedAll
    <3>3. x[1] = Current(n).table
      BY <2>1, <3>1, TargetTable
    <3>4. CASE Current(n).do \in {"add", "observe"}
      BY <2>1, <3>4 DEF Target
    <3>5. CASE Current(n).do = "put"
      BY <3>1, <3>2, <3>3, <3>5 DEF WellFormed
    <3>6. CASE Current(n).do \in {"update", "match"}
      <4>1. x = <<Current(n).table, Current(n).key>>
        BY <2>1, <3>6 DEF Target
      <4>2. View(n, x).version > 0
        BY <1>5, <3>6, <4>1 DEF Writes, Hits
      <4>3. x \in DOMAIN mine[n] /\ x[1] \in Generated => x[2] = n \/ Present(x)
        BY DEF Inserted
      <4> QED BY <4>2, <4>3 DEF View, Present
    <3>7. CASE Current(n).do = "save"
      <4>1. x = <<Current(n).table, IF seen[n] = 0 THEN n ELSE seen[n]>>
        BY <2>1, <3>7 DEF Target
      <4>2. PICK i \in DOMAIN job[n].script : i = at[n] + 1
        BY <3>1
      <4>4. job[n].script[i].do = "save" /\ job[n].script[i] = Current(n)
        BY <3>1, <3>7, <4>2
      <4>5. Current(n).table \in Twins
        BY <4>4, SaveFacts
      <4>3. Looked(n, Current(n).table)
        <5>1. PICK k \in 1 .. (i - 1) : /\ job[n].script[k].do = "look"
                                        /\ job[n].script[k].table = Current(n).table
          BY <4>4, SaveFacts
        <5>2. at[n] \in Nat
          BY Typing DEF TypedTransactions
        <5>3. i - 1 = at[n]
          BY <4>2, <5>2
        <5>4. k \in 1 .. at[n]
          BY <5>3
        <5> QED BY <5>1, <5>4 DEF Looked
      <4> QED BY <4>1, <4>3, <4>5 DEF LookedAll, LookedOf
    <3> QED BY <3>1, <3>4, <3>5, <3>6, <3>7 DEF Explicit
  <2>3. \A m \in Transactions : \A y \in DOMAIN mine'[m] :
                /\ y \in RowIds /\ mine'[m][y].version > 0
                /\ y[1] \in Generated => y[2] = m \/ Present(y)
    <3> TAKE m \in Transactions
    <3> TAKE y \in DOMAIN mine'[m]
    <3>1. CASE m = n /\ y = x
      BY <2>1, <2>2, <3>1 DEF Wrote
    <3>2. CASE ~(m = n /\ y = x)
      <4>1. y \in DOMAIN mine[m] /\ mine'[m][y] = mine[m][y]
        BY <2>1, <3>2 DEF Wrote
      <4>2. y \in RowIds
        BY <4>1, Typing DEF TypedTransactions
      <4> QED BY <4>1, <4>2 DEF Inserted
    <3> QED BY <3>1, <3>2
  <2> QED BY <1>b, <2>1, <2>3 DEF Wrote
<1>6. ASSUME NEW n \in Transactions, Commit(n) PROVE Inserted'
  <2>1. Committed(n)
    BY <1>6, CommitEffect
  <2>2. phase'[n] = "committed"
    BY <2>1, Typing DEF Committed, TypedTransactions
  <2>3. ASSUME NEW x \in RowIds, x[1] \in Generated, Present(x)'
        PROVE  phase'[x[2]] = "committed"
    <3>1. CASE Present(x)
      BY <1>0, <1>a, <2>3, <3>1 DEF Inserted
    <3>2. CASE ~Present(x)
      <4>1. x \in DOMAIN mine[n]
        BY <2>1, <2>3, <3>2 DEF Committed, Present
      <4>2. x[2] = n
        BY <2>3, <3>2, <4>1 DEF Inserted
      <4> QED BY <2>2, <4>2
    <3> QED BY <3>1, <3>2
  <2>4. ASSUME NEW m \in Transactions, NEW x \in DOMAIN mine'[m]
        PROVE  /\ mine'[m][x].version > 0
               /\ x[1] \in Generated => x[2] = m \/ Present(x)'
    <3>1. m # n /\ x \in DOMAIN mine[m] /\ mine'[m] = mine[m]
      BY <2>1, <2>4 DEF Committed
    <3>2. x \in RowIds
      BY <3>1, Typing DEF TypedTransactions
    <3> QED BY <1>0, <3>1, <3>2 DEF Inserted
  <2> QED BY <2>3, <2>4 DEF Inserted
<1> QED BY <1>1, <1>2, <1>3, <1>4, <1>5, <1>6, Kinds

-----------------------------------------------------------------------------
(***************************************************************************)
(* Twins and the lone PUT.                                                 *)
(***************************************************************************)
LEMMA RacedNext ==
    ASSUME TypeOK, Phases, Inserted, LookedAll, Raced, [Next]_vars
    PROVE  Raced'
<1>0. /\ \A i \in DOMAIN log : /\ i \in DOMAIN log' /\ log'[i] = log[i]
                               /\ since'[log[i]] = since[log[i]]
      /\ (log' = log /\ rows' = rows) \/ \E n \in Transactions : Commit(n)
  BY LoggedStay
<1>1. CASE log' = log /\ rows' = rows
  BY <1>0, <1>1 DEF Raced, Present
<1>2. ASSUME NEW n \in Transactions, Commit(n) PROVE Raced'
  <2>1. Committed(n)
    BY <1>2, CommitEffect
  <2>2. SUFFICES ASSUME NEW t \in Twins, NEW i \in DOMAIN log', NEW j \in DOMAIN log',
                        i # j, NEW a, a = log'[i], NEW b, b = log'[j],
                        Present(<<t, a>>)', Present(<<t, b>>)'
                 PROVE  i > since'[b]
    BY DEF Raced, Present
  <2>3. /\ \A k \in Transactions \ {n} : Present(<<t, k>>)' <=> Present(<<t, k>>)
        /\ Present(<<t, n>>)' <=> Saved(n, t) /\ seen[n] = 0
        /\ Saved(n, t) => Looked(n, t)
    BY <1>2, TwinCommit
  <2>4. Len(log) \in Nat /\ DOMAIN log = 1 .. Len(log)
    BY Typing DEF TypedLog
  <2>5. \A k \in DOMAIN log' : \/ k \in DOMAIN log
                               \/ k = Len(log) + 1 /\ log'[k] = n
    BY <2>1 DEF Committed
  <2>6. \A k \in DOMAIN log : log'[k] = log[k] /\ log[k] \in Transactions \ {n}
    BY <2>1, Typing DEF Committed, TypedLog
  <2>7. since' = since /\ \A m \in Transactions : since[m] <= Len(log) /\ since[m] \in Nat
    BY <2>1, Typing DEF Committed, TypedLog, TypedTransactions
  <2>8. CASE i \in DOMAIN log /\ j \in DOMAIN log
    <3>1. Present(<<t, log[i]>>) /\ Present(<<t, log[j]>>)
      BY <2>2, <2>3, <2>6, <2>8
    <3> QED BY <2>2, <2>6, <2>7, <2>8, <3>1 DEF Raced
  <2>9. CASE i = Len(log) + 1 /\ j \in DOMAIN log
    <3>1. b \in Transactions
      BY <2>2, <2>6, <2>9
    <3> QED BY <2>4, <2>7, <2>9, <3>1
  <2>10. CASE i \in DOMAIN log /\ j = Len(log) + 1
    <3>1. b = n /\ Present(<<t, log[i]>>)
      BY <2>2, <2>3, <2>5, <2>6, <2>10, <2>4
    <3>2. Looked(n, t) /\ seen[n] = 0 /\ phase[n] = "open"
      BY <2>1, <2>2, <2>3, <3>1 DEF Committed
    <3> QED BY <2>7, <2>10, <3>1, <3>2 DEF LookedAll, LookedOf
  <2> QED BY <2>2, <2>5, <2>8, <2>9, <2>10
<1> QED BY <1>0, <1>1, <1>2

LatestFacts ==
    \A t : /\ Latest(t) \in Transactions \union {0}
           /\ Latest(t) # 0 => Present(<<t, Latest(t)>>)
           /\ Latest(t) = 0 <=> \A k \in Transactions : ~Present(<<t, k>>)
           /\ \A k \in Transactions : Present(<<t, k>>) => k <= Latest(t)

LEMMA LatestAlways == LatestFacts /\ LatestFacts'
<1>1. LatestFacts
  BY LatestIs DEF LatestFacts
<1> QED BY <1>1, PTL

LEMMA AnsweredNext ==
    ASSUME TypeOK, Phases, Inserted, LookedAll, Answered, [Next]_vars
    PROVE  Answered'
<1>0. /\ \A i \in DOMAIN log : /\ log'[i] = log[i]
                               /\ job'[log[i]] = job[log[i]]
                               /\ since'[log[i]] = since[log[i]]
      /\ (log' = log /\ rows' = rows) \/ \E n \in Transactions : Commit(n)
  BY LoggedStay
<1>1. Len(log) \in Nat /\ DOMAIN log = 1 .. Len(log)
  BY Typing DEF TypedLog
<1>2. CASE log' = log /\ rows' = rows
  <2>1. \A t : Latest(t)' = Latest(t)
    BY <1>2 DEF Latest, Present
  <2>2. Len(log) > 0 => Len(log) \in DOMAIN log
    BY <1>1
  <2> QED BY <1>0, <1>2, <2>1, <2>2 DEF Answered
<1>3. ASSUME NEW n \in Transactions, Commit(n) PROVE Answered'
  <2>1. Committed(n)
    BY <1>3, CommitEffect
  <2>2. log'[Len(log')] = n /\ Len(log') - 1 = Len(log)
    BY <1>1, <2>1 DEF Committed
  <2>3. SUFFICES ASSUME NEW t \in Twins, since[n] = Len(log), SavesIn(job[n], t)
                 PROVE  rows'[<<t, Latest(t)'>>].f = n
    BY <2>1, <2>2 DEF Answered, Committed
  <2>4. Saved(n, t)
    <3>1. DOMAIN job[n].script = 1 .. at[n]
      BY <2>1, Typing DEF Committed, TypedScript
    <3> QED BY <2>3, <3>1 DEF SavesIn, Saved
  <2>5. /\ \A k \in Transactions \ {n} : Present(<<t, k>>)' <=> Present(<<t, k>>)
        /\ ~Present(<<t, n>>)
        /\ Present(<<t, n>>)' <=> seen[n] = 0
        /\ \A k \in Transactions : <<t, k>> \in DOMAIN mine[n] => rows'[<<t, k>>].f = n
        /\ <<t, IF seen[n] = 0 THEN n ELSE seen[n]>> \in DOMAIN mine[n]
        /\ Looked(n, t)
    BY <1>3, <2>4, TwinCommit
  <2>6. seen[n] = Latest(t)
    BY <2>1, <2>3, <2>5 DEF LookedAll, LookedOf, Committed
  <2>7. PICK l : l = Latest(t)'
    OBVIOUS
  <2>8. /\ l \in Transactions \union {0}
        /\ l # 0 => Present(<<t, l>>)'
        /\ l = 0 <=> \A k \in Transactions : ~Present(<<t, k>>)'
        /\ \A k \in Transactions : Present(<<t, k>>)' => k <= l
    BY <2>7, LatestAlways DEF LatestFacts, Present
  <2>9. \A k \in Transactions : k \in Nat /\ k # 0
    BY NAssumption DEF Transactions
  <2>10. CASE seen[n] = 0
    <3>1. \A k \in Transactions : ~Present(<<t, k>>)
      BY <2>6, <2>10, LatestAlways DEF LatestFacts
    <3>2. l = n
      BY <2>5, <2>8, <2>9, <2>10, <3>1
    <3> QED BY <2>5, <2>7, <2>10, <3>2
  <2>11. CASE seen[n] # 0
    <3>1. PICK k \in Transactions : k = seen[n]
      BY <2>6, <2>11, LatestAlways DEF LatestFacts
    <3>2. Present(<<t, k>>) /\ k # n /\ \A j \in Transactions : Present(<<t, j>>) => j <= k
      BY <2>5, <2>6, <2>11, <3>1, LatestAlways DEF LatestFacts
    <3>3. l \in Transactions /\ Present(<<t, l>>)' /\ k <= l
      BY <2>5, <2>8, <3>1, <3>2
    <3>4. l # n /\ Present(<<t, l>>)
      BY <2>5, <2>11, <3>3
    <3>5. l = k
      BY <2>9, <3>2, <3>3, <3>4
    <3> QED BY <2>5, <2>7, <2>11, <3>1, <3>5
  <2> QED BY <2>10, <2>11
<1> QED BY <1>0, <1>2, <1>3

-----------------------------------------------------------------------------
(***************************************************************************)
(* Versions and If-Match.                                                  *)
(***************************************************************************)
LEMMA MatchedIs == MatchedInTurn <=> Matched
<1>1. \A x, k : Writers(x, k) = WritersIn(x, k)
  <2>1. \A x, k : {i \in 1 .. k : About(log[i], x) # {}}
                    = {i \in 1 .. k : SpeaksIn(job[log[i]], log[i], x)}
    BY NamesSpeak
  <2> QED BY <2>1 DEF Writers, WritersIn
<1> DEFINE Fits(i, s) ==
       s.do = "match" => WritersIn(<<s.table, s.key>>, i - 1) = job[log[i]].arg
<1>3. MatchedInTurn <=>
        \A i \in DOMAIN log : \A s \in ToSet(job[log[i]].script) : Fits(i, s)
  BY <1>1 DEF MatchedInTurn
<1>4. Matched <=>
        \A i \in DOMAIN log : \A l \in DOMAIN job[log[i]].script :
            Fits(i, job[log[i]].script[l])
  BY DEF Matched
<1>5. ASSUME NEW i \in DOMAIN log
      PROVE  (\A s \in ToSet(job[log[i]].script) : Fits(i, s))
               <=> \A l \in DOMAIN job[log[i]].script : Fits(i, job[log[i]].script[l])
  <2> DEFINE sc == job[log[i]].script
  <2>1. ToSet(sc) = {sc[l] : l \in DOMAIN sc}
    BY DEF ToSet
  <2> HIDE DEF Fits, sc
  <2>2. (\A s \in ToSet(sc) : Fits(i, s)) <=> \A l \in DOMAIN sc : Fits(i, sc[l])
    BY <2>1
  <2> QED BY <2>2 DEF sc
<1> HIDE DEF Fits
<1> QED BY <1>3, <1>4, <1>5

\* One more element, or none.
LEMMA CountMore ==
    ASSUME NEW k \in Nat, NEW S, NEW T, S \subseteq 1 .. k,
           T = S \/ T = S \union {k + 1}
    PROVE  /\ Cardinality(S) \in Nat
           /\ Cardinality(T) = IF k + 1 \in T THEN Cardinality(S) + 1 ELSE Cardinality(S)
<1>1. IsFiniteSet(S) /\ k + 1 \notin S
  <2>1. IsFiniteSet(1 .. k)
    BY FS_Interval
  <2>2. IsFiniteSet(S)
    BY <2>1, FS_Subset
  <2> QED BY <2>2
<1>2. Cardinality(S) \in Nat
  BY <1>1, FS_CardinalityType
<1>3. Cardinality(S \union {k + 1}) = Cardinality(S) + 1
  BY <1>1, FS_AddElement
<1> QED BY <1>1, <1>2, <1>3

\* A handler with If-Match has one statement, and it is about its row.
LEMMA IfMatchOnce ==
    ASSUME TypeOK, WrittenTold, NEW n \in Transactions, phase[n] = "open",
           NEW x \in DOMAIN mine[n], x[1] \in IfMatch
    PROVE  /\ at[n] = 1 /\ Len(job[n].script) = 1
           /\ job[n].script[1].table = x[1]
<1>1. x \in RowIds /\ x[1] \notin LookedUp
  BY Typing DEF TypedTransactions, IfMatch, LookedUp
<1>2. PICK i \in 1 .. at[n] : Speaks(n, i, x)
  BY <1>1 DEF WrittenTold, WrittenOf
<1>3. /\ at[n] \in Nat /\ at[n] <= Len(job[n].script) /\ Len(job[n].script) \in Nat
      /\ DOMAIN job[n].script = 1 .. Len(job[n].script)
  BY Typing DEF TypedScript
<1>4. i \in DOMAIN job[n].script /\ job[n].script[i].table = x[1]
  BY <1>2, <1>3 DEF Speaks, Spot
<1>5. Len(job[n].script) = 1
  <2>1. WellFormed(job[n])
    BY AllWellFormed DEF WellFormedAll
  <2> QED BY <1>4, <2>1 DEF WellFormed, IfMatch
<1> QED BY <1>2, <1>3, <1>4, <1>5

LEMMA CountedWrite ==
    ASSUME TypeOK, WrittenTold, Counted, NEW n \in Transactions, Writes(n),
           NEW x, x = Target(n, Current(n)), Wrote(n, x), x[1] \in IfMatch
    PROVE  /\ mine'[n][x].version = rows[x].version + 1
           /\ job[n].script[1].do = "match" => rows[x].version = job[n].arg
<1>1. /\ More(n) /\ phase[n] = "open" /\ at[n] + 1 \in DOMAIN job[n].script
      /\ Current(n) = job[n].script[at[n] + 1] /\ Current(n) \in Statements
  BY CurrentStatement DEF Writes
<1>2. x[1] = Current(n).table
  BY <1>1, TargetTable
<1>3. /\ at[n] \in Nat /\ at[n] <= Len(job[n].script) /\ Len(job[n].script) \in Nat
      /\ DOMAIN job[n].script = 1 .. Len(job[n].script)
  BY Typing DEF TypedScript
<1>4. Len(job[n].script) = 1
  <2>1. WellFormed(job[n])
    BY AllWellFormed DEF WellFormedAll
  <2> QED BY <1>1, <1>2, <2>1 DEF WellFormed, IfMatch
<1>5. at[n] = 0 /\ Current(n) = job[n].script[1]
  BY <1>1, <1>3, <1>4
<1>6. x \notin DOMAIN mine[n]
  BY <1>1, <1>5, IfMatchOnce
<1>7. View(n, x) = rows[x]
  BY <1>6 DEF View
<1>8. mine'[n][x].version = rows[x].version + 1
  BY <1>7 DEF Wrote, Revised
<1>9. Current(n).do = "match" => rows[x].version = job[n].arg
  <2>1. Current(n).do = "match" => x = <<Current(n).table, Current(n).key>>
    BY DEF Target
  <2> QED BY <1>7, <2>1 DEF Writes, Hits
<1> QED BY <1>5, <1>8, <1>9

LEMMA CountsStay ==
    ASSUME TypeOK, Phases, [Next]_vars, NEW x, NEW k \in Nat, k <= Len(log)
    PROVE  WritersIn(x, k)' = WritersIn(x, k)
<1>1. Len(log) \in Nat /\ DOMAIN log = 1 .. Len(log)
  BY Typing DEF TypedLog
<1>2. \A i \in 1 .. k : i \in DOMAIN log
  BY <1>1
<1>3. \A i \in 1 .. k : SpeaksIn(job'[log'[i]], log'[i], x)
                          <=> SpeaksIn(job[log[i]], log[i], x)
  BY <1>2, LoggedStay
<1>4. {i \in 1 .. k : SpeaksIn(job'[log'[i]], log'[i], x)}
        = {i \in 1 .. k : SpeaksIn(job[log[i]], log[i], x)}
  BY <1>3
<1> QED BY <1>4 DEF WritersIn

LEMMA CountedNext ==
    ASSUME TypeOK, Phases, WrittenTold, Counted, Matched, [Next]_vars
    PROVE  Counted' /\ Matched'
<1>0. /\ \A i \in DOMAIN log : /\ i \in DOMAIN log' /\ log'[i] = log[i]
                               /\ job'[log[i]] = job[log[i]]
      /\ (log' = log /\ rows' = rows) \/ \E n \in Transactions : Commit(n)
  BY LoggedStay
<1>a. Len(log) \in Nat /\ DOMAIN log = 1 .. Len(log)
  BY Typing DEF TypedLog
\* Until the next commit.
<1>b. ASSUME log' = log, rows' = rows,
             \A m \in Transactions : \A x \in DOMAIN mine'[m] : x[1] \in IfMatch =>
               /\ mine'[m][x].version = rows[x].version + 1
               /\ job'[m].script[1].do = "match" => rows[x].version = job'[m].arg
      PROVE  Counted' /\ Matched'
  <2>1. \A x, k : k \in 0 .. Len(log) => WritersIn(x, k)' = WritersIn(x, k)
    BY <1>a, CountsStay
  <2>2. \A x : WritersIn(x, Len(log))' = WritersIn(x, Len(log))
    <3> TAKE x
    <3>1. PICK k : k = Len(log) /\ k \in 0 .. Len(log)
      <4>1. Len(log) \in 0 .. Len(log)
        BY <1>a
      <4> QED BY <4>1
    <3>2. WritersIn(x, k)' = WritersIn(x, k)
      BY <2>1, <3>1
    <3>3. Len(log') = k
      BY <1>b, <3>1
    <3> QED BY <3>1, <3>2, <3>3 DEF WritersIn
  <2>3. Counted'
    BY <1>b, <2>2 DEF Counted
  <2>4. Matched'
    <3> SUFFICES ASSUME NEW i \in DOMAIN log, NEW l \in DOMAIN job'[log[i]].script,
                        NEW s, s = job'[log[i]].script[l], s.do = "match"
                 PROVE  WritersIn(<<s.table, s.key>>, i - 1)' = job'[log[i]].arg
      BY <1>b DEF Matched
    <3>1. i - 1 \in 0 .. Len(log)
      <4>1. i \in 1 .. Len(log)
        BY <1>a
      <4> QED BY <1>a, <4>1
    <3>2. job'[log[i]] = job[log[i]]
      BY <1>0
    <3>3. WritersIn(<<s.table, s.key>>, i - 1)' = WritersIn(<<s.table, s.key>>, i - 1)
      BY <2>1, <3>1
    <3> QED BY <3>2, <3>3 DEF Matched
  <2> QED BY <2>3, <2>4
<1>1. CASE UNCHANGED vars
  BY <1>b, <1>1 DEF vars, Counted
<1>2. ASSUME NEW n \in Transactions, Begin(n) PROVE Counted' /\ Matched'
  <2>1. Began(n)
    BY <1>2, BeginEffect
  <2> QED BY <1>b, <2>1 DEF Began, Counted
<1>3. ASSUME NEW n \in Transactions, LookUp(n) \/ Passes(n) PROVE Counted' /\ Matched'
  BY <1>b, <1>3 DEF LookUp, Passes, Counted
<1>4. ASSUME NEW n \in Transactions, RollsBack(n) PROVE Counted' /\ Matched'
  <2>1. RolledBack(n)
    BY <1>4, RollBackEffect
  <2>2. \A m \in Transactions : \A x \in DOMAIN mine'[m] : m # n /\ mine'[m] = mine[m]
    BY <2>1 DEF RolledBack
  <2>3. UNCHANGED <<log, rows, job>>
    BY <2>1 DEF RolledBack
  <2> QED BY <1>b, <2>2, <2>3 DEF Counted
<1>5. ASSUME NEW n \in Transactions, Writes(n) PROVE Counted' /\ Matched'
  <2>1. PICK x : x = Target(n, Current(n)) /\ Wrote(n, x)
    BY <1>5, WriteEffect
  <2>2. ASSUME NEW m \in Transactions, NEW y \in DOMAIN mine'[m], y[1] \in IfMatch
        PROVE  /\ mine'[m][y].version = rows[y].version + 1
               /\ job[m].script[1].do = "match" => rows[y].version = job[m].arg
    <3>1. CASE m = n /\ y = x
      BY <1>5, <2>1, <2>2, <3>1, CountedWrite
    <3>2. CASE ~(m = n /\ y = x)
      <4>1. y \in DOMAIN mine[m] /\ mine'[m][y] = mine[m][y]
        BY <2>1, <2>2, <3>2 DEF Wrote
      <4> QED BY <2>2, <4>1 DEF Counted
    <3> QED BY <3>1, <3>2
  <2>3. UNCHANGED <<log, rows, job>>
    BY <2>1 DEF Wrote
  <2> QED BY <1>b, <2>2, <2>3
<1>6. ASSUME NEW n \in Transactions, Commit(n) PROVE Counted' /\ Matched'
  <2>1. Committed(n)
    BY <1>6, CommitEffect
  <2>2. \A x, k : k \in 0 .. Len(log) => WritersIn(x, k)' = WritersIn(x, k)
    BY <1>a, CountsStay
  <2>3. ASSUME NEW x \in RowIds, x[1] \in IfMatch
        PROVE  x \in DOMAIN mine[n] <=> SpeaksIn(job[n], n, x)
    <3>1. WrittenOf(n, x)
      BY <2>1, <2>3 DEF WrittenTold, Committed, IfMatch, LookedUp
    <3>2. DOMAIN job[n].script = 1 .. at[n]
      BY <2>1, Typing DEF Committed, TypedScript
    <3> QED BY <3>1, <3>2 DEF WrittenOf, SpeaksIn, Speaks
  <2>4. ASSUME NEW x \in RowIds, x[1] \in IfMatch
        PROVE  rows'[x].version = WritersIn(x, Len(log))'
    <3> DEFINE S == {i \in 1 .. Len(log) : SpeaksIn(job[log[i]], log[i], x)}
               T == {i \in 1 .. (Len(log) + 1) : SpeaksIn(job'[log'[i]], log'[i], x)}
    <3>1. rows[x].version = Cardinality(S)
      BY <2>4 DEF Counted, WritersIn
    <3>2. /\ \A i \in 1 .. Len(log) : i \in T <=> i \in S
          /\ Len(log) + 1 \in T <=> SpeaksIn(job[n], n, x)
          /\ T \subseteq 1 .. (Len(log) + 1)
      <4>1. \A i \in 1 .. Len(log) : /\ log'[i] = log[i] /\ job'[log[i]] = job[log[i]]
                                     /\ i \in 1 .. (Len(log) + 1)
        BY <1>0, <1>a
      <4>2. /\ Len(log) + 1 \in 1 .. (Len(log) + 1)
            /\ log'[Len(log) + 1] = n /\ job' = job
        BY <1>a, <2>1 DEF Committed
      <4> QED BY <4>1, <4>2
    <3>3. WritersIn(x, Len(log))' = Cardinality(T)
      BY <2>1 DEF Committed, WritersIn
    <3>4. S \subseteq 1 .. Len(log)
      OBVIOUS
    <3> HIDE DEF S, T
    <3>5. T = S \/ T = S \union {Len(log) + 1}
      <4>1. \A i \in 1 .. (Len(log) + 1) : i \in 1 .. Len(log) \/ i = Len(log) + 1
        BY <1>a
      <4>2. Len(log) + 1 \notin 1 .. Len(log)
        BY <1>a
      <4>3. CASE Len(log) + 1 \in T
        BY <3>2, <3>4, <4>1, <4>2, <4>3
      <4>4. CASE Len(log) + 1 \notin T
        BY <3>2, <3>4, <4>1, <4>2, <4>4
      <4> QED BY <4>3, <4>4
    <3>6. Cardinality(T) = IF SpeaksIn(job[n], n, x) THEN Cardinality(S) + 1
                                                      ELSE Cardinality(S)
      <4>1. Len(log) + 1 \in T <=> SpeaksIn(job[n], n, x)
        BY <3>2
      <4> QED BY <1>a, <3>4, <3>5, <4>1, CountMore
    <3>7. CASE SpeaksIn(job[n], n, x)
      <4>1. x \in DOMAIN mine[n]
        BY <2>3, <2>4, <3>7
      <4>2. rows'[x].version = rows[x].version + 1
        BY <2>1, <2>4, <4>1 DEF Committed, Counted
      <4> QED BY <3>1, <3>3, <3>6, <3>7, <4>2
    <3>8. CASE ~SpeaksIn(job[n], n, x)
      <4>1. rows'[x] = rows[x]
        BY <2>1, <2>3, <2>4, <3>8 DEF Committed
      <4> QED BY <3>1, <3>3, <3>6, <3>8, <4>1
    <3> QED BY <3>7, <3>8
  <2>5. ASSUME NEW m \in Transactions, NEW y \in DOMAIN mine'[m], y[1] \in IfMatch
        PROVE  /\ mine'[m][y].version = rows'[y].version + 1
               /\ job'[m].script[1].do = "match" => rows'[y].version = job'[m].arg
    <3>1. m # n /\ y \in DOMAIN mine[m] /\ mine'[m] = mine[m] /\ job' = job
      BY <2>1, <2>5 DEF Committed
    <3>2. y \in RowIds /\ y \notin DOMAIN mine[n]
      BY <3>1 DEF TypeOK, Free
    <3> QED BY <2>1, <2>5, <3>1, <3>2 DEF Committed, Counted
  <2>6. Counted'
    BY <2>4, <2>5 DEF Counted
  <2>7. ASSUME NEW i \in DOMAIN log', NEW m, m = log'[i], NEW l \in DOMAIN job'[m].script,
               NEW s, s = job'[m].script[l], s.do = "match"
        PROVE  WritersIn(<<s.table, s.key>>, i - 1)' = job'[m].arg
    <3>1. CASE i \in DOMAIN log
      <4>1. i - 1 \in 0 .. Len(log)
        BY <1>a, <3>1
      <4>2. m = log[i] /\ job'[m] = job[m]
        BY <1>0, <2>7, <3>1
      <4> QED BY <2>2, <2>7, <3>1, <4>1, <4>2 DEF Matched
    <3>2. CASE i = Len(log) + 1
      <4> DEFINE x == <<s.table, s.key>>
      <4>1. m = n /\ job'[m] = job[n] /\ i - 1 = Len(log) /\ i - 1 \in 0 .. Len(log)
        BY <1>a, <2>1, <2>7, <3>2 DEF Committed
      <4>2. x \in RowIds /\ x[1] \in IfMatch /\ Len(job[n].script) = 1
        <5>1. WellFormed(job[n])
          BY AllWellFormed DEF WellFormedAll
        <5> QED BY <2>7, <4>1, <5>1 DEF WellFormed, IfMatch
      <4>3. SpeaksIn(job[n], n, x)
        BY <2>7, <4>1 DEF SpeaksIn, Spot, Explicit
      <4>4. x \in DOMAIN mine[n]
        BY <2>3, <4>2, <4>3
      <4>5. l = 1
        BY <2>7, <4>1, <4>2, Typing DEF TypedScript
      <4>6. rows[x].version = job[n].arg
        BY <2>7, <4>1, <4>2, <4>4, <4>5 DEF Counted
      <4>7. rows[x].version = WritersIn(x, Len(log))
        BY <4>2 DEF Counted
      <4>8. WritersIn(x, i - 1)' = WritersIn(x, i - 1)
        BY <2>2, <4>1
      <4> QED BY <4>1, <4>6, <4>7, <4>8
    <3> QED BY <2>1, <3>1, <3>2 DEF Committed
  <2>8. Matched'
    BY <2>7 DEF Matched
  <2> QED BY <2>6, <2>8
<1> QED BY <1>0, <1>1, <1>2, <1>3, <1>4, <1>5, <1>6, Kinds

-----------------------------------------------------------------------------
(***************************************************************************)
(* The history of the delivery.                                            *)
(***************************************************************************)
LEMMA DeliverIs ==
    /\ Len(Deliver) = 3 /\ Deliver[1].do = "look" /\ Deliver[1].table = "deliveries"
    /\ Deliver[3] = Observe
BY DEF Deliver, Look, Statement

\* What is delivered stays delivered, what is known stays known.
LEMMA KnownStays ==
    ASSUME TypeOK, Phases, Inserted, [Next]_vars
    PROVE  /\ \A n \in Transactions : IsDelivery(n) => IsDelivery(n)'
           /\ \A s : Known(s) => Known(s)'
<1>1. \A n \in Transactions : phase[n] = "committed" =>
         phase'[n] = "committed" /\ job'[n] = job[n]
  <2> TAKE n \in Transactions
  <2>1. phase[n] = "committed" => \E i \in DOMAIN log : log[i] = n
    BY Typing DEF TypedLog
  <2> QED BY <2>1, LoggedStay, RowsStay
<1>2. \A n \in Transactions : IsDelivery(n) => IsDelivery(n)'
  BY <1>1 DEF IsDelivery
<1>3. ASSUME NEW s, NEW k \in Transactions,
             Present(<<"delivery_status_history", k>>), StatusBy(k) = s
      PROVE  Present(<<"delivery_status_history", k>>)' /\ StatusBy(k)' = s
  <2>1. <<"delivery_status_history", k>> \in RowIds
    BY DEF RowIds, Generated
  <2>2. phase[k] = "committed"
    BY <1>3, <2>1 DEF Inserted, Generated
  <2>3. Present(<<"delivery_status_history", k>>)'
    BY <1>3, <2>1, RowsStay
  <2> QED BY <1>1, <1>3, <2>2, <2>3 DEF StatusBy
<1>4. \A s : Known(s) => Known(s)'
  BY <1>3 DEF Known
<1> QED BY <1>2, <1>4

\* The last statement of PUT /delivery leaves its status in the history.
LEMMA StatusObserved ==
    ASSUME TypeOK, Phases, Inserted, History, NEW n \in Transactions,
           Writes(n) \/ LookUp(n) \/ Passes(n), at'[n] = 3,
           job[n].script = Deliver, NEW s \in Nat \ {0}, job[n].arg = s
    PROVE  <<"delivery_status_history", n>> \in DOMAIN mine'[n] \/ Known(s)
<1>1. More(n) /\ at' = [at EXCEPT ![n] = at[n] + 1] /\ at[n] \in Nat
  BY Typing DEF Writes, LookUp, Passes, WriteRow, Step, TypedTransactions
<1>2. at[n] = 2
  <2>1. at'[n] = at[n] + 1
    BY <1>1, Typing DEF TypedTransactions
  <2> QED BY <1>1, <2>1
<1>3. Current(n) = Observe
  BY <1>2, DeliverIs DEF Current
<1>4. Observe.do = "observe" /\ Observe.table = "delivery_status_history"
  BY DEF Observe, Statement
<1>5. CASE Writes(n)
  <2>1. PICK x : x = Target(n, Current(n)) /\ Wrote(n, x)
    BY <1>5, WriteEffect
  <2>2. x = <<"delivery_status_history", n>>
    BY <1>3, <1>4, <2>1 DEF Target
  <2> QED BY <2>1, <2>2 DEF Wrote
<1>6. CASE LookUp(n)
  BY <1>3, <1>4, <1>6 DEF LookUp
<1>7. CASE Passes(n)
  <2>1. StatusBy(seen[n]) = s
    BY <1>3, <1>4, <1>7 DEF Passes, IsNews
  <2>2. seen[n] \in 0 .. N /\ seen[n] # 0
    BY <2>1, Typing DEF TypedTransactions, StatusBy
  <2>3. PICK k \in Transactions : k = seen[n]
    BY <2>2, NAssumption DEF Transactions
  <2>4. Looked(n, "deliveries")
    <3>1. 1 \in 1 .. at[n]
      BY <1>2
    <3> QED BY <3>1, DeliverIs DEF Looked
  <2>5. IsDelivery(k)
    BY <2>3, <2>4 DEF History
  <2>6. job[k].arg = s
    BY <2>1, <2>2, <2>3 DEF StatusBy
  <2> QED BY <2>5, <2>6 DEF History
<1> QED BY <1>5, <1>6, <1>7

LEMMA HistoryNext ==
    ASSUME TypeOK, Phases, WrittenTold, Inserted, History, [Next]_vars
    PROVE  History'
<1>0. /\ \A n \in Transactions : IsDelivery(n) => IsDelivery(n)'
      /\ \A s : Known(s) => Known(s)'
  BY KnownStays
\* Until the next commit.
<1>b. ASSUME rows' = rows,
             \A m \in Transactions :
                /\ IsDelivery(m)' => IsDelivery(m) /\ job'[m] = job[m]
                /\ \A k \in Transactions : Looked(m, "deliveries")' /\ seen'[m] = k
                                              => IsDelivery(k)
                /\ \A s \in Nat \ {0} :
                      /\ phase'[m] = "open" /\ job'[m].script = Deliver
                      /\ at'[m] = 3 /\ job'[m].arg = s
                      => <<"delivery_status_history", m>> \in DOMAIN mine'[m] \/ Known(s)
      PROVE  History'
  <2>1. \A n \in Transactions, s \in Nat \ {0} :
           IsDelivery(n)' /\ job'[n].arg = s => Known(s)'
    BY <1>0, <1>b DEF History
  <2>2. \A k \in Transactions : rows'[<<"deliveries", 0>>].f = k => IsDelivery(k)'
    BY <1>0, <1>b DEF History
  <2>3. \A n, k \in Transactions :
           Looked(n, "deliveries")' /\ seen'[n] = k => IsDelivery(k)'
    BY <1>0, <1>b
  <2>4. \A n \in Transactions, s \in Nat \ {0} :
           /\ phase'[n] = "open" /\ job'[n].script = Deliver
           /\ at'[n] = 3 /\ job'[n].arg = s
           => <<"delivery_status_history", n>> \in DOMAIN mine'[n] \/ Known(s)'
    BY <1>0, <1>b
  <2> QED BY <2>1, <2>2, <2>3, <2>4 DEF History
<1>1. CASE UNCHANGED vars
  <2>1. \A m \in Transactions : Looked(m, "deliveries")' <=> Looked(m, "deliveries")
    BY <1>1 DEF vars, Looked
  <2>2. \A m \in Transactions : IsDelivery(m)' <=> IsDelivery(m)
    BY <1>1 DEF vars, IsDelivery
  <2> QED BY <1>b, <1>1, <2>1, <2>2 DEF vars, History
<1>2. ASSUME NEW n \in Transactions, Begin(n) PROVE History'
  <2>1. Began(n) /\ phase \in [Transactions -> {"new", "open", "committed", "rolled back"}]
    BY <1>2, BeginEffect, Typing DEF TypedTransactions
  <2>a. at'[n] = 0
    BY <2>1 DEF Began
  <2>b. 1 .. 0 = {}
    OBVIOUS
  <2>2. ~Looked(n, "deliveries")'
    BY <2>a, <2>b DEF Looked
  <2>3. \A m \in Transactions \ {n} : Looked(m, "deliveries")' <=> Looked(m, "deliveries")
    BY <2>1 DEF Began, Looked
  <2>4. /\ ~IsDelivery(n)'
        /\ \A m \in Transactions \ {n} : IsDelivery(m)' <=> IsDelivery(m)
    BY <2>1 DEF Began, IsDelivery
  <2>5. rows' = rows
    BY <2>1 DEF Began
  <2>6. ASSUME NEW m \in Transactions, at'[m] = 3
        PROVE  m # n /\ job'[m] = job[m] /\ phase'[m] = phase[m] /\ mine'[m] = mine[m]
               /\ at'[m] = at[m]
    <3>1. m # n
      BY <2>6, <2>a
    <3> QED BY <2>1, <3>1 DEF Began
  <2>7. \A m \in Transactions \ {n} : job'[m] = job[m] /\ seen'[m] = seen[m]
    BY <2>1 DEF Began
  <2>8. ASSUME NEW m \in Transactions, NEW k \in Transactions,
               Looked(m, "deliveries")', seen'[m] = k
        PROVE  IsDelivery(k)
    BY <2>2, <2>3, <2>7, <2>8 DEF History
  <2>9. ASSUME NEW m \in Transactions, NEW s \in Nat \ {0}, phase'[m] = "open",
               job'[m].script = Deliver, at'[m] = 3, job'[m].arg = s
        PROVE  <<"delivery_status_history", m>> \in DOMAIN mine'[m] \/ Known(s)
    BY <2>6, <2>9 DEF History
  <2> QED BY <1>b, <2>4, <2>5, <2>7, <2>8, <2>9
<1>3. ASSUME NEW n \in Transactions, Writes(n) \/ LookUp(n) \/ Passes(n) PROVE History'
  <2>1. /\ More(n) /\ at' = [at EXCEPT ![n] = at[n] + 1] /\ job' = job /\ rows' = rows
        /\ phase' = phase
    BY <1>3, Typing DEF Writes, LookUp, Passes, WriteRow, Step, TypedTransactions
  <2>2. \A m \in Transactions : IsDelivery(m)' <=> IsDelivery(m)
    BY <2>1 DEF IsDelivery
  <2>3. /\ \A m \in Transactions \ {n} : seen'[m] = seen[m]
        /\ seen'[n] # seen[n] => LookUp(n)
    BY <1>3, Typing DEF Writes, LookUp, Passes, WriteRow, TypedTransactions
  <2>4. /\ Looked(n, "deliveries")' <=> \/ Looked(n, "deliveries")
                                        \/ Current(n).do = "look" /\ Current(n).table = "deliveries"
        /\ \A m \in Transactions \ {n} : Looked(m, "deliveries")' <=> Looked(m, "deliveries")
    BY <2>1, OneMore
  <2>5. ASSUME NEW m \in Transactions, NEW k \in Transactions,
               Looked(m, "deliveries")', seen'[m] = k
        PROVE  IsDelivery(k)
    <3>1. CASE m # n
      BY <2>3, <2>4, <2>5, <3>1 DEF History
    <3>2. CASE m = n /\ ~LookUp(n)
      <4>1. Current(n).do # "look"
        BY <1>3, <3>2 DEF Writes, Passes, Explicit
      <4> QED BY <2>3, <2>4, <2>5, <3>2, <4>1 DEF History
    <3>3. CASE m = n /\ LookUp(n)
      <4>1. SawLatest(n) /\ seen \in [Transactions -> 0 .. N]
        BY <3>3, LookUpEffect, Typing DEF TypedTransactions
      <4>2. ~Looked(n, "deliveries")
        BY <4>1 DEF SawLatest, Looked
      <4>3. Current(n).table = "deliveries"
        BY <2>4, <2>5, <3>3, <4>2
      <4>4. rows[<<"deliveries", 0>>].f = k
        BY <2>5, <3>3, <4>1, <4>3 DEF SawLatest, Existing, Generated
      <4> QED BY <4>4 DEF History
    <3> QED BY <3>1, <3>2, <3>3
  <2>6. ASSUME NEW m \in Transactions, NEW s \in Nat \ {0}, phase'[m] = "open",
               job'[m].script = Deliver, at'[m] = 3, job'[m].arg = s
        PROVE  <<"delivery_status_history", m>> \in DOMAIN mine'[m] \/ Known(s)
    <3>1. CASE m = n
      BY <1>3, <2>1, <2>6, <3>1, StatusObserved
    <3>2. CASE m # n
      <4>1. at'[m] = at[m] /\ mine'[m] = mine[m]
        BY <1>3, <2>1, <3>2, Typing DEF Writes, LookUp, Passes, WriteRow, TypedTransactions
      <4> QED BY <2>1, <2>6, <4>1 DEF History
    <3> QED BY <3>1, <3>2
  <2> QED BY <1>b, <2>1, <2>2, <2>5, <2>6
<1>4. ASSUME NEW n \in Transactions, RollsBack(n) PROVE History'
  <2>1. RolledBack(n) /\ phase \in [Transactions -> {"new", "open", "committed", "rolled back"}]
    BY <1>4, RollBackEffect, Typing DEF TypedTransactions
  <2>2. \A m \in Transactions : Looked(m, "deliveries")' <=> Looked(m, "deliveries")
    BY <2>1 DEF RolledBack, Looked
  <2>3. \A m \in Transactions : IsDelivery(m)' => IsDelivery(m) /\ job'[m] = job[m]
    BY <2>1 DEF RolledBack, IsDelivery
  <2>4. \A m \in Transactions, k \in Transactions :
           Looked(m, "deliveries")' /\ seen'[m] = k => IsDelivery(k)
    BY <2>1, <2>2 DEF RolledBack, History
  <2>5. ASSUME NEW m \in Transactions, NEW s \in Nat \ {0}, phase'[m] = "open",
               job'[m].script = Deliver, at'[m] = 3, job'[m].arg = s
        PROVE  <<"delivery_status_history", m>> \in DOMAIN mine'[m] \/ Known(s)
    <3>1. m # n /\ mine'[m] = mine[m] /\ phase[m] = "open" /\ job' = job /\ at' = at
      BY <2>1, <2>5 DEF RolledBack
    <3> QED BY <2>5, <3>1 DEF History
  <2> QED BY <1>b, <2>1, <2>3, <2>4, <2>5 DEF RolledBack
<1>5. ASSUME NEW n \in Transactions, Commit(n) PROVE History'
  <2>1. Committed(n) /\ phase \in [Transactions -> {"new", "open", "committed", "rolled back"}]
    BY <1>5, CommitEffect, Typing DEF TypedTransactions
  <2>2. ASSUME NEW m \in Transactions, NEW s \in Nat \ {0}, IsDelivery(m)', job'[m].arg = s
        PROVE  Known(s)'
    <3>1. CASE m # n
      <4>1. IsDelivery(m) /\ job[m].arg = s
        BY <2>1, <2>2, <3>1 DEF Committed, IsDelivery
      <4> QED BY <1>0, <4>1 DEF History
    <3>2. CASE m = n
      <4>1. job[n].script = Deliver /\ phase[n] = "open" /\ at[n] = 3 /\ job[n].arg = s
        BY <2>1, <2>2, <3>2, DeliverIs DEF Committed, IsDelivery
      <4>2. <<"delivery_status_history", n>> \in DOMAIN mine[n] \/ Known(s)
        BY <4>1 DEF History
      <4>3. CASE <<"delivery_status_history", n>> \in DOMAIN mine[n]
        <5>1. Present(<<"delivery_status_history", n>>)'
          BY <2>1, <4>3 DEF Committed, Inserted, Present
        <5>2. StatusBy(n)' = s
          <6>1. n # 0
            BY DEF Transactions
          <6>2. job' = job
            BY <2>1 DEF Committed
          <6> QED BY <4>1, <6>1, <6>2 DEF StatusBy
        <5> QED BY <5>1, <5>2 DEF Known
      <4> QED BY <1>0, <4>2, <4>3
    <3> QED BY <3>1, <3>2
  <2>3. ASSUME NEW k \in Transactions, rows'[<<"deliveries", 0>>].f = k
        PROVE  IsDelivery(k)'
    <3> DEFINE d == <<"deliveries", 0>>
    <3>1. d \in RowIds /\ d[1] \notin LookedUp /\ "f" \in Fields
      BY DEF RowIds, PerJourney, LookedUp, Fields
    <3>2. rows'[d]["f"] = IF NamesIn(job[n], n, d, "f") THEN n ELSE rows[d]["f"]
      BY <1>5, <3>1, CommitSays
    <3>3. CASE NamesIn(job[n], n, d, "f")
      <4>1. PICK i \in DOMAIN job[n].script :
               job[n].script[i].do \in Explicit /\ Spot(n, job[n].script[i]) = d
        BY <3>3 DEF NamesIn
      <4>2. job[n].script[i].table = "deliveries"
        BY <4>1 DEF Spot
      <4>3. WellFormed(job[n])
        BY AllWellFormed DEF WellFormedAll
      <4>4. job[n].script = Deliver
        BY <4>1, <4>2, <4>3 DEF WellFormed
      <4> QED BY <2>1, <2>3, <3>2, <3>3, <4>4 DEF Committed, IsDelivery
    <3>4. CASE ~NamesIn(job[n], n, d, "f")
      BY <1>0, <2>3, <3>2, <3>4 DEF History
    <3> QED BY <3>3, <3>4
  <2>4. ASSUME NEW m \in Transactions, NEW k \in Transactions,
               Looked(m, "deliveries")', seen'[m] = k
        PROVE  IsDelivery(k)'
    <3>1. Looked(m, "deliveries") /\ seen[m] = k
      BY <2>1, <2>4 DEF Committed, Looked
    <3> QED BY <1>0, <3>1 DEF History
  <2>5. ASSUME NEW m \in Transactions, NEW s \in Nat \ {0}, phase'[m] = "open",
               job'[m].script = Deliver, at'[m] = 3, job'[m].arg = s
        PROVE  <<"delivery_status_history", m>> \in DOMAIN mine'[m] \/ Known(s)'
    <3>1. m # n /\ mine'[m] = mine[m] /\ phase[m] = "open" /\ job' = job /\ at' = at
      BY <2>1, <2>5 DEF Committed
    <3> QED BY <1>0, <2>5, <3>1 DEF History
  <2> QED BY <2>2, <2>3, <2>4, <2>5 DEF History
<1> QED BY <1>1, <1>2, <1>3, <1>4, <1>5, Kinds

-----------------------------------------------------------------------------
(***************************************************************************)
(* The inductive invariant, and the properties it implies.                 *)
(***************************************************************************)
IInv ==
    /\ TypeOK /\ Phases /\ WrittenTold /\ LastWord /\ Inserted /\ Counted
    /\ Matched /\ LookedAll /\ Raced /\ Answered /\ History

LEMMA InitTypes == Init => TypeOK /\ Phases
<1> SUFFICES ASSUME Init PROVE TypeOK /\ Phases
  OBVIOUS
<1>1. /\ group \in DOMAIN Handlers
      /\ rows = [x \in RowIds |-> IF x[1] = "journeys" THEN Born ELSE Absent]
      /\ phase = [n \in Transactions |-> "new"]
      /\ job = [n \in Transactions |-> Job(<<>>, 0)]
      /\ since = [n \in Transactions |-> 0] /\ at = [n \in Transactions |-> 0]
      /\ seen = [n \in Transactions |-> 0] /\ mine = [n \in Transactions |-> <<>>]
      /\ log = <<>>
  BY DEF Init
<1>2. Born \in Columns /\ Absent \in Columns
  BY NAssumption DEF Born, Absent, Columns
<1>3. Job(<<>>, 0) \in Jobs /\ Job(<<>>, 0).script = <<>>
  BY DEF Job, Jobs
<1>4. \A n \in Transactions : DOMAIN mine[n] = {} /\ Len(job[n].script) = 0
  BY <1>1, <1>3, EmptyDomain
<1>5. /\ log \in Seq(Transactions) /\ Len(log) = 0 /\ DOMAIN log = {}
      /\ ToSet(log) = {}
  BY <1>1, EmptyDomain DEF ToSet
<1>6. rows \in [RowIds -> Columns] /\ job \in [Transactions -> Jobs]
  BY <1>1, <1>2, <1>3
<1>7. ToSet(log) = {n \in Transactions : phase[n] = "committed"}
  BY <1>1, <1>5
<1>8. 0 \in 0 .. N
  BY NAssumption
<1>9. TypeOK
  BY <1>1, <1>4, <1>5, <1>6, <1>7, <1>8 DEF TypeOK
<1>10. Phases
  BY <1>1, <1>5 DEF Phases
<1> QED BY <1>9, <1>10

LEMMA InitIInv == Init => IInv
<1> SUFFICES ASSUME Init PROVE IInv
  OBVIOUS
<1>1. TypeOK /\ Phases
  BY InitTypes
<1>2. /\ rows = [x \in RowIds |-> IF x[1] = "journeys" THEN Born ELSE Absent]
      /\ phase = [n \in Transactions |-> "new"]
      /\ at = [n \in Transactions |-> 0] /\ seen = [n \in Transactions |-> 0]
      /\ mine = [n \in Transactions |-> <<>>] /\ log = <<>>
  BY DEF Init
<1>3. /\ \A n \in Transactions : DOMAIN mine[n] = {} /\ phase[n] = "new"
      /\ DOMAIN log = {} /\ Len(log) = 0
  BY <1>2, EmptyDomain
<1>4. /\ \A x \in RowIds : x[1] # "journeys" => rows[x] = Absent
      /\ \A x \in RowIds, c \in Fields : rows[x][c] = 0
      /\ Absent.version = 0
  BY <1>2 DEF Absent, Born, Fields
<1>5. \A n \in Transactions : at[n] = 0 /\ 1 .. at[n] = {}
  BY <1>2
<1>6. \A n \in Transactions : \A t : ~Looked(n, t) /\ ~Saved(n, t)
  BY <1>5 DEF Looked, Saved
<1>7. \A t \in Generated : \A k \in Transactions : ~Present(<<t, k>>)
  <2>1. \A t \in Generated : \A k \in Transactions : <<t, k>> \in RowIds /\ <<t, k>>[1] # "journeys"
    BY DEF RowIds, Generated
  <2>2. \A t \in Generated : \A k \in Transactions : rows[<<t, k>>].version = 0
    BY <1>4, <2>1
  <2>3. ~(0 > 0)
    OBVIOUS
  <2> QED BY <2>2, <2>3, Zenon DEF Present
<1>8. WrittenTold
  BY <1>3 DEF WrittenTold
<1>9. LastWord
  BY <1>3, <1>4 DEF LastWord
<1>10. Inserted
  BY <1>3, <1>4 DEF Inserted, Present, Generated
<1>11. Counted /\ Matched
  <2>1. \A x : WritersIn(x, Len(log)) = 0
    <3>1. 1 .. Len(log) = {}
      BY <1>3
    <3>2. \A x : {i \in 1 .. Len(log) : SpeaksIn(job[log[i]], log[i], x)} = {}
      BY <3>1
    <3> QED BY <3>2, FS_EmptySet DEF WritersIn
  <2> QED BY <1>3, <1>4, <2>1 DEF Counted, Matched, IfMatch
<1>12. LookedAll
  BY <1>3, <1>6, <1>7 DEF LookedAll, LookedOf, Twins, Generated
<1>13. Raced /\ Answered
  BY <1>3 DEF Raced, Answered
<1>14. History
  <2>1. <<"deliveries", 0>> \in RowIds /\ "f" \in Fields
    BY DEF RowIds, PerJourney, Fields
  <2>2. rows[<<"deliveries", 0>>].f = 0 /\ 0 \notin Transactions
    BY <1>4, <2>1 DEF Transactions
  <2> QED BY <1>3, <1>6, <2>2 DEF History, IsDelivery
<1> QED BY <1>1, <1>8, <1>9, <1>10, <1>11, <1>12, <1>13, <1>14 DEF IInv

\* Every step of a transaction preserves each part.
LEMMA NextIInv == IInv /\ [Next]_vars => IInv'
BY PhasesNext, WrittenNext, LastWordNext, InsertedNext, CountedNext, LookedNext,
   RacedNext, AnsweredNext, HistoryNext DEF IInv

THEOREM Inductive == Spec => []IInv
BY InitIInv, NextIInv, PTL DEF Spec

\* Types; an open transaction alone holds the rows it has written, and the
\* log has every committed one once.
THEOREM TypeSafe == Spec => []TypeOK
<1>1. IInv => TypeOK
  BY DEF IInv
<1> QED BY <1>1, Inductive, PTL

\* Every column of every row shows the payload of the last request that
\* committed and named it, whatever overlapped.
THEOREM ColumnsShowTheLastWord == Spec => []LastWordHolds
<1>1. IInv => LastWordHolds
  BY LastWordIs DEF IInv
<1> QED BY <1>1, Inductive, PTL

\* A PATCH with If-Match that took effect changed the version it named.
THEOREM IfMatchIsHonoured == Spec => []MatchedInTurn
<1>1. IInv => MatchedInTurn
  BY MatchedIs DEF IInv
<1> QED BY <1>1, Inductive, PTL

\* The status of the delivery is in its history.
THEOREM DeliveryStatusIsRecorded == Spec => []HistoryKnowsStatus
<1>1. ASSUME IInv PROVE HistoryKnowsStatus
  <2>1. TypeOK /\ History
    BY <1>1 DEF IInv
  <2>2. PICK k : k = rows[<<"deliveries", 0>>].f
    OBVIOUS
  <2>3. k \in 0 .. N
    <3>1. <<"deliveries", 0>> \in RowIds
      BY DEF RowIds, PerJourney
    <3> QED BY <2>1, <2>2, <3>1, Typing DEF TypedTransactions, Columns
  <2>4. ASSUME StatusBy(k) # 0
        PROVE  \E h \in Transactions : /\ Present(<<"delivery_status_history", h>>)
                                       /\ StatusBy(h) = StatusBy(k)
    <3>1. k \in Transactions
      <4>1. k # 0
        BY <2>4 DEF StatusBy
      <4> QED BY <2>3, <4>1, NAssumption DEF Transactions
    <3>2. IsDelivery(k)
      BY <2>1, <2>2, <3>1 DEF History
    <3>3. StatusBy(k) = job[k].arg /\ job[k] \in Jobs
      BY <2>1, <2>4, <3>1, Typing DEF StatusBy, TypedTransactions
    <3>4. job[k].arg \in Nat \ {0}
      BY <2>4, <3>3 DEF Jobs
    <3>5. Known(job[k].arg)
      BY <2>1, <3>1, <3>2, <3>4 DEF History
    <3> QED BY <3>3, <3>5 DEF Known
  <2> QED BY <2>2, <2>4 DEF HistoryKnowsStatus
<1> QED BY <1>1, Inductive, PTL

LEMMA PositionIs ==
    ASSUME TypeOK, NEW n \in Transactions, phase[n] = "committed"
    PROVE  Position(n) \in DOMAIN log /\ log[Position(n)] = n
<1>1. \E i \in DOMAIN log : log[i] = n
  BY Typing DEF TypedLog
<1> QED BY <1>1 DEF Position

\* A journey gets a second finance record, or a second discount, only from
\* requests that overlapped: neither had committed when the other began.
THEOREM TwinsOnlyFromOverlaps == Spec => []TwinsWereRaced
<1>1. ASSUME IInv PROVE TwinsWereRaced
  <2>1. TypeOK /\ Inserted /\ Raced
    BY <1>1 DEF IInv
  <2>2. ASSUME NEW t \in Twins, NEW j \in Transactions, NEW k \in Transactions,
               j # k, Present(<<t, j>>), Present(<<t, k>>)
        PROVE  Overlapped(j, k)
    <3>1. /\ <<t, j>> \in RowIds /\ <<t, k>> \in RowIds /\ t \in Generated
      BY DEF Twins, Generated, RowIds
    <3>2. phase[j] = "committed" /\ phase[k] = "committed"
      BY <2>1, <2>2, <3>1 DEF Inserted
    <3>3. PICK a \in DOMAIN log : a = Position(j) /\ log[a] = j
      BY <2>1, <3>2, PositionIs
    <3>4. PICK b \in DOMAIN log : b = Position(k) /\ log[b] = k
      BY <2>1, <3>2, PositionIs
    <3>5. a > since[k] /\ b > since[j]
      BY <2>1, <2>2, <3>3, <3>4 DEF Raced
    <3> QED BY <3>3, <3>4, <3>5 DEF Overlapped
  <2> QED BY <2>2 DEF TwinsWereRaced, Twins
<1> QED BY <1>1, Inductive, PTL

\* A PUT that overlapped with nothing is what a reader of the latest record
\* gets, whatever earlier races left behind.
THEOREM LonePutIsRead == Spec => []LonePutIsAnswered
<1>1. ASSUME IInv PROVE LonePutIsAnswered
  <2>1. TypeOK /\ Answered
    BY <1>1 DEF IInv
  <2>2. /\ log \in Seq(Transactions) /\ Len(log) \in Nat /\ DOMAIN log = 1 .. Len(log)
    <3>1. log \in Seq(Transactions)
      BY <2>1 DEF TypeOK
    <3> QED BY <3>1
  <2>3. ASSUME NEW t \in Twins, log # <<>>, NEW n, n = Last(log),
               since[n] = Len(log) - 1, Saves(n, t)
        PROVE  rows[<<t, Latest(t)>>].f = n
    <3>1. Len(log) > 0
      BY <2>2, <2>3
    <3>2. n = log[Len(log)] /\ n \in Transactions
      BY <2>2, <2>3, <3>1 DEF Last
    <3>3. SavesIn(job[n], t)
      <4>1. PICK s \in ToSet(job[n].script) : s.do = "save" /\ s.table = t
        BY <2>3 DEF Saves
      <4>2. ToSet(job[n].script) = {job[n].script[i] : i \in DOMAIN job[n].script}
        BY DEF ToSet
      <4> QED BY <4>1, <4>2 DEF SavesIn
    <3> QED BY <2>1, <2>3, <3>1, <3>2, <3>3 DEF Answered
  <2> QED BY <2>3 DEF LonePutIsAnswered, Twins
<1> QED BY <1>1, Inductive, PTL
================================================================================
