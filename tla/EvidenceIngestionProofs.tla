------------------------ MODULE EvidenceIngestionProofs -------------------------
(***************************************************************************)
(* For any number of requests, keys, contents and faults: an upload ends   *)
(* in one evidence row, of a document sent under its key, and nothing that *)
(* was recorded is forgotten.                                              *)
(*                                                                         *)
(* TypeOK is inductive by itself.  On top of it, Traced says where every   *)
(* document id comes from: a request or an operation that has one has the  *)
(* id of a document uploaded under its key, with the body its record was   *)
(* opened with.  Filed says how evidence, operations, records and answers  *)
(* name each other.  The row lock of the link makes its step one, so the   *)
(* first link of a key takes a new id and every later one finds it.        *)
(* Honest, which rests on the two, says that evidence keeps the document   *)
(* it was filed with and shares it with no other evidence.                 *)
(*                                                                         *)
(* Paid, last, is an account of the documents of a key.  A step makes one  *)
(* of five moves on it, and each keeps it balanced.                        *)
(***************************************************************************)
EXTENDS EvidenceIngestion, TLAPS, FiniteSetTheorems

\* d is no document, or one that was uploaded under key k with body b.
DocumentOf(d, k, b) ==
    d # None => /\ d \in 1 .. Len(documents)
                /\ documents[d] = [key |-> k, body |-> b]

RunTraced(r) ==
    run[r].pc # "idle" =>
        /\ op[run[r].key] # NoRow
        /\ record[run[r].key].body = run[r].body
        /\ DocumentOf(run[r].document, run[r].key, run[r].body)
        /\ run[r].pc \in {"fetching", "accepting", "linking"} =>
              run[r].document # None

\* Documents are traced to the key and the body they were sent for.
Traced ==
    /\ \A k \in Keys : DocumentOf(op[k].document, k, record[k].body)
    /\ \A r \in Requests : RunTraced(r)

\* Evidence, operations, records and answers name each other.
Filed ==
    /\ \A e \in evidence :
          /\ e.id \in 1 .. Cardinality(evidence)
          /\ \E k \in Keys : {x \in Keys : op[x].evidence = e.id} = {k}
    /\ \A k \in Keys : op[k].evidence # None =>
          \E e \in evidence : e.id = op[k].evidence
    /\ \A k \in Keys : record[k].answer = op[k].evidence
    /\ \A p \in replies : p.evidence # None /\ p.evidence = op[p.key].evidence

\* Evidence is of a document that was sent for it, and of no other's.
Honest ==
    /\ \A e \in evidence :
          /\ e.document # None
          /\ \A k \in Keys : op[k].evidence = e.id =>
                DocumentOf(e.document, k, record[k].body)
    /\ \A e, f \in evidence : e.document = f.document => e = f

IInv == TypeOK /\ Traced /\ Filed /\ Honest

\* A step of request r.
Step(r) ==
    \/ \E k \in Keys, b \in Bodies : Receive(r, k, b)
    \/ Proceed(r) \/ CallFails(r) \/ AnswerLost(r) \/ Crash(r)

-----------------------------------------------------------------------------
\* _update_operation writes one row and leaves its evidence alone.
LEMMA NoteShape ==
    ASSUME TypeOK, NEW r \in Requests, NEW status \in Statuses, Note(r, status),
           run[r].pc # "idle"
    PROVE  /\ op' \in [Keys -> [status : Statuses, subject : Nat,
                                document : Nat, evidence : Nat]]
           /\ \A k \in Keys :
                 /\ op'[k].evidence = op[k].evidence
                 /\ op[k].subject # None => op'[k].subject # None
                 /\ op'[k].document =
                       IF k = run[r].key THEN Coalesce(run[r].document, op[k].document)
                       ELSE op[k].document
                 /\ k # run[r].key => op'[k] = op[k]
                 /\ k = run[r].key => op'[k].status = status
<1>1. run[r].key \in Keys /\ run[r].subject \in Nat /\ run[r].document \in Nat
  BY DEF TypeOK, RowsOK, RunOK
<1> DEFINE row == op[run[r].key]
           new == [status |-> status,
                   subject |-> Coalesce(run[r].subject, row.subject),
                   document |-> Coalesce(run[r].document, row.document),
                   evidence |-> row.evidence]
<1>2. /\ op \in [Keys -> [status : Statuses, subject : Nat, document : Nat,
                          evidence : Nat]]
      /\ row \in [status : Statuses, subject : Nat, document : Nat, evidence : Nat]
  BY <1>1 DEF TypeOK, RowsOK, RunOK
<1>3. op' = [op EXCEPT ![run[r].key] = new]
  BY DEF Note, Noted
<1>4. new \in [status : Statuses, subject : Nat, document : Nat, evidence : Nat]
  BY <1>1, <1>2 DEF Coalesce
<1> QED
  <2>1. op' \in [Keys -> [status : Statuses, subject : Nat, document : Nat,
                          evidence : Nat]]
    BY <1>2, <1>3, <1>4
  <2>2. ASSUME NEW k \in Keys, k # run[r].key  PROVE op'[k] = op[k]
    BY <1>2, <1>3, <2>2
  <2>3. op'[run[r].key] = new
    BY <1>1, <1>2, <1>3
  <2>4. row.subject # None => new.subject # None
    BY DEF Coalesce
  <2> QED  BY <2>1, <2>2, <2>3, <2>4

\* A link answers with the evidence of its key, or files it under a new id.
LEMMA LinkShape ==
    ASSUME TypeOK, NEW r \in Requests, Link(r)
    PROVE  /\ RowsOK'
           /\ run[r].key \in Keys /\ run[r].pc = "linking"
           /\ \/ /\ op[run[r].key].evidence # None
                 /\ UNCHANGED <<op, evidence>>
                 /\ Answer(r, op[run[r].key].evidence)
              \/ /\ op[run[r].key].evidence = None
                 /\ \A e \in evidence : e.document # run[r].document
                 /\ evidence' = evidence \union
                       {[id |-> Cardinality(evidence) + 1, subject |-> run[r].subject,
                         document |-> run[r].document]}
                 /\ op'[run[r].key].evidence = Cardinality(evidence) + 1
                 /\ op'[run[r].key].document = op[run[r].key].document
                 /\ op'[run[r].key].subject = op[run[r].key].subject
                 /\ op'[run[r].key].status = "LINKED"
                 /\ \A k \in Keys \ {run[r].key} : op'[k] = op[k]
                 /\ Answer(r, Cardinality(evidence) + 1)
<1> DEFINE k == run[r].key
           id == Cardinality(evidence) + 1
           new == [id |-> id, subject |-> run[r].subject, document |-> run[r].document]
<1>1. /\ k \in Keys /\ run[r].body \in Bodies /\ run[r].pc = "linking"
      /\ run[r].subject \in Nat /\ run[r].document \in Nat
  BY DEF Link, TypeOK, RunOK
<1>2. id \in Nat
  BY FS_CardinalityType DEF TypeOK, RowsOK
<1>3. op[k] \in [status : Statuses, subject : Nat, document : Nat, evidence : Nat]
  BY <1>1 DEF TypeOK, RowsOK
<1>4. ASSUME NEW e \in Nat, Answer(r, e)
      PROVE  /\ record' \in [Keys -> [body : Bodies \union {"-"}, answer : Nat]]
             /\ replies' \subseteq [key : Keys, body : Bodies, evidence : Nat]
  <2>1. record' \in [Keys -> [body : Bodies \union {"-"}, answer : Nat]]
    BY <1>1, <1>4 DEF Answer, TypeOK, RowsOK
  <2>2. [key |-> k, body |-> run[r].body, evidence |-> e]
          \in [key : Keys, body : Bodies, evidence : Nat]
    BY <1>1
  <2> QED  BY <2>1, <2>2, <1>4 DEF Answer, TypeOK, RowsOK
<1>5. CASE op[k].evidence # None
  <2>1. UNCHANGED <<op, evidence, mapping>> /\ Answer(r, op[k].evidence)
    BY <1>5 DEF Link, Existing
  <2> QED  BY <2>1, <1>1, <1>3, <1>4, <1>5 DEF TypeOK, RowsOK
<1>6. CASE op[k].evidence = None
  <2>1. /\ \A e \in evidence : e.document # run[r].document
        /\ evidence' = evidence \union {new} /\ UNCHANGED mapping
        /\ op' = [op EXCEPT ![k].status = "LINKED", ![k].evidence = id]
        /\ Answer(r, id)
    BY <1>6 DEF Link, Existing
  <2>2. /\ op' \in [Keys -> [status : Statuses, subject : Nat, document : Nat,
                             evidence : Nat]]
        /\ \A j \in Keys \ {k} : op'[j] = op[j]
        /\ op'[k] = [op[k] EXCEPT !.status = "LINKED", !.evidence = id]
    <3> DEFINE Row == [status : Statuses, subject : Nat, document : Nat, evidence : Nat]
               linked == [op[k] EXCEPT !.status = "LINKED", !.evidence = id]
    <3>1. linked \in Row
      BY <1>2, <1>3 DEF Statuses
    <3>2. op \in [Keys -> Row]
      BY DEF TypeOK, RowsOK
    <3>3. op' = [op EXCEPT ![k] = linked]
      BY <1>1, <2>1, <3>2
    <3> HIDE DEF Row, linked
    <3>4. op' \in [Keys -> Row] /\ \A j \in Keys \ {k} : op'[j] = op[j]
      BY <1>1, <3>1, <3>2, <3>3
    <3>5. op'[k] = linked
      BY <1>1, <3>2, <3>3
    <3> QED  BY <3>4, <3>5 DEF Row, linked
  <2>3. /\ op'[k].evidence = id /\ op'[k].status = "LINKED"
        /\ op'[k].document = op[k].document /\ op'[k].subject = op[k].subject
    BY <2>2, <1>2, <1>3
  <2>4. new \in [id : Nat, subject : Nat, document : Nat]
    BY <1>1, <1>2
  <2>5. IsFiniteSet(evidence')
    BY <2>1, FS_AddElement DEF TypeOK, RowsOK
  <2>6. RowsOK'
    <3> HIDE DEF new, id
    <3> QED  BY <2>1, <2>2, <2>4, <2>5, <1>1, <1>2, <1>4 DEF TypeOK, RowsOK
  <2> QED  BY <2>1, <2>2, <2>3, <2>6, <1>1, <1>6
<1> QED  BY <1>5, <1>6

\* A request goes on with other local variables, of their types.
LEMMA RunStep ==
    ASSUME RunOK, NEW r \in Requests,
           NEW new \in [pc : Steps, key : Keys \union {"-"},
                        body : Bodies \union {"-"}, subject : Nat, document : Nat],
           new.pc # "idle" => new.key \in Keys /\ new.body \in Bodies,
           run' = [run EXCEPT ![r] = new]
    PROVE  RunOK'
  BY DEF RunOK

\* A request goes on, or ends.
LEMMA GotoStep ==
    ASSUME RunOK, NEW r \in Requests, run[r].pc # "idle",
           \/ \E step \in Steps : Goto(r, step)
           \/ run' = [run EXCEPT ![r] = Idle]
    PROVE  RunOK'
<1>1. ASSUME NEW step \in Steps, Goto(r, step)  PROVE RunOK'
  <2>1. /\ run[r].key \in Keys /\ run[r].body \in Bodies
        /\ run[r] \in [pc : Steps, key : Keys \union {"-"},
                       body : Bodies \union {"-"}, subject : Nat, document : Nat]
    BY DEF RunOK
  <2> DEFINE new == [run[r] EXCEPT !.pc = step]
  <2>2. /\ new \in [pc : Steps, key : Keys \union {"-"},
                    body : Bodies \union {"-"}, subject : Nat, document : Nat]
        /\ new.key \in Keys /\ new.body \in Bodies
    BY <2>1
  <2>3. run' = [run EXCEPT ![r] = new]
    BY <1>1 DEF Goto, RunOK
  <2> QED  BY <2>2, <2>3, RunStep
<1>2. CASE run' = [run EXCEPT ![r] = Idle]
  BY <1>2, RunStep DEF Idle, Steps, None
<1> QED  BY <1>1, <1>2

\* What a request knows when it has loaded its operation.
LEMMA LoadedShape ==
    ASSUME RowsOK, NEW k \in Keys, NEW b \in Bodies
    PROVE  /\ Loaded(k, b) \in [pc : Steps, key : Keys, body : Bodies,
                                subject : Nat, document : Nat]
           /\ Loaded(k, b).pc \in {"subject", "context"}
           /\ Loaded(k, b).key = k /\ Loaded(k, b).body = b
           /\ Loaded(k, b).document = op[k].document
  BY DEF RowsOK, Loaded, KnownSubject, KnownDocument, Coalesce, Steps

\* The initial state has its types.
LEMMA TypeInit == Init => TypeOK
<1> SUFFICES ASSUME Init PROVE TypeOK
  OBVIOUS
<1>1. RowsOK
  BY FS_EmptySet DEF Init, RowsOK, NoRow, None, Statuses
<1>2. DiOK /\ RunOK
  BY DEF Init, DiOK, RunOK, Idle, None, Steps
<1> QED
  BY <1>1, <1>2, FaultAssumption DEF Init, TypeOK

\* Every step keeps the types.
LEMMA TypeStep == TypeOK /\ [Next]_vars => TypeOK'
<1> SUFFICES ASSUME TypeOK, [Next]_vars PROVE TypeOK'
  OBVIOUS
<1>0. CASE UNCHANGED vars
  BY <1>0 DEF TypeOK, RowsOK, DiOK, RunOK, vars
<1> SUFFICES ASSUME NEW r \in Requests,
                    \/ \E k \in Keys, b \in Bodies : Receive(r, k, b)
                    \/ Proceed(r) \/ CallFails(r) \/ AnswerLost(r) \/ Crash(r)
             PROVE  TypeOK'
  BY <1>0 DEF Next, Proceed
<1>r. RowsOK /\ DiOK /\ RunOK
  BY DEF TypeOK
<1>n. UNCHANGED noted => RowsOK'
  BY <1>r DEF noted, RowsOK
<1>d. UNCHANGED di => DiOK'
  BY <1>r DEF di, DiOK
<1>f. UNCHANGED <<faults, strays>> =>
         faults' \in 0 .. MaxFaults /\ strays' \in 0 .. faults'
  BY DEF TypeOK
<1>1. ASSUME NEW k \in Keys, NEW b \in Bodies, Receive(r, k, b)  PROVE TypeOK'
  <2>1. UNCHANGED di /\ UNCHANGED <<faults, strays>>
    BY <1>1 DEF Receive
  <2>2. RowsOK'
    <3>1. CASE UNCHANGED <<record, op, mapping, evidence>>
      <4>1. replies' \subseteq [key : Keys, body : Bodies, evidence : Nat]
        <5>1. record[k].answer \in Nat
          BY <1>r DEF RowsOK
        <5>2. [key |-> k, body |-> b, evidence |-> record[k].answer]
                \in [key : Keys, body : Bodies, evidence : Nat]
          BY <5>1
        <5> QED  BY <1>1, <5>2, <1>r DEF Receive, RowsOK, noted
      <4> QED  BY <3>1, <4>1, <1>r DEF RowsOK
    <3>2. CASE /\ record' = [record EXCEPT ![k].body = b]
               /\ op' = [op EXCEPT ![k].status = "RECEIVED"]
               /\ UNCHANGED <<mapping, evidence, replies>>
      BY <3>2, <1>r DEF RowsOK, Statuses
    <3> QED  BY <1>1, <3>1, <3>2 DEF Receive, noted
  <2>3. RunOK'
    <3>1. CASE run' = [run EXCEPT ![r] = Loaded(k, b)]
      BY <3>1, <1>r, LoadedShape, RunStep
    <3>2. CASE run' = [run EXCEPT ![r] = [Idle EXCEPT !.pc = "loading",
                                                      !.key = k, !.body = b]]
      <4> DEFINE new == [Idle EXCEPT !.pc = "loading", !.key = k, !.body = b]
      <4>1. /\ new \in [pc : Steps, key : Keys \union {"-"},
                        body : Bodies \union {"-"}, subject : Nat, document : Nat]
            /\ new.key \in Keys /\ new.body \in Bodies
        BY DEF Idle, Steps, None
      <4> QED  BY <3>2, <4>1, <1>r, RunStep
    <3>3. CASE UNCHANGED run
      BY <3>3, <1>r DEF RunOK
    <3> QED  BY <1>1, <3>1, <3>2, <3>3 DEF Receive
  <2> QED  BY <2>1, <2>2, <2>3, <1>d, <1>f DEF TypeOK
<1>2. CASE Load(r)
  <2>1. run[r].key \in Keys /\ run[r].body \in Bodies
    BY <1>2, <1>r DEF Load, RunOK
  <2>2. RunOK'
    <3>1. /\ Loaded(run[r].key, run[r].body) \in
                 [pc : Steps, key : Keys, body : Bodies, subject : Nat,
                  document : Nat]
          /\ run' = [run EXCEPT ![r] = Loaded(run[r].key, run[r].body)]
      BY <1>2, <2>1, <1>r, LoadedShape DEF Load
    <3> QED  BY <3>1, <1>r, RunStep
  <2> QED  BY <1>2, <2>2, <1>n, <1>d, <1>f DEF Load, TypeOK
<1>3. CASE CreateSubject(r) \/ Upload(r)
  <2>1. /\ run[r].key \in Keys /\ run[r].body \in Bodies
        /\ run[r] \in [pc : Steps, key : Keys \union {"-"},
                       body : Bodies \union {"-"}, subject : Nat, document : Nat]
    BY <1>3, <1>r DEF CreateSubject, Upload, RunOK
  <2>2. DiOK' /\ Len(documents') \in Nat
    <3>1. CASE CreateSubject(r)
      BY <3>1, <1>r DEF CreateSubject, DiOK
    <3>2. CASE Upload(r)
      <4>1. [key |-> run[r].key, body |-> run[r].body] \in [key : Keys, body : Bodies]
        BY <2>1
      <4> QED  BY <3>2, <4>1, <1>r DEF Upload, Sent, DiOK
    <3> QED  BY <1>3, <3>1, <3>2
  <2>3. \E new \in [pc : Steps, key : Keys, body : Bodies, subject : Nat,
                    document : Nat] :
            run' = [run EXCEPT ![r] = new]
    <3>1. CASE CreateSubject(r)
      <4> DEFINE new == [run[r] EXCEPT !.subject = subjects + 1, !.pc = "mapping"]
      <4>1. new \in [pc : Steps, key : Keys, body : Bodies, subject : Nat,
                     document : Nat]
        <5>1. subjects + 1 \in Nat /\ "mapping" \in Steps
          BY <1>r DEF Steps, DiOK
        <5> QED  BY <2>1, <5>1
      <4>2. run' = [run EXCEPT ![r] = new]
        BY <3>1, <1>r DEF CreateSubject, RunOK
      <4> QED  BY <4>1, <4>2
    <3>2. CASE Upload(r)
      <4> DEFINE new == [run[r] EXCEPT !.document = Len(documents'),
                                       !.pc = "accepting"]
      <4>1. new \in [pc : Steps, key : Keys, body : Bodies, subject : Nat,
                     document : Nat]
        BY <2>1, <2>2 DEF Steps
      <4>2. run' = [run EXCEPT ![r] = new]
        BY <3>2, <1>r DEF Upload, RunOK
      <4> QED  BY <4>1, <4>2
    <3> QED  BY <1>3, <3>1, <3>2
  <2>4. RunOK'
    BY <2>3, <1>r, RunStep
  <2> QED  BY <1>3, <2>2, <2>4, <1>n, <1>f DEF CreateSubject, Upload, TypeOK
<1>4. CASE EnsureContext(r) \/ FetchDocument(r)
  <2>1. RunOK'
    BY <1>4, <1>r, GotoStep DEF EnsureContext, FetchDocument, Steps
  <2> QED  BY <1>4, <2>1, <1>n, <1>d, <1>f DEF EnsureContext, FetchDocument, TypeOK
<1>5. CASE CallFails(r) \/ AnswerLost(r) \/ Crash(r)
  <2>1. faults' \in 0 .. MaxFaults /\ strays' \in 0 .. faults'
    BY <1>5, FaultAssumption DEF CallFails, AnswerLost, Crash, TypeOK
  <2>2. RunOK'
    BY <1>5, <1>r, GotoStep DEF CallFails, AnswerLost, Crash, Steps, Calls
  <2>3. DiOK'
    <3>1. CASE AnswerLost(r)
      <4>1. run[r].key \in Keys /\ run[r].body \in Bodies
        BY <3>1, <1>r DEF AnswerLost, RunOK
      <4>2. [key |-> run[r].key, body |-> run[r].body] \in [key : Keys, body : Bodies]
        BY <4>1
      <4>3. Sent(r) \in Seq([key : Keys, body : Bodies])
        BY <4>2, <1>r DEF Sent, DiOK
      <4> QED  BY <3>1, <4>3, <1>r DEF AnswerLost, DiOK
    <3> QED  BY <1>5, <3>1, <1>d DEF CallFails, Crash
  <2> QED  BY <1>5, <2>1, <2>2, <2>3, <1>n DEF CallFails, AnswerLost, Crash, TypeOK
<1>6. CASE PersistMapping(r)
  <2>1. RunOK'
    BY <1>6, <1>r, GotoStep DEF PersistMapping, Steps
  <2>2. RowsOK'
    BY <1>6, <1>r DEF PersistMapping, NewMapping, Coalesce, RowsOK, RunOK
  <2> QED  BY <1>6, <2>1, <2>2, <1>d, <1>f DEF PersistMapping, TypeOK
<1>7. CASE MarkReceived(r) \/ MarkSubmitting(r) \/ MarkAccepted(r) \/ MarkFailed(r)
  <2>1. PICK status \in Statuses : Note(r, status) /\ run[r].pc # "idle"
    BY <1>7 DEF MarkReceived, MarkSubmitting, MarkAccepted, MarkFailed, Statuses
  <2>2. RowsOK'
    BY <2>1, <1>r, NoteShape DEF RowsOK, Note
  <2>3. RunOK'
    BY <1>7, <2>1, <1>r, GotoStep
    DEF MarkReceived, MarkSubmitting, MarkAccepted, MarkFailed, Steps
  <2> QED  BY <2>1, <2>2, <2>3, <1>d, <1>f DEF Note, TypeOK
<1>8. CASE Link(r)
  <2>1. /\ run[r].key \in Keys /\ run[r].body \in Bodies
        /\ run[r].subject \in Nat /\ run[r].document \in Nat
    BY <1>8, <1>r DEF Link, RunOK
  <2>2. Cardinality(evidence) + 1 \in Nat
    BY <1>r, FS_CardinalityType DEF RowsOK
  <2>3. RowsOK'
    BY <1>8, <2>1, <2>2, LinkShape DEF TypeOK
  <2>4. RunOK'
    BY <1>8, <1>r, GotoStep DEF Link, Answer
  <2> QED  BY <1>8, <2>3, <2>4, <1>d, <1>f DEF Link, TypeOK
<1> QED
  BY <1>1, <1>2, <1>3, <1>4, <1>5, <1>6, <1>7, <1>8 DEF Proceed

\* Every reachable state has its types, and the bounds on faults hold.
THEOREM TypeCorrect == Spec => []TypeOK
  BY TypeInit, TypeStep, PTL DEF Spec

\* What is known is never forgotten, whichever requests write over each other.
THEOREM NothingIsForgotten == Spec => NothingForgotten
<1> DEFINE Kept(k) == /\ op[k].subject # None => op'[k].subject # None
                      /\ op[k].document # None => op'[k].document # None
                      /\ op[k].evidence # None => op'[k].evidence = op[k].evidence
<1>1. ASSUME TypeOK, NEW r \in Requests,
             \/ \E k \in Keys, b \in Bodies : Receive(r, k, b)
             \/ Proceed(r) \/ CallFails(r) \/ AnswerLost(r) \/ Crash(r)
      PROVE  mapping # None => mapping' = mapping
  <2>1. CASE PersistMapping(r)
    BY <2>1 DEF PersistMapping, NewMapping, Coalesce
  <2>2. CASE ~PersistMapping(r)
    BY <1>1, <2>2
    DEF Proceed, Receive, Load, CreateSubject, EnsureContext, FetchDocument,
        Upload, CallFails, AnswerLost, Crash, MarkReceived, MarkSubmitting,
        MarkAccepted, MarkFailed, Note, Link, noted
  <2> QED  BY <2>1, <2>2
<1>2. ASSUME TypeOK, NEW r \in Requests, NEW k \in Keys,
             \/ \E j \in Keys, b \in Bodies : Receive(r, j, b)
             \/ Proceed(r) \/ CallFails(r) \/ AnswerLost(r) \/ Crash(r)
      PROVE  Kept(k)
  <2> USE <1>2
  <2>1. ASSUME NEW j \in Keys, NEW b \in Bodies, Receive(r, j, b)
        PROVE  Kept(k)
    <3>1. op'[k] = op[k] \/ op[k] = NoRow
      BY <2>1 DEF Receive, noted, TypeOK, RowsOK
    <3> QED  BY <3>1 DEF NoRow, None
  <2>2. CASE \/ Load(r) \/ CreateSubject(r) \/ EnsureContext(r)
             \/ FetchDocument(r) \/ Upload(r) \/ CallFails(r) \/ AnswerLost(r)
             \/ Crash(r) \/ PersistMapping(r)
    BY <2>2 DEF Load, CreateSubject, EnsureContext, FetchDocument, Upload,
                CallFails, AnswerLost, Crash, PersistMapping, noted
  <2>3. CASE MarkReceived(r) \/ MarkSubmitting(r) \/ MarkAccepted(r) \/ MarkFailed(r)
    <3>1. PICK status \in Statuses : Note(r, status) /\ run[r].pc # "idle"
      BY <2>3 DEF MarkReceived, MarkSubmitting, MarkAccepted, MarkFailed, Statuses
    <3> QED  BY <3>1, NoteShape DEF Coalesce
  <2>4. CASE Link(r)
    <3>1. CASE op' = op
      BY <3>1
    <3>2. CASE /\ op[run[r].key].evidence = None
               /\ op'[run[r].key].subject = op[run[r].key].subject
               /\ op'[run[r].key].document = op[run[r].key].document
               /\ \A j \in Keys \ {run[r].key} : op'[j] = op[j]
      BY <3>2
    <3> QED  BY <2>4, <3>1, <3>2, LinkShape
  <2> QED
    BY <2>1, <2>2, <2>3, <2>4 DEF Proceed
<1>3. TypeOK /\ [Next]_vars =>
         [/\ mapping # None => mapping' = mapping
          /\ \A k \in Keys :
                /\ op[k].subject # None => op[k].subject' # None
                /\ op[k].document # None => op[k].document' # None
                /\ op[k].evidence # None => op[k].evidence' = op[k].evidence]_vars
  <2> SUFFICES ASSUME TypeOK, Next
               PROVE  /\ mapping # None => mapping' = mapping
                      /\ \A k \in Keys : Kept(k)
    OBVIOUS
  <2> HIDE DEF Kept
  <2>1. PICK r \in Requests :
            \/ \E k \in Keys, b \in Bodies : Receive(r, k, b)
            \/ Proceed(r) \/ CallFails(r) \/ AnswerLost(r) \/ Crash(r)
    BY DEF Next, Proceed
  <2> QED  BY <2>1, <1>1, <1>2
<1> QED
  BY <1>3, TypeCorrect, PTL DEF Spec, NothingForgotten

-----------------------------------------------------------------------------
\* Documents are only added, and the body of a key is never changed.
LEMMA Grows ==
    ASSUME TypeOK, NEW r \in Requests, Step(r)
    PROVE  /\ Len(documents) \in Nat /\ Len(documents') \in Nat
           /\ \A i \in 1 .. Len(documents) :
                 i \in 1 .. Len(documents') /\ documents'[i] = documents[i]
           /\ \A k \in Keys : op[k] # NoRow =>
                 op'[k] # NoRow /\ record'[k].body = record[k].body
           /\ \A q \in Requests \ {r} : run'[q] = run[q]
<1>1. DiOK
  BY DEF TypeOK
<1>2. /\ Len(documents) \in Nat /\ Len(documents') \in Nat
      /\ \A i \in 1 .. Len(documents) :
            i \in 1 .. Len(documents') /\ documents'[i] = documents[i]
  <2>1. CASE documents' = documents
    BY <2>1, <1>1 DEF DiOK
  <2>2. CASE documents' = Sent(r) /\ run[r].pc # "idle"
    <3>1. [key |-> run[r].key, body |-> run[r].body] \in [key : Keys, body : Bodies]
      BY <2>2 DEF TypeOK, RunOK
    <3> QED  BY <2>2, <3>1, <1>1 DEF DiOK, Sent
  <2>3. \/ documents' = documents
        \/ documents' = Sent(r) /\ run[r].pc # "idle"
    BY DEF Step, Proceed, Receive, Load, CreateSubject, EnsureContext,
           FetchDocument, Upload, CallFails, AnswerLost, Crash, PersistMapping,
           MarkReceived, MarkSubmitting, MarkAccepted, MarkFailed, Note, Link, di
  <2> QED  BY <2>1, <2>2, <2>3
<1>3. \A k \in Keys : op[k] # NoRow =>
         op'[k] # NoRow /\ record'[k].body = record[k].body
  <2> SUFFICES ASSUME NEW k \in Keys, op[k] # NoRow
               PROVE  op'[k] # NoRow /\ record'[k].body = record[k].body
    OBVIOUS
  <2>1. ASSUME NEW j \in Keys, NEW b \in Bodies, Receive(r, j, b)
        PROVE  op'[k] # NoRow /\ record'[k].body = record[k].body
    BY <2>1 DEF Receive, noted, TypeOK, RowsOK
  <2>2. CASE \/ Load(r) \/ CreateSubject(r) \/ EnsureContext(r)
             \/ FetchDocument(r) \/ Upload(r) \/ CallFails(r) \/ AnswerLost(r)
             \/ Crash(r) \/ PersistMapping(r)
    BY <2>2 DEF Load, CreateSubject, EnsureContext, FetchDocument, Upload,
                CallFails, AnswerLost, Crash, PersistMapping, noted
  <2>3. CASE MarkReceived(r) \/ MarkSubmitting(r) \/ MarkAccepted(r) \/ MarkFailed(r)
    <3>1. PICK status \in Statuses \ {"NONE"} : Note(r, status) /\ run[r].pc # "idle"
      BY <2>3 DEF MarkReceived, MarkSubmitting, MarkAccepted, MarkFailed, Statuses
    <3>2. k # run[r].key => op'[k] = op[k]
      BY <3>1, NoteShape
    <3>3. k = run[r].key => op'[k].status # "NONE"
      BY <3>1, NoteShape
    <3> QED  BY <3>1, <3>2, <3>3 DEF NoRow, Note
  <2>4. CASE Link(r)
    <3>1. op'[k] = op[k] \/ op'[k].status = "LINKED"
      BY <2>4, LinkShape
    <3>2. record'[k].body = record[k].body
      <4>1. \E e : record' = [record EXCEPT ![run[r].key].answer = e]
        BY <2>4 DEF Link, Answer
      <4> QED  BY <4>1 DEF TypeOK, RowsOK
    <3> QED  BY <3>1, <3>2 DEF NoRow
  <2> QED  BY <2>1, <2>2, <2>3, <2>4 DEF Step, Proceed
<1>4. \A q \in Requests \ {r} : run'[q] = run[q]
  <2>1. run' = run \/ \E new : run' = [run EXCEPT ![r] = new]
    <3> USE DEF TypeOK, RunOK
    <3>1. \A step : Goto(r, step) => run' = [run EXCEPT ![r] = [run[r] EXCEPT !.pc = step]]
      BY DEF Goto
    <3>2. CASE \E step : Goto(r, step)
      BY <3>1, <3>2
    <3>3. CASE CreateSubject(r) \/ Upload(r)
      BY <3>3 DEF CreateSubject, Upload
    <3>4. CASE ~(CreateSubject(r) \/ Upload(r)) /\ ~\E step : Goto(r, step)
      BY <3>4 DEF Step, Proceed, Receive, Load, EnsureContext, FetchDocument,
                  CallFails, AnswerLost, Crash, PersistMapping, MarkReceived,
                  MarkSubmitting, MarkAccepted, MarkFailed, Link, Answer
    <3> QED  BY <3>2, <3>3, <3>4
  <2> QED  BY <2>1 DEF TypeOK, RunOK
<1> QED  BY <1>2, <1>3, <1>4

\* What a document was sent for stays true.
LEMMA DocumentStays ==
    ASSUME TypeOK, NEW r \in Requests, Step(r), NEW d, NEW k, NEW b,
           DocumentOf(d, k, b)
    PROVE  d # None => /\ d \in 1 .. Len(documents')
                       /\ documents'[d] = [key |-> k, body |-> b]
  BY Grows DEF DocumentOf

\* Operations go on naming documents of their own.
LEMMA OpsTraced ==
    ASSUME TypeOK, Traced, NEW r \in Requests, Step(r), NEW k \in Keys
    PROVE  DocumentOf(op[k].document, k, record[k].body)'
<1>1. op[k] = NoRow \/ record'[k].body = record[k].body
  BY Grows
<1>2. CASE op'[k].document = op[k].document
  <2>1. op[k] = NoRow => op[k].document = None
    BY DEF NoRow
  <2>2. DocumentOf(op[k].document, k, record[k].body)
    BY DEF Traced
  <2> QED  BY <1>1, <1>2, <2>1, <2>2, DocumentStays DEF DocumentOf
<1>3. CASE /\ k = run[r].key /\ op'[k].document = run[r].document
           /\ run[r].pc # "idle"
  <2>1. RunTraced(r)
    BY DEF Traced
  <2>2. /\ record'[k].body = run[r].body
        /\ DocumentOf(run[r].document, k, run[r].body)
    BY <1>1, <1>3, <2>1 DEF RunTraced
  <2> QED  BY <1>3, <2>2, DocumentStays DEF DocumentOf
<1>4. \/ op'[k].document = op[k].document
      \/ /\ k = run[r].key /\ op'[k].document = run[r].document
         /\ run[r].pc # "idle"
  <2>1. ASSUME NEW j \in Keys, NEW b \in Bodies, Receive(r, j, b)
        PROVE  op'[k].document = op[k].document
    BY <2>1 DEF Receive, noted, TypeOK, RowsOK
  <2>2. CASE \/ Load(r) \/ CreateSubject(r) \/ EnsureContext(r)
             \/ FetchDocument(r) \/ Upload(r) \/ CallFails(r) \/ AnswerLost(r)
             \/ Crash(r) \/ PersistMapping(r)
    BY <2>2 DEF Load, CreateSubject, EnsureContext, FetchDocument, Upload,
                CallFails, AnswerLost, Crash, PersistMapping, noted
  <2>3. CASE MarkReceived(r) \/ MarkSubmitting(r) \/ MarkAccepted(r) \/ MarkFailed(r)
    <3>1. PICK status \in Statuses : Note(r, status) /\ run[r].pc # "idle"
      BY <2>3 DEF MarkReceived, MarkSubmitting, MarkAccepted, MarkFailed, Statuses
    <3> QED  BY <3>1, NoteShape DEF Coalesce
  <2>4. CASE Link(r)
    BY <2>4, LinkShape
  <2> QED  BY <2>1, <2>2, <2>3, <2>4 DEF Step, Proceed
<1> QED  BY <1>2, <1>3, <1>4

\* A request goes on knowing only documents of its own key.
LEMMA RunsTraced ==
    ASSUME TypeOK, Traced, NEW r \in Requests, Step(r), NEW q \in Requests
    PROVE  RunTraced(q)'
<1>1. CASE run'[q] = run[q]
  <2>1. run[q].pc # "idle" => run[q].key \in Keys
    BY DEF TypeOK, RunOK
  <2>2. RunTraced(q)
    BY DEF Traced
  <2> QED  BY <1>1, <2>1, <2>2, Grows, DocumentStays DEF RunTraced, DocumentOf
<1>2. CASE q = r /\ run'[r] = Idle
  BY <1>2 DEF RunTraced, Idle
<1> DEFINE late == {"fetching", "accepting", "linking"}
<1>3. ASSUME q = r, run[r].pc # "idle", run'[r].pc # "idle",
             run'[r].key = run[r].key, run'[r].body = run[r].body,
             run'[r].document = run[r].document,
             run'[r].pc \in late => run[r].document # None
      PROVE  RunTraced(r)'
  <2>1. run[r].key \in Keys
    BY <1>3 DEF TypeOK, RunOK
  <2>2. RunTraced(r)
    BY DEF Traced
  <2> QED  BY <1>3, <2>1, <2>2, Grows, DocumentStays DEF RunTraced, DocumentOf
<1>4. CASE q = r
  <2> USE <1>4
  <2>t. RunTraced(r)
    BY DEF Traced
  <2>g. ASSUME NEW step \in Steps \ {"idle"}, Goto(r, step), run[r].pc # "idle",
               step \in late => run[r].document # None
        PROVE  RunTraced(r)'
    <3>1. /\ run'[r].pc = step /\ run'[r].key = run[r].key
          /\ run'[r].body = run[r].body /\ run'[r].document = run[r].document
      BY <2>g DEF Goto, TypeOK, RunOK
    <3> QED  BY <2>g, <3>1, <1>3
  <2>1. ASSUME NEW k \in Keys, NEW b \in Bodies, Receive(r, k, b)
        PROVE  RunTraced(r)'
    <3>1. CASE /\ op[k] = NoRow /\ run'[r] = Loaded(k, b)
               /\ record'[k].body = b /\ op'[k].status = "RECEIVED"
      <4>1. /\ run'[r].key = k /\ run'[r].body = b /\ run'[r].document = None
            /\ run'[r].pc \notin late
        BY <3>1, LoadedShape DEF NoRow, TypeOK
      <4> QED  BY <3>1, <4>1 DEF RunTraced, DocumentOf, NoRow
    <3>2. CASE run' = run
      BY <3>2, <1>1
    <3>3. CASE /\ op[k] # NoRow /\ record[k].body = b
               /\ run'[r] = [Idle EXCEPT !.pc = "loading", !.key = k, !.body = b]
      <4>1. /\ run'[r].key = k /\ run'[r].body = b /\ run'[r].document = None
            /\ run'[r].pc \notin late
        BY <3>3 DEF Idle
      <4> QED  BY <3>3, <4>1, Grows DEF RunTraced, DocumentOf
    <3>4. \/ /\ op[k] = NoRow /\ run'[r] = Loaded(k, b)
             /\ record'[k].body = b /\ op'[k].status = "RECEIVED"
          \/ run' = run
          \/ /\ op[k] # NoRow /\ record[k].body = b
             /\ run'[r] = [Idle EXCEPT !.pc = "loading", !.key = k, !.body = b]
      BY <2>1 DEF Receive, SameRequest, TypeOK, RowsOK, RunOK
    <3> QED  BY <3>1, <3>2, <3>3, <3>4
  <2>2. CASE Load(r)
    <3>1. /\ run[r].key \in Keys /\ run[r].body \in Bodies /\ run[r].pc # "idle"
          /\ run'[r] = Loaded(run[r].key, run[r].body)
      BY <2>2 DEF Load, TypeOK, RunOK
    <3>2. /\ run'[r].key = run[r].key /\ run'[r].body = run[r].body
          /\ run'[r].document = op[run[r].key].document
          /\ run'[r].pc \notin late
      BY <3>1, LoadedShape DEF TypeOK
    <3>3. DocumentOf(op[run[r].key].document, run[r].key, run[r].body)
      BY <3>1, <2>t DEF Traced, RunTraced
    <3> QED
      BY <3>1, <3>2, <3>3, <2>t, Grows, DocumentStays DEF RunTraced, DocumentOf
  <2>3. CASE CreateSubject(r)
    <3>1. /\ run'[r].pc = "mapping" /\ run'[r].key = run[r].key
          /\ run'[r].body = run[r].body /\ run'[r].document = run[r].document
      BY <2>3 DEF CreateSubject, TypeOK, RunOK
    <3> QED  BY <2>3, <3>1, <1>3 DEF CreateSubject
  <2>4. CASE EnsureContext(r)
    BY <2>4, <2>g DEF EnsureContext, Steps
  <2>5. CASE FetchDocument(r)
    BY <2>5, <2>g, <2>t DEF FetchDocument, RunTraced, Steps
  <2>6. CASE Upload(r)
    <3>1. /\ run'[r].pc = "accepting" /\ run'[r].key = run[r].key
          /\ run'[r].body = run[r].body /\ run'[r].document = Len(documents')
      BY <2>6 DEF Upload, TypeOK, RunOK
    <3>2. /\ run[r].key \in Keys /\ run[r].body \in Bodies
          /\ documents' = Append(documents,
                                 [key |-> run[r].key, body |-> run[r].body])
      BY <2>6 DEF Upload, Sent, TypeOK, RunOK
    <3>3. /\ Len(documents') \in 1 .. Len(documents')
          /\ documents'[Len(documents')] = [key |-> run[r].key, body |-> run[r].body]
      BY <3>2 DEF TypeOK, DiOK
    <3> QED  BY <2>6, <3>1, <3>2, <3>3, <2>t, Grows
             DEF Upload, RunTraced, DocumentOf, None
  <2>7. CASE CallFails(r) \/ AnswerLost(r)
    BY <2>7, <2>g DEF CallFails, AnswerLost, Calls, Steps
  <2>8. CASE PersistMapping(r) \/ MarkReceived(r) \/ MarkSubmitting(r)
    BY <2>8, <2>g DEF PersistMapping, MarkReceived, MarkSubmitting, Steps
  <2>9. CASE MarkAccepted(r)
    BY <2>9, <2>g, <2>t DEF MarkAccepted, RunTraced, Steps
  <2>10. CASE MarkFailed(r) \/ Link(r) \/ Crash(r)
    BY <2>10, <1>2 DEF MarkFailed, Link, Answer, Crash, TypeOK, RunOK
  <2> QED  BY <2>1, <2>2, <2>3, <2>4, <2>5, <2>6, <2>7, <2>8, <2>9, <2>10
           DEF Step, Proceed
<1> QED  BY <1>1, <1>4, Grows

\* Every step but a link that files new evidence leaves evidence as it is.
LEMMA FilesOnlyByLink ==
    ASSUME TypeOK, Filed, NEW r \in Requests, Step(r)
    PROVE  \/ /\ evidence' = evidence
              /\ \A k \in Keys : /\ op'[k].evidence = op[k].evidence
                                 /\ record'[k].answer = record[k].answer
              /\ \A p \in replies' : \/ p \in replies
                                     \/ /\ p.key \in Keys
                                        /\ p.evidence = op[p.key].evidence
                                        /\ p.evidence # None
           \/ Link(r) /\ op[run[r].key].evidence = None
<1>1. ASSUME NEW k \in Keys, NEW b \in Bodies, Receive(r, k, b)
      PROVE  /\ evidence' = evidence
             /\ \A j \in Keys : /\ op'[j].evidence = op[j].evidence
                                /\ record'[j].answer = record[j].answer
             /\ \A p \in replies' : \/ p \in replies
                                    \/ /\ p.key \in Keys
                                       /\ p.evidence = op[p.key].evidence
                                       /\ p.evidence # None
  <2>1. CASE UNCHANGED <<record, op, evidence>>
    <3>1. record[k].answer = op[k].evidence
      BY DEF Filed
    <3> QED  BY <1>1, <2>1, <3>1 DEF Receive, noted
  <2>2. CASE /\ record' = [record EXCEPT ![k].body = b]
             /\ op' = [op EXCEPT ![k].status = "RECEIVED"]
             /\ UNCHANGED <<evidence, replies>>
    BY <2>2 DEF TypeOK, RowsOK
  <2> QED  BY <1>1, <2>1, <2>2 DEF Receive, noted
<1>2. CASE \/ Load(r) \/ CreateSubject(r) \/ EnsureContext(r)
           \/ FetchDocument(r) \/ Upload(r) \/ CallFails(r) \/ AnswerLost(r)
           \/ Crash(r) \/ PersistMapping(r)
  BY <1>2 DEF Load, CreateSubject, EnsureContext, FetchDocument, Upload,
              CallFails, AnswerLost, Crash, PersistMapping, noted
<1>3. CASE MarkReceived(r) \/ MarkSubmitting(r) \/ MarkAccepted(r) \/ MarkFailed(r)
  <2>1. PICK status \in Statuses : Note(r, status) /\ run[r].pc # "idle"
    BY <1>3 DEF MarkReceived, MarkSubmitting, MarkAccepted, MarkFailed, Statuses
  <2> QED  BY <2>1, NoteShape DEF Note
<1>4. CASE Link(r) /\ op[run[r].key].evidence # None
  <2>1. /\ run[r].key \in Keys /\ UNCHANGED <<op, evidence>>
        /\ Answer(r, op[run[r].key].evidence)
    BY <1>4, LinkShape
  <2>2. record[run[r].key].answer = op[run[r].key].evidence
    BY <2>1 DEF Filed
  <2>3. \A k \in Keys : record'[k].answer = record[k].answer
    BY <2>1, <2>2 DEF Answer, TypeOK, RowsOK
  <2> QED  BY <1>4, <2>1, <2>3 DEF Answer
<1> QED  BY <1>1, <1>2, <1>3, <1>4 DEF Step, Proceed

NewId == Cardinality(evidence) + 1
NewEvidence(r) == [id |-> NewId, subject |-> run[r].subject,
                   document |-> run[r].document]

\* A link that files takes an id that nobody has.
LEMMA LinkFiles ==
    ASSUME TypeOK, Filed, NEW r \in Requests, Link(r),
           op[run[r].key].evidence = None
    PROVE  /\ run[r].key \in Keys /\ run[r].pc = "linking" /\ NewId \in Nat \ {None}
           /\ evidence' = evidence \union {NewEvidence(r)}
           /\ Cardinality(evidence') = NewId
           /\ \A e \in evidence : e.id \in 1 .. Cardinality(evidence) /\ e.id # NewId
           /\ op'[run[r].key].evidence = NewId
           /\ \A j \in Keys \ {run[r].key} : /\ op'[j].evidence = op[j].evidence
                                    /\ op[j].evidence # NewId
                                    /\ record'[j].answer = record[j].answer
           /\ record'[run[r].key].answer = NewId
           /\ \A p \in replies' : \/ p \in replies
                                  \/ p.key = run[r].key /\ p.evidence = NewId
           /\ \A e \in evidence : e.document # run[r].document
<1> DEFINE k == run[r].key
<1>1. /\ k \in Keys /\ run[r].pc = "linking"
      /\ evidence' = evidence \union {NewEvidence(r)}
      /\ op'[k].evidence = NewId
      /\ \A j \in Keys \ {k} : op'[j] = op[j]
      /\ Answer(r, NewId)
      /\ \A e \in evidence : e.document # run[r].document
  BY LinkShape DEF NewId, NewEvidence
<1>2. Cardinality(evidence) \in Nat /\ IsFiniteSet(evidence)
  BY FS_CardinalityType DEF TypeOK, RowsOK
<1>3. \A e \in evidence : e.id \in 1 .. Cardinality(evidence) /\ e.id # NewId
  BY <1>2 DEF Filed, NewId
<1>4. NewEvidence(r) \notin evidence
  BY <1>3 DEF NewEvidence
<1>5. Cardinality(evidence') = NewId
  BY <1>1, <1>2, <1>4, FS_AddElement DEF NewId
<1>6. \A j \in Keys : op[j].evidence # NewId
  <2> SUFFICES ASSUME NEW j \in Keys, op[j].evidence = NewId PROVE FALSE
    OBVIOUS
  <2>1. op[j].evidence # None
    BY <1>2 DEF None, NewId
  <2>2. PICK e \in evidence : e.id = op[j].evidence
    BY <2>1 DEF Filed
  <2> QED  BY <2>2, <1>3
<1>7. /\ record'[k].answer = NewId
      /\ \A j \in Keys \ {k} : record'[j].answer = record[j].answer
  BY <1>1 DEF Answer, TypeOK, RowsOK
<1>8. \A p \in replies' : p \in replies \/ (p.key = k /\ p.evidence = NewId)
  <2>1. replies' = replies \union
           {[key |-> k, body |-> run[r].body, evidence |-> NewId]}
    BY <1>1 DEF Answer
  <2> QED  BY <2>1
<1>9. NewId \in Nat \ {None}
  BY <1>2 DEF None, NewId
<1> QED  BY <1>1, <1>3, <1>5, <1>6, <1>7, <1>8, <1>9

\* Evidence, operations, records and answers go on naming each other.
LEMMA FiledStep ==
    ASSUME TypeOK, Filed, NEW r \in Requests, Step(r)
    PROVE  Filed'
<1>1. CASE /\ evidence' = evidence
           /\ \A k \in Keys : /\ op'[k].evidence = op[k].evidence
                              /\ record'[k].answer = record[k].answer
           /\ \A p \in replies' : \/ p \in replies
                                  \/ /\ p.key \in Keys
                                     /\ p.evidence = op[p.key].evidence
                                     /\ p.evidence # None
  <2>1. ASSUME NEW e \in evidence
        PROVE  {x \in Keys : op'[x].evidence = e.id} =
               {x \in Keys : op[x].evidence = e.id}
    BY <1>1
  <2>2. \A p \in replies : p.key \in Keys
    BY DEF TypeOK, RowsOK
  <2> QED  BY <1>1, <2>1, <2>2 DEF Filed
<1>2. CASE Link(r) /\ op[run[r].key].evidence = None
  <2> DEFINE k == run[r].key
             new == NewEvidence(r)
  <2>1. /\ k \in Keys /\ NewId \in Nat \ {None}
        /\ evidence' = evidence \union {new}
        /\ Cardinality(evidence') = NewId
        /\ \A e \in evidence : e.id \in 1 .. Cardinality(evidence) /\ e.id # NewId
        /\ op'[k].evidence = NewId
        /\ \A j \in Keys \ {k} : /\ op'[j].evidence = op[j].evidence
                                 /\ op[j].evidence # NewId
                                 /\ record'[j].answer = record[j].answer
        /\ record'[k].answer = NewId
        /\ \A p \in replies' : p \in replies \/ (p.key = k /\ p.evidence = NewId)
    BY <1>2, LinkFiles
  <2>2. Cardinality(evidence) \in Nat /\ NewId = Cardinality(evidence) + 1
    BY FS_CardinalityType DEF TypeOK, RowsOK, NewId
  <2>3. ASSUME NEW e \in evidence
        PROVE  /\ e.id \in 1 .. Cardinality(evidence')
               /\ \E j \in Keys : {x \in Keys : op'[x].evidence = e.id} = {j}
    <3>1. {x \in Keys : op'[x].evidence = e.id} = {x \in Keys : op[x].evidence = e.id}
      <4>1. e.id # None /\ e.id # NewId
        BY <2>1 DEF None
      <4> QED  BY <2>1, <4>1, <1>2
    <3> QED  BY <2>1, <2>2, <3>1 DEF Filed
  <2>4. /\ new.id \in 1 .. Cardinality(evidence') /\ new.id = NewId
        /\ {x \in Keys : op'[x].evidence = new.id} = {k}
    <3>1. new.id = NewId
      BY DEF NewEvidence
    <3>2. NewId \in 1 .. NewId
      BY <2>2
      <3> QED  BY <2>1, <3>1, <3>2
  <2>5. ASSUME NEW j \in Keys, op'[j].evidence # None
        PROVE  \E e \in evidence' : e.id = op'[j].evidence
    <3>1. CASE j = k
      BY <2>1, <2>4, <3>1
    <3>2. CASE j # k
      <4>1. op[j].evidence # None /\ op'[j].evidence = op[j].evidence
        BY <2>1, <2>5, <3>2
      <4>2. PICK e \in evidence : e.id = op[j].evidence
        BY <4>1 DEF Filed
      <4> QED  BY <2>1, <4>1, <4>2
    <3> QED  BY <3>1, <3>2
  <2>6. \A j \in Keys : record'[j].answer = op'[j].evidence
    BY <2>1 DEF Filed
  <2>7. ASSUME NEW p \in replies'
        PROVE  p.evidence # None /\ p.evidence = op'[p.key].evidence
    <3>1. CASE p \in replies
      <4>1. p.key \in Keys /\ p.evidence # None /\ p.evidence = op[p.key].evidence
        BY <3>1 DEF Filed, TypeOK, RowsOK
      <4> QED  BY <4>1, <2>1, <1>2
    <3>2. CASE p.key = k /\ p.evidence = NewId
      BY <3>2, <2>1
    <3> QED  BY <2>1, <3>1, <3>2
  <2>8. \A e \in evidence' : /\ e.id \in 1 .. Cardinality(evidence')
                             /\ \E j \in Keys : {x \in Keys : op'[x].evidence = e.id} = {j}
    <3> SUFFICES ASSUME NEW e \in evidence'
                 PROVE  /\ e.id \in 1 .. Cardinality(evidence')
                        /\ \E j \in Keys : {x \in Keys : op'[x].evidence = e.id} = {j}
      OBVIOUS
    <3>1. CASE e = new
      BY <2>1, <2>4, <3>1
    <3>2. CASE e \in evidence
      BY <2>3, <3>2
    <3> QED  BY <2>1, <3>1, <3>2
  <2> QED  BY <2>5, <2>6, <2>7, <2>8 DEF Filed
<1> QED  BY <1>1, <1>2, FilesOnlyByLink

\* Filed evidence stays what it is, and new evidence is the request's own.
LEMMA HonestStep ==
    ASSUME IInv, NEW r \in Requests, Step(r)
    PROVE  Honest'
<1> USE DEF IInv
<1>0. ASSUME NEW e \in evidence, NEW k \in Keys, op[k].evidence = e.id
      PROVE  DocumentOf(e.document, k, record[k].body)'
  <2>1. DocumentOf(e.document, k, record[k].body)
    BY <1>0 DEF Honest
  <2>2. e.id \in Nat \ {0}
    <3>1. e.id \in 1 .. Cardinality(evidence) /\ Cardinality(evidence) \in Nat
      BY FS_CardinalityType DEF Filed, TypeOK, RowsOK
    <3> QED  BY <3>1
  <2>3. op[k] # NoRow
    BY <1>0, <2>2 DEF NoRow, None
  <2>4. record'[k].body = record[k].body
    BY <2>3, Grows
  <2> QED  BY <2>1, <2>4, DocumentStays DEF DocumentOf
<1>1. CASE /\ evidence' = evidence
           /\ \A k \in Keys : op'[k].evidence = op[k].evidence
  BY <1>0, <1>1 DEF Honest
<1>2. CASE Link(r) /\ op[run[r].key].evidence = None
  <2> DEFINE new == NewEvidence(r)
  <2>0. PICK k \in Keys, d \in Nat : k = run[r].key /\ d = run[r].document
    BY <1>0, <1>2, LinkFiles DEF TypeOK, RunOK
  <2>1. /\ run[r].pc = "linking"
        /\ evidence' = evidence \union {new}
        /\ \A e \in evidence : e.id # NewId
        /\ op'[k].evidence = NewId
        /\ \A j \in Keys \ {k} : /\ op'[j].evidence = op[j].evidence
                                 /\ op[j].evidence # NewId
        /\ \A e \in evidence : e.document # d
    BY <1>2, <2>0, LinkFiles
  <2>2. d # None /\ DocumentOf(d, k, record[k].body)'
    <3>1. d # None /\ DocumentOf(d, k, record[k].body) /\ op[k] # NoRow
      BY <2>0, <2>1 DEF Traced, RunTraced
    <3>2. record'[k].body = record[k].body
      BY <3>1, Grows
    <3> QED  BY <3>1, <3>2, DocumentStays DEF DocumentOf
  <2>3. new.id = NewId /\ new.document = d
    BY <2>0 DEF NewEvidence
  <2>4. ASSUME NEW e \in evidence', NEW j \in Keys, op'[j].evidence = e.id
        PROVE  e.document # None /\ DocumentOf(e.document, j, record[j].body)'
    <3>1. CASE e = new
      <4>1. j = k
        BY <2>1, <2>3, <2>4, <3>1
      <4> QED  BY <2>2, <2>3, <3>1, <4>1
    <3>2. CASE e \in evidence
      <4>1. op[j].evidence = e.id
        BY <2>1, <2>4, <3>2
      <4> QED  BY <1>0, <3>2, <4>1 DEF Honest
    <3> QED  BY <2>1, <3>1, <3>2
  <2>5. \A e \in evidence' : e.document # None
    BY <2>1, <2>2, <2>3 DEF Honest
  <2>6. \A e, f \in evidence' : e.document = f.document => e = f
    BY <2>1, <2>3 DEF Honest
  <2> QED  BY <2>4, <2>5, <2>6 DEF Honest
<1> QED  BY <1>1, <1>2, FilesOnlyByLink

\* The invariant is inductive.
LEMMA InitIInv == Init => IInv
<1> SUFFICES ASSUME Init PROVE IInv
  OBVIOUS
<1>1. Traced /\ Filed /\ Honest
  BY DEF Init, Traced, RunTraced, Filed, Honest, DocumentOf, Idle, NoRow, None
<1> QED  BY <1>1, TypeInit DEF IInv

\* Every step keeps the invariant.
LEMMA IInvStep == IInv /\ [Next]_vars => IInv'
<1> SUFFICES ASSUME IInv, [Next]_vars PROVE IInv'
  OBVIOUS
<1>1. TypeOK'
  BY TypeStep DEF IInv
<1>2. CASE UNCHANGED vars
  BY <1>1, <1>2 DEF IInv, Traced, RunTraced, Filed, Honest, DocumentOf, vars
<1>3. ASSUME NEW r \in Requests, Step(r)  PROVE Traced' /\ Filed' /\ Honest'
  <2>1. Traced'
    BY <1>3, OpsTraced, RunsTraced DEF IInv, Traced
  <2> QED  BY <1>3, <2>1, FiledStep, HonestStep DEF IInv
<1>4. Next => \E r \in Requests : Step(r)
  BY DEF Next, Step, Proceed
<1> QED  BY <1>1, <1>2, <1>3, <1>4 DEF IInv

\* The strengthening holds in every reachable state.
LEMMA AlwaysIInv == Spec => []IInv
  BY InitIInv, IInvStep, PTL DEF Spec

\* An upload that is repeated, doubled or interrupted ends in one evidence row,
\* which the operation, the record and every answer name.
THEOREM EvidenceOncePerKey == Spec => []OneEvidencePerKey
<1>1. ASSUME IInv PROVE OneEvidencePerKey
  <2>1. \A e \in evidence : Cardinality({k \in Keys : op[k].evidence = e.id}) = 1
    <3> SUFFICES ASSUME NEW e \in evidence
                 PROVE  Cardinality({k \in Keys : op[k].evidence = e.id}) = 1
      OBVIOUS
    <3>1. PICK k \in Keys : {x \in Keys : op[x].evidence = e.id} = {k}
      BY <1>1 DEF IInv, Filed
    <3> QED  BY <3>1, FS_Singleton
  <2>2. \A e \in evidence : e.id # None /\ \E k \in Keys : op[k].evidence = e.id
    <3> SUFFICES ASSUME NEW e \in evidence
                 PROVE  e.id # None /\ \E k \in Keys : op[k].evidence = e.id
      OBVIOUS
    <3>1. e.id \in 1 .. Cardinality(evidence) /\ Cardinality(evidence) \in Nat
      BY <1>1, FS_CardinalityType DEF IInv, Filed, TypeOK, RowsOK
    <3>2. PICK k \in Keys : {x \in Keys : op[x].evidence = e.id} = {k}
      BY <1>1 DEF IInv, Filed
    <3> QED  BY <3>1, <3>2 DEF None
  <2>3. {op[k].evidence : k \in Keys} \ {None} = {e.id : e \in evidence}
    BY <1>1, <2>2 DEF IInv, Filed
  <2> QED  BY <1>1, <2>1, <2>3 DEF IInv, Filed, OneEvidencePerKey
<1> QED  BY <1>1, AlwaysIInv, PTL

\* The evidence of a key is a document that was sent under that key with the
\* content its record was opened with; no document is evidence twice.
THEOREM EvidenceIsHonest == Spec => []EvidenceIsWhatWasSent
<1>1. ASSUME IInv PROVE EvidenceIsWhatWasSent
  BY <1>1 DEF IInv, Honest, DocumentOf, EvidenceIsWhatWasSent
<1> QED  BY <1>1, AlwaysIInv, PTL

-----------------------------------------------------------------------------
\* Request r of key k may still send a document: it knows of none.
MaySend(r, k) ==
    /\ run[r].key = k
    /\ \/ run[r].pc \in {"submitting", "uploading"}
       \/ /\ run[r].pc \in {"subject", "mapping", "received", "context"}
          /\ run[r].document = None

\* Request r of key k has sent a document and not recorded it.
MayRecord(r, k) == run[r].key = k /\ run[r].pc = "accepting"

\* The documents DI has for key k, and the requests of k in those two phases.
SentFor(k) == {i \in 1 .. Len(documents) : documents[i].key = k}
Senders(k) == {r \in Requests : MaySend(r, k)}
Recorders(k) == {r \in Requests : MayRecord(r, k)}

Knows(k) == op[k].document # None

\* Until the operation of k knows a document, each document sent for k is with
\* a request that will record it, or is a stray.  From then on no request
\* becomes a sender, so the senders that are left bound what is still to come.
Paid(k) ==
    /\ ~Knows(k) =>
          Cardinality(SentFor(k)) <= Cardinality(Recorders(k)) + strays
    /\ Knows(k) =>
          Cardinality(SentFor(k)) + Cardinality(Senders(k))
              <= Cardinality(Requests) + strays

\* What a step of request r does to the account of key k: nothing against it,
Quiet(r, k) ==
    /\ SentFor(k)' = SentFor(k) /\ (strays' = strays \/ strays' = strays + 1)
    /\ Knows(k)' <=> Knows(k)
    /\ Knows(k) /\ MaySend(r, k)' => MaySend(r, k)
    /\ ~Knows(k) /\ MayRecord(r, k) => MayRecord(r, k)'

\* or it sends a document and has it to record,
Sends(r, k) ==
    /\ run[r].key = k /\ documents' = Sent(r) /\ strays' = strays
    /\ Knows(k)' <=> Knows(k)
    /\ MaySend(r, k) /\ ~MaySend(r, k)' /\ ~MayRecord(r, k) /\ MayRecord(r, k)'

\* or it sends one and is not told so,
LosesAnswer(r, k) ==
    /\ run[r].pc = "uploading" /\ run[r].key = k /\ documents' = Sent(r) /\ strays' = strays + 1
    /\ Knows(k)' <=> Knows(k)
    /\ ~MaySend(r, k)' /\ ~MayRecord(r, k)

\* or it is lost with the one it had to record,
LosesDocument(r, k) ==
    /\ documents' = documents /\ strays' = strays + 1
    /\ Knows(k)' <=> Knows(k)
    /\ ~MaySend(r, k)'

\* or it records the first one of the key.
Records(r, k) ==
    /\ documents' = documents /\ strays' = strays
    /\ ~Knows(k) /\ Knows(k)'
    /\ MaySend(r, k)' => MaySend(r, k)

\* Every step is one of these moves, for every key.
LEMMA AccountMoves ==
    ASSUME TypeOK, Traced, NEW r \in Requests, Step(r), NEW k \in Keys
    PROVE  \/ Quiet(r, k) \/ Sends(r, k) \/ LosesAnswer(r, k)
           \/ LosesDocument(r, k) \/ Records(r, k)
<1> USE DEF MaySend, MayRecord, Knows
<1>s. strays \in Nat
  BY FaultAssumption DEF TypeOK
<1>d. documents' = documents => SentFor(k)' = SentFor(k)
  BY DEF SentFor
<1>e. documents' = Sent(r) /\ run[r].key # k => SentFor(k)' = SentFor(k)
  <2> SUFFICES ASSUME documents' = Sent(r), run[r].key # k
               PROVE  SentFor(k)' = SentFor(k)
    OBVIOUS
  <2>1. /\ Len(documents') = Len(documents) + 1 /\ Len(documents) \in Nat
        /\ \A i \in 1 .. Len(documents) : documents'[i] = documents[i]
        /\ documents'[Len(documents) + 1].key = run[r].key
    BY DEF Sent, TypeOK, DiOK
  <2> QED  BY <2>1 DEF SentFor
<1>r. /\ RunTraced(r)
      /\ run \in [Requests -> [pc : Steps, key : Keys \union {"-"},
                               body : Bodies \union {"-"}, subject : Nat,
                               document : Nat]]
      /\ op[k].document \in Nat
  BY DEF Traced, TypeOK, RunOK, RowsOK
<1>1. ASSUME NEW j \in Keys, NEW b \in Bodies, Receive(r, j, b)
      PROVE  Quiet(r, k)
  <2>1. /\ documents' = documents /\ strays' = strays
        /\ op'[k].document = op[k].document
    BY <1>1 DEF Receive, di, noted, TypeOK, RowsOK
  <2>2. run[r].pc = "idle"
    BY <1>1 DEF Receive, Idle
  <2>3. \/ run'[r].pc \in {"idle", "loading"}
        \/ op[j].document = None /\ run'[r].key = j
    <3>1. CASE op[j] = NoRow
      <4>1. run'[r] = Loaded(j, b) \/ run'[r] = run[r]
        BY <1>1, <1>r, <3>1 DEF Receive
      <4> QED  BY <3>1, <4>1, <2>2, LoadedShape DEF NoRow, TypeOK
    <3>2. CASE op[j] # NoRow
      BY <1>1, <1>r, <2>2, <3>2 DEF Receive, Idle
    <3> QED  BY <3>1, <3>2
  <2> QED  BY <2>1, <2>2, <2>3, <1>s, <1>d DEF Quiet
<1>2. CASE Load(r)
  <2>1. /\ documents' = documents /\ strays' = strays
        /\ op'[k].document = op[k].document /\ run[r].pc = "loading"
    BY <1>2 DEF Load, noted, di
  <2>2. /\ run'[r].key = run[r].key
        /\ run'[r].document = op[run[r].key].document
        /\ run'[r].pc \in {"subject", "context"}
    <3>1. /\ run[r].key \in Keys /\ run[r].body \in Bodies
          /\ run'[r] = Loaded(run[r].key, run[r].body)
      BY <1>2 DEF Load, TypeOK, RunOK
    <3> QED  BY <3>1, LoadedShape DEF TypeOK
  <2> QED  BY <2>1, <2>2, <1>s, <1>d DEF Quiet
<1>3. CASE \/ CreateSubject(r) \/ EnsureContext(r) \/ FetchDocument(r)
           \/ PersistMapping(r) \/ CallFails(r)
  <2>1. /\ documents' = documents /\ strays' = strays
        /\ op'[k].document = op[k].document /\ run[r].pc # "accepting"
    BY <1>3 DEF CreateSubject, EnsureContext, FetchDocument, PersistMapping,
                CallFails, Calls, noted, di
  <2>2. MaySend(r, k)' => MaySend(r, k)
    BY <1>3, <1>r DEF CreateSubject, EnsureContext, FetchDocument,
                      PersistMapping, CallFails, Goto
  <2> QED  BY <2>1, <2>2, <1>s, <1>d DEF Quiet
<1>4. CASE Upload(r)
  <2>1. /\ documents' = Sent(r) /\ strays' = strays /\ op' = op
        /\ run[r].pc = "uploading" /\ run'[r].pc = "accepting"
        /\ run'[r].key = run[r].key
    BY <1>4, <1>r DEF Upload, noted
  <2> QED  BY <2>1, <1>s, <1>e DEF Quiet, Sends
<1>5. CASE AnswerLost(r)
  <2>1. /\ op' = op /\ run[r].pc \in {"subject", "uploading"}
        /\ run'[r].pc = "failing"
    BY <1>5, <1>r DEF AnswerLost, Goto, noted
  <2>2. \/ documents' = documents /\ strays' = strays
        \/ run[r].pc = "uploading" /\ documents' = Sent(r) /\ strays' = strays + 1
    BY <1>5 DEF AnswerLost
  <2> QED  BY <2>1, <2>2, <1>s, <1>d, <1>e DEF Quiet, LosesAnswer
<1>6. CASE Crash(r)
  <2>1. /\ op' = op /\ documents' = documents /\ run'[r].pc = "idle"
        /\ strays' = strays + (IF run[r].pc = "accepting" THEN 1 ELSE 0)
    BY <1>6, <1>r DEF Crash, Idle, noted, di
  <2> QED  BY <2>1, <1>s, <1>d DEF Quiet, LosesDocument
<1>7. CASE MarkReceived(r) \/ MarkSubmitting(r) \/ MarkAccepted(r) \/ MarkFailed(r)
  <2>1. PICK status \in Statuses : Note(r, status) /\ run[r].pc # "idle"
    BY <1>7 DEF MarkReceived, MarkSubmitting, MarkAccepted, MarkFailed, Statuses
  <2>2. documents' = documents /\ strays' = strays
    BY <2>1 DEF Note, di
  <2>3. /\ k # run[r].key => op'[k] = op[k]
        /\ k = run[r].key =>
              op'[k].document = Coalesce(run[r].document, op[k].document)
    BY <2>1, NoteShape
  <2>4. MaySend(r, k)' => MaySend(r, k)
    BY <1>7, <1>r DEF MarkReceived, MarkSubmitting, MarkAccepted, MarkFailed,
                      Goto, Idle
  <2>5. CASE op[k].document = None /\ op'[k].document # None
    BY <2>2, <2>4, <2>5 DEF Records
  <2>6. CASE op[k].document = None /\ op'[k].document = None
    <3>1. ~(run[r].key = k /\ run[r].pc = "accepting")
      BY <2>3, <2>6, <1>r DEF RunTraced, Coalesce
    <3> QED  BY <2>2, <2>4, <2>6, <3>1, <1>s, <1>d DEF Quiet
  <2>7. CASE op[k].document # None
    <3>1. op'[k].document # None
      BY <2>3, <2>7 DEF Coalesce
    <3> QED  BY <2>2, <2>4, <2>7, <3>1, <1>s, <1>d DEF Quiet
  <2> QED  BY <2>5, <2>6, <2>7
<1>8. CASE Link(r)
  <2>1. /\ documents' = documents /\ strays' = strays /\ run[r].pc = "linking"
        /\ run'[r].pc = "idle"
    BY <1>8, <1>r DEF Link, Answer, Idle, di
  <2>2. op'[k].document = op[k].document
    BY <1>8, LinkShape
  <2> QED  BY <2>1, <2>2, <1>s, <1>d DEF Quiet
<1> QED  BY <1>1, <1>2, <1>3, <1>4, <1>5, <1>6, <1>7, <1>8 DEF Step, Proceed

\* The sets of the account are finite, and no request is in both phases.
LEMMA Countable ==
    ASSUME TypeOK, NEW k \in Keys
    PROVE  /\ IsFiniteSet(SentFor(k)) /\ IsFiniteSet(Senders(k))
           /\ IsFiniteSet(Recorders(k))
           /\ Cardinality(SentFor(k)) \in Nat /\ Cardinality(Senders(k)) \in Nat
           /\ Cardinality(Recorders(k)) \in Nat /\ Cardinality(Requests) \in Nat
           /\ Cardinality(Recorders(k)) + Cardinality(Senders(k))
                 <= Cardinality(Requests)
<1>1. Len(documents) \in Nat
  BY DEF TypeOK, DiOK
<1>2. /\ IsFiniteSet(1 .. Len(documents))
      /\ SentFor(k) \subseteq 1 .. Len(documents)
  BY <1>1, FS_Interval DEF SentFor
<1>3. /\ Senders(k) \subseteq Requests /\ Recorders(k) \subseteq Requests
      /\ Recorders(k) \union Senders(k) \subseteq Requests
      /\ Recorders(k) \cap Senders(k) = {}
  BY DEF Senders, Recorders, MaySend, MayRecord
<1>4. /\ IsFiniteSet(SentFor(k)) /\ IsFiniteSet(Senders(k))
      /\ IsFiniteSet(Recorders(k))
  BY <1>2, <1>3, RequestsAssumption, FS_Subset
<1>5. /\ Cardinality(SentFor(k)) \in Nat /\ Cardinality(Senders(k)) \in Nat
      /\ Cardinality(Recorders(k)) \in Nat /\ Cardinality(Requests) \in Nat
  BY <1>4, RequestsAssumption, FS_CardinalityType
<1>6. Cardinality(Recorders(k) \union Senders(k)) <= Cardinality(Requests)
  BY <1>3, RequestsAssumption, FS_Subset
<1>7. Cardinality(Recorders(k) \union Senders(k))
         = Cardinality(Recorders(k)) + Cardinality(Senders(k))
  <2>1. Cardinality(Recorders(k) \union Senders(k))
           = Cardinality(Recorders(k)) + Cardinality(Senders(k))
                - Cardinality(Recorders(k) \cap Senders(k))
    BY <1>4, FS_Union
  <2>2. Cardinality(Recorders(k) \cap Senders(k)) = 0
    BY <1>3, FS_EmptySet
  <2> QED  BY <1>5, <2>1, <2>2
<1> QED  BY <1>4, <1>5, <1>6, <1>7

\* A document that is sent for k is one more.
LEMMA OneMoreSent ==
    ASSUME TypeOK, NEW r \in Requests, run[r].pc # "idle", documents' = Sent(r),
           NEW k \in Keys, run[r].key = k
    PROVE  Cardinality(SentFor(k))' = Cardinality(SentFor(k)) + 1
<1> DEFINE n == Len(documents) + 1
<1>1. run[r].body \in Bodies
  BY DEF TypeOK, RunOK
<1>2. /\ Len(documents') = n /\ Len(documents) \in Nat
      /\ \A i \in 1 .. Len(documents) : documents'[i] = documents[i]
      /\ documents'[n].key = k
  BY <1>1 DEF Sent, TypeOK, DiOK
<1>3. n \notin SentFor(k) /\ SentFor(k)' = SentFor(k) \union {n}
  BY <1>2 DEF SentFor
<1> QED  BY <1>3, Countable, FS_AddElement

\* Only the request that takes the step changes its phase.
LEMMA PhasesMove ==
    ASSUME TypeOK, NEW r \in Requests, Step(r), NEW k \in Keys
    PROVE  /\ (MaySend(r, k)' => MaySend(r, k)) => Senders(k)' \subseteq Senders(k)
           /\ MaySend(r, k) /\ ~MaySend(r, k)' => Senders(k)' = Senders(k) \ {r}
           /\ (MayRecord(r, k) => MayRecord(r, k)') =>
                 Recorders(k) \subseteq Recorders(k)'
           /\ ~MayRecord(r, k) /\ MayRecord(r, k)' =>
                 Recorders(k)' = Recorders(k) \union {r}
           /\ Recorders(k) \ {r} \subseteq Recorders(k)'
<1>1. \A q \in Requests \ {r} : /\ MaySend(q, k)' = MaySend(q, k)
                                 /\ MayRecord(q, k)' = MayRecord(q, k)
  BY Grows DEF MaySend, MayRecord
<1> QED  BY <1>1 DEF Senders, Recorders

\* Every step keeps every account balanced.
LEMMA PaidStep ==
    ASSUME TypeOK, TypeOK', Traced, NEW r \in Requests, Step(r), NEW k \in Keys,
           Paid(k)
    PROVE  Paid(k)'
<1> DEFINE sent == Cardinality(SentFor(k))
           senders == Cardinality(Senders(k))
           recorders == Cardinality(Recorders(k))
           all == Cardinality(Requests)
<1>1. /\ sent \in Nat /\ senders \in Nat /\ recorders \in Nat /\ all \in Nat
      /\ recorders + senders <= all /\ strays \in Nat
  BY Countable, FaultAssumption DEF TypeOK
<1>2. /\ IsFiniteSet(Senders(k)) /\ IsFiniteSet(Recorders(k))
      /\ IsFiniteSet(Senders(k)') /\ IsFiniteSet(Recorders(k)')
      /\ sent' \in Nat /\ senders' \in Nat /\ recorders' \in Nat
  <2>1. /\ IsFiniteSet(Senders(k)) /\ IsFiniteSet(Recorders(k))
    BY Countable
  <2>2. /\ Len(documents') \in Nat
        /\ Senders(k)' \subseteq Requests /\ Recorders(k)' \subseteq Requests
    BY Grows DEF Senders, Recorders
  <2>3. /\ SentFor(k)' \subseteq 1 .. Len(documents')
        /\ IsFiniteSet(1 .. Len(documents'))
    BY <2>2, FS_Interval DEF SentFor
  <2>4. /\ IsFiniteSet(Senders(k)') /\ IsFiniteSet(Recorders(k)')
        /\ IsFiniteSet(SentFor(k)')
    BY <2>2, <2>3, RequestsAssumption, FS_Subset
  <2> QED  BY <2>1, <2>4, FS_CardinalityType
<1>3. /\ Senders(k)' \subseteq Senders(k) => senders' <= senders
      /\ Recorders(k) \subseteq Recorders(k)' => recorders <= recorders'
  BY <1>2, FS_Subset
<1>4. recorders <= recorders' + 1
  <2>1. /\ IsFiniteSet(Recorders(k) \ {r})
        /\ \/ Cardinality(Recorders(k) \ {r}) = recorders - 1
           \/ Cardinality(Recorders(k) \ {r}) = recorders
    BY <1>2, FS_RemoveElement
  <2>3. Cardinality(Recorders(k) \ {r}) \in Nat
    BY <2>1, FS_CardinalityType
  <2>2. Cardinality(Recorders(k) \ {r}) <= recorders'
    BY <1>2, PhasesMove, FS_Subset
  <2> QED  BY <1>1, <1>2, <2>1, <2>2, <2>3
<1>5. documents' = documents => sent' = sent
  BY DEF SentFor
<1>p. /\ ~Knows(k) => sent <= recorders + strays
      /\ Knows(k) => sent + senders <= all + strays
  BY DEF Paid
<1> SUFFICES /\ ~Knows(k)' => sent' <= recorders' + strays'
             /\ Knows(k)' => sent' + senders' <= all + strays'
  BY DEF Paid
<1> HIDE DEF sent, senders, recorders, all
<1>6. CASE Quiet(r, k)
  <2>1. sent' = sent
    BY <1>6 DEF Quiet, sent
  <2>2. Knows(k) => senders' <= senders
    BY <1>3, <1>6, PhasesMove DEF Quiet
  <2>3. ~Knows(k) => recorders <= recorders'
    BY <1>3, <1>6, PhasesMove DEF Quiet
  <2>4. strays' = strays \/ strays' = strays + 1
    BY <1>6 DEF Quiet
  <2>5. CASE Knows(k)
    <3>0. Knows(k)'
      BY <1>6, <2>5 DEF Quiet
    <3>1. sent + senders <= all + strays /\ senders' <= senders
      BY <1>p, <2>2, <2>5
    <3>2. sent' + senders' <= all + strays'
      BY <1>1, <1>2, <2>1, <2>4, <3>1
    <3> QED  BY <3>0, <3>2
  <2>6. CASE ~Knows(k)
    <3>0. ~Knows(k)'
      BY <1>6, <2>6 DEF Quiet
    <3>1. sent <= recorders + strays /\ recorders <= recorders'
      BY <1>p, <2>3, <2>6
    <3>2. sent' <= recorders' + strays'
      BY <1>1, <1>2, <2>1, <2>4, <3>1
    <3> QED  BY <3>0, <3>2
  <2> QED  BY <2>5, <2>6
<1>7. CASE Sends(r, k)
  <2>1. sent' = sent + 1
    BY <1>7, OneMoreSent DEF Sends, MaySend, sent
  <2>2. senders' = senders - 1
    <3>1. r \in Senders(k) /\ Senders(k)' = Senders(k) \ {r}
      BY <1>7, PhasesMove DEF Sends, Senders
    <3> QED  BY <1>2, <3>1, FS_RemoveElement DEF senders
  <2>3. recorders' = recorders + 1
    <3>1. r \notin Recorders(k) /\ Recorders(k)' = Recorders(k) \union {r}
      BY <1>7, PhasesMove DEF Sends, Recorders
    <3> QED  BY <1>2, <3>1, FS_AddElement DEF recorders
  <2> QED  BY <1>1, <1>2, <1>7, <1>p, <2>1, <2>2, <2>3 DEF Sends
<1>8. CASE LosesAnswer(r, k)
  <2>1. sent' = sent + 1
    BY <1>8, OneMoreSent DEF LosesAnswer, sent
  <2>2. senders' <= senders /\ recorders <= recorders'
    BY <1>3, <1>8, PhasesMove DEF LosesAnswer
  <2> QED  BY <1>1, <1>2, <1>8, <1>p, <2>1, <2>2 DEF LosesAnswer
<1>9. CASE LosesDocument(r, k)
  <2>1. senders' <= senders
    BY <1>3, <1>9, PhasesMove DEF LosesDocument
  <2> QED  BY <1>1, <1>2, <1>4, <1>5, <1>9, <1>p, <2>1 DEF LosesDocument, Knows
<1>10. CASE Records(r, k)
  <2>1. senders' <= senders
    BY <1>3, <1>10, PhasesMove DEF Records
  <2> QED  BY <1>1, <1>2, <1>5, <1>10, <1>p, <2>1 DEF Records, Knows
<1> QED  BY <1>6, <1>7, <1>8, <1>9, <1>10, AccountMoves

\* However often an upload is repeated and doubled, a document of its key
\* beyond the first is paid for by a request that ran beside another or by a
\* fault that struck before the document was recorded.
THEOREM NoUploadIsNeedless == Spec => []NoNeedlessUpload
<1> DEFINE Balanced == \A k \in Keys : Paid(k)
<1>1. Init => Balanced
  <2> SUFFICES ASSUME Init, NEW k \in Keys PROVE Paid(k)
    OBVIOUS
  <2>1. SentFor(k) = {} /\ Recorders(k) = {} /\ ~Knows(k) /\ strays = 0
    BY DEF Init, SentFor, Recorders, MayRecord, Knows, Idle, NoRow
  <2> QED  BY <2>1, FS_EmptySet DEF Paid
<1>2. IInv /\ IInv' /\ Balanced /\ [Next]_vars => Balanced'
  <2> SUFFICES ASSUME IInv, IInv', Balanced, [Next]_vars, NEW k \in Keys
               PROVE  Paid(k)'
    OBVIOUS
  <2>1. CASE UNCHANGED vars
    BY <2>1 DEF vars, Paid, Knows, SentFor, Senders, Recorders, MaySend, MayRecord
  <2>2. Next => \E r \in Requests : Step(r)
    BY DEF Next, Step, Proceed
  <2> QED  BY <2>1, <2>2, PaidStep DEF IInv
<1>3. IInv /\ Balanced => NoNeedlessUpload
  <2> SUFFICES ASSUME IInv, Balanced, NEW k \in Keys
               PROVE  Cardinality(SentFor(k)) <= Cardinality(Requests) + strays
    BY DEF NoNeedlessUpload, SentFor
  <2>1. Paid(k) /\ TypeOK /\ strays \in Nat
    BY FaultAssumption DEF IInv, TypeOK
  <2> QED  BY <2>1, Countable DEF Paid
<1> QED  BY <1>1, <1>2, <1>3, AlwaysIInv, PTL DEF Spec
================================================================================
