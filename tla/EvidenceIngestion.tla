-------------------------- MODULE EvidenceIngestion --------------------------
(***************************************************************************)
(* upload_journey_evidence of evidence.py: the uploads of one customer's   *)
(* documents, each a saga of short transactions around calls to Document   *)
(* Intelligence (DI), a service of its own.                                *)
(*                                                                         *)
(* A request opens with one transaction (record, operation, subject), then *)
(* alternates DI calls with transactions that note how far it got, and     *)
(* ends with one that links the evidence.  Requests of the same key or of  *)
(* other keys run between any two of these steps; a call may fail, fail    *)
(* after it took effect, and a request may be lost at any step (crash,     *)
(* timeout, failed insert).  The client then repeats the upload.           *)
(*                                                                         *)
(* attempt_count and the error columns are left out: nothing reads them.   *)
(***************************************************************************)
EXTENDS Integers, Sequences, FiniteSets

CONSTANTS
    Requests,  \* upload requests that may run at the same time, finitely many
    Keys,      \* Idempotency-Key header values
    Bodies,    \* what an upload carries: journey, purpose, type, file
    MaxFaults  \* bound of the model: calls failed and requests lost

ASSUME RequestsAssumption == IsFiniteSet(Requests)
ASSUME FaultAssumption == MaxFaults \in Nat
ASSUME BodiesAssumption == "-" \notin Bodies

VARIABLES
    record,     \* idempotency_records, by key
    op,         \* evidence_ingestion_operations, by key
    mapping,    \* the customer's active di_subject_mappings row
    evidence,   \* evidence rows
    subjects,   \* number of subjects DI has for the customer
    documents,  \* the documents DI has, in the order they were uploaded
    replies,    \* the 201 responses sent
    run,        \* run[r]: next step and local variables of request r
    faults,     \* calls failed and requests lost
    strays      \* those of them that lost a document before it was recorded

vars == <<record, op, mapping, evidence, subjects, documents, replies, run,
          faults, strays>>
noted == <<record, op, mapping, evidence, replies>>
di == <<subjects, documents>>

None == 0   \* NULL, for identifiers
NoRow == [status |-> "NONE", subject |-> None, document |-> None,
          evidence |-> None]
Statuses == {"NONE", "RECEIVED", "DI_SUBMITTING", "DI_ACCEPTED", "LINKED",
             "RETRY_WAIT", "FAILED"}
Steps == {"idle", "loading", "subject", "mapping", "received", "context",
          "fetching", "submitting", "uploading", "accepting", "linking",
          "failing"}
Calls == {"subject", "context", "fetching", "uploading"}
Idle == [pc |-> "idle", key |-> "-", body |-> "-", subject |-> None,
         document |-> None]

Coalesce(x, y) == IF x # None THEN x ELSE y

-----------------------------------------------------------------------------
Init ==
    /\ record = [k \in Keys |-> [body |-> "-", answer |-> None]]
    /\ op = [k \in Keys |-> NoRow]
    /\ mapping = None
    /\ evidence = {}
    /\ subjects = 0
    /\ documents = <<>>
    /\ replies = {}
    /\ run = [r \in Requests |-> Idle]
    /\ faults = 0
    /\ strays = 0

Goto(r, step) == run' = [run EXCEPT ![r].pc = step]

MutNoted(k, status, subject, document) ==
    [op EXCEPT ![k].status = status, ![k].subject = subject,
               ![k].document = document]

\* _update_operation: what the request does not know is left as it is.
Noted(k, status, subject, document) ==
    [op EXCEPT ![k] = [status |-> status,
                       subject |-> Coalesce(subject, op[k].subject),
                       document |-> Coalesce(document, op[k].document),
                       evidence |-> op[k].evidence]]

Note(r, status) ==
    /\ op' = Noted(run[r].key, status, run[r].subject, run[r].document)
    /\ UNCHANGED <<record, mapping, evidence, replies, di, faults, strays>>

MutKnownDocument(k) == None

\* What the request goes on with: the operation's subject, or the customer's.
KnownSubject(k) == Coalesce(op[k].subject, mapping)
KnownDocument(k) == op[k].document

Loaded(k, b) ==
    [pc |-> IF KnownSubject(k) = None THEN "subject" ELSE "context",
     key |-> k, body |-> b,
     subject |-> KnownSubject(k), document |-> KnownDocument(k)]

MutSameRequestAny(k, b) == b \in Bodies
MutSameRequestFinal(k, b) == record[k].body = b /\ op[k].status # "FAILED"

\* Whether this upload is the one the key stands for.
SameRequest(k, b) == record[k].body = b

\* The first transaction.  An upload that is not the key's first one is
\* answered from the record, or refused (VAC-CONFLICT-003, nothing changes).
\* Of two first uploads of a key at once, the unique key of the record fails
\* one: it is as if that one had not been received.
Receive(r, k, b) ==
    /\ run[r] = Idle
    /\ \/ /\ op[k] = NoRow
          /\ record' = [record EXCEPT ![k].body = b]
          /\ op' = [op EXCEPT ![k].status = "RECEIVED"]
          /\ run' = [run EXCEPT ![r] = Loaded(k, b)]
          /\ UNCHANGED <<mapping, evidence, replies, di, faults, strays>>
       \/ /\ op[k] # NoRow /\ SameRequest(k, b)
          /\ record[k].answer # None
          /\ replies' = replies \union
                {[key |-> k, body |-> b, evidence |-> record[k].answer]}
          /\ UNCHANGED <<record, op, mapping, evidence, di, run, faults, strays>>
       \/ /\ op[k] # NoRow /\ SameRequest(k, b)
          /\ record[k].answer = None
          /\ run' = [run EXCEPT ![r] = [Idle EXCEPT !.pc = "loading",
                                                    !.key = k, !.body = b]]
          /\ UNCHANGED <<noted, di, faults, strays>>

\* A repeated upload reads the operation and the mapping after the record.
Load(r) ==
    /\ run[r].pc = "loading"
    /\ run' = [run EXCEPT ![r] = Loaded(run[r].key, run[r].body)]
    /\ UNCHANGED <<noted, di, faults, strays>>

-----------------------------------------------------------------------------
\* Calls of DI.  The Security token is fetched before the first of them: no
\* token is a failed first call.  Subjects and documents are numbered.
CreateSubject(r) ==
    /\ run[r].pc = "subject"
    /\ subjects' = subjects + 1
    /\ run' = [run EXCEPT ![r].subject = subjects + 1, ![r].pc = "mapping"]
    /\ UNCHANGED <<noted, documents, faults, strays>>

EnsureContext(r) ==
    /\ run[r].pc = "context"
    /\ Goto(r, IF run[r].document = None THEN "submitting" ELSE "fetching")
    /\ UNCHANGED <<noted, di, faults, strays>>

FetchDocument(r) ==
    /\ run[r].pc = "fetching"
    /\ Goto(r, "linking")
    /\ UNCHANGED <<noted, di, faults, strays>>

Sent(r) == Append(documents, [key |-> run[r].key, body |-> run[r].body])

Upload(r) ==
    /\ run[r].pc = "uploading"
    /\ documents' = Sent(r)
    /\ run' = [run EXCEPT ![r].document = Len(documents'), ![r].pc = "accepting"]
    /\ UNCHANGED <<noted, subjects, faults, strays>>

\* The call raises DiClientError; the handler goes on to note the failure.
CallFails(r) ==
    /\ run[r].pc \in Calls
    /\ faults < MaxFaults
    /\ faults' = faults + 1
    /\ Goto(r, "failing")
    /\ UNCHANGED <<noted, di, strays>>

\* The same, after DI did what it was asked to: only the answer was lost.
AnswerLost(r) ==
    /\ run[r].pc \in {"subject", "uploading"}
    /\ faults < MaxFaults
    /\ faults' = faults + 1
    /\ Goto(r, "failing")
    /\ \/ /\ run[r].pc = "subject"
          /\ subjects' = subjects + 1
          /\ UNCHANGED <<documents, strays>>
       \/ /\ run[r].pc = "uploading"
          /\ documents' = Sent(r)
          /\ strays' = strays + 1
          /\ UNCHANGED subjects
    /\ UNCHANGED noted

-----------------------------------------------------------------------------
\* Transactions between the calls.
NewMapping(r) == Coalesce(mapping, run[r].subject)

\* _persist_subject_mapping keeps the first mapping; the request keeps its own.
PersistMapping(r) ==
    /\ run[r].pc = "mapping"
    /\ mapping' = NewMapping(r)
    /\ Goto(r, "received")
    /\ UNCHANGED <<record, op, evidence, replies, di, faults, strays>>

MarkReceived(r) ==
    /\ run[r].pc = "received"
    /\ Note(r, "RECEIVED")
    /\ Goto(r, "context")

MarkSubmitting(r) ==
    /\ run[r].pc = "submitting"
    /\ Note(r, "DI_SUBMITTING")
    /\ Goto(r, "uploading")

MarkAccepted(r) ==
    /\ run[r].pc = "accepting"
    /\ Note(r, "DI_ACCEPTED")
    /\ Goto(r, "linking")

\* _operation_failure_state: retryable or not, the status is not read again.
MarkFailed(r) ==
    /\ run[r].pc = "failing"
    /\ \E status \in {"RETRY_WAIT", "FAILED"} : Note(r, status)
    /\ run' = [run EXCEPT ![r] = Idle]

MutExisting(k) == IF op[k].status = "LINKED" THEN op[k].evidence ELSE None

\* The evidence a repeated link finds on the operation, under its row lock.
Existing(k) == op[k].evidence

Answer(r, e) ==
    /\ record' = [record EXCEPT ![run[r].key].answer = e]
    /\ replies' = replies \union
          {[key |-> run[r].key, body |-> run[r].body, evidence |-> e]}
    /\ run' = [run EXCEPT ![r] = Idle]

\* _link_evidence; UNIQUE (tenant_id, di_document_id) guards the insert (a
\* violation would lose the request).
Link(r) ==
    /\ run[r].pc = "linking"
    /\ \/ /\ Existing(run[r].key) # None
          /\ Answer(r, Existing(run[r].key))
          /\ UNCHANGED <<op, evidence>>
       \/ /\ Existing(run[r].key) = None
          /\ \A e \in evidence : e.document # run[r].document
          /\ LET id == Cardinality(evidence) + 1 IN
                /\ evidence' = evidence \union
                      {[id |-> id, subject |-> run[r].subject,
                        document |-> run[r].document]}
                /\ op' = [op EXCEPT ![run[r].key].status = "LINKED",
                                    ![run[r].key].evidence = id]
                /\ Answer(r, id)
    /\ UNCHANGED <<mapping, di, faults, strays>>

\* The request is lost; what it had committed and what DI did remains.
Crash(r) ==
    /\ run[r].pc # "idle"
    /\ faults < MaxFaults
    /\ faults' = faults + 1
    /\ strays' = strays + (IF run[r].pc = "accepting" THEN 1 ELSE 0)
    /\ run' = [run EXCEPT ![r] = Idle]
    /\ UNCHANGED <<noted, di>>

Proceed(r) ==
    \/ Load(r) \/ CreateSubject(r) \/ EnsureContext(r) \/ FetchDocument(r)
    \/ Upload(r) \/ PersistMapping(r) \/ MarkReceived(r) \/ MarkSubmitting(r)
    \/ MarkAccepted(r) \/ MarkFailed(r) \/ Link(r)

Next ==
    \E r \in Requests :
        \/ \E k \in Keys, b \in Bodies : Receive(r, k, b)
        \/ Load(r)
        \/ CreateSubject(r)
        \/ EnsureContext(r)
        \/ FetchDocument(r)
        \/ Upload(r)
        \/ PersistMapping(r)
        \/ MarkReceived(r)
        \/ MarkSubmitting(r)
        \/ MarkAccepted(r)
        \/ MarkFailed(r)
        \/ Link(r)
        \/ CallFails(r)
        \/ AnswerLost(r)
        \/ Crash(r)

Spec == Init /\ [][Next]_vars

\* Requests that are not lost go on, and clients repeat what was not answered.
Retry(k) ==
    /\ op[k] # NoRow
    /\ \E r \in Requests : Receive(r, k, record[k].body)
FairSpec ==
    /\ Spec
    /\ \A r \in Requests : WF_vars(Proceed(r))
    /\ \A k \in Keys : WF_vars(Retry(k))
-----------------------------------------------------------------------------
\* The tables have their types.
RowsOK ==
    /\ record \in [Keys -> [body : Bodies \union {"-"}, answer : Nat]]
    /\ op \in [Keys -> [status : Statuses, subject : Nat, document : Nat,
                       evidence : Nat]]
    /\ mapping \in Nat
    /\ evidence \subseteq [id : Nat, subject : Nat, document : Nat]
    /\ IsFiniteSet(evidence)
    /\ replies \subseteq [key : Keys, body : Bodies, evidence : Nat]

\* So does what DI holds.
DiOK ==
    /\ subjects \in Nat
    /\ documents \in Seq([key : Keys, body : Bodies])

\* So do the local variables of requests; a running one has a key and a body.
RunOK ==
    /\ run \in [Requests -> [pc : Steps, key : Keys \union {"-"},
                            body : Bodies \union {"-"}, subject : Nat,
                            document : Nat]]
    /\ \A r \in Requests : run[r].pc # "idle" => /\ run[r].key \in Keys
                                                 /\ run[r].body \in Bodies

\* All types, and the bounds on faults.
TypeOK ==
    /\ RowsOK /\ DiOK /\ RunOK
    /\ faults \in 0 .. MaxFaults /\ strays \in 0 .. faults

\* However an upload is repeated, doubled and interrupted, its key ends with
\* one evidence row, the operation, the record and every 201 naming that row.
OneEvidencePerKey ==
    /\ \A e \in evidence : Cardinality({k \in Keys : op[k].evidence = e.id}) = 1
    /\ {op[k].evidence : k \in Keys} \ {None} = {e.id : e \in evidence}
    /\ \A k \in Keys : record[k].answer = op[k].evidence
    /\ \A p \in replies : p.evidence = op[p.key].evidence

\* The evidence of a key is a document uploaded under that key, with the
\* content the key was first used with, and no document is evidence twice.
EvidenceIsWhatWasSent ==
    /\ \A k \in Keys, e \in evidence :
          op[k].evidence = e.id =>
             documents[e.document] = [key |-> k, body |-> record[k].body]
    /\ \A e, f \in evidence : e.document = f.document => e = f

\* Every document DI holds beyond the first one of a key is paid for: by a
\* request of the key that ran beside another, or by a fault that struck
\* between the upload and its being recorded.  Any other failure reuses the
\* recorded document.
NoNeedlessUpload ==
    \A k \in Keys :
        Cardinality({i \in 1 .. Len(documents) : documents[i].key = k})
            <= Cardinality(Requests) + strays

\* What is known is never forgotten: the customer's mapping, and of each
\* operation that it has a subject and a document, and which evidence.
NothingForgotten ==
    [][/\ mapping # None => mapping' = mapping
       /\ \A k \in Keys :
             /\ op[k].subject # None => op[k].subject' # None
             /\ op[k].document # None => op[k].document' # None
             /\ op[k].evidence # None => op[k].evidence' = op[k].evidence]_vars

\* "DI-accepted/outer-failure scenario is recoverable": an upload that was
\* begun is linked, if its client repeats it and the faults end.
BegunIsLinked ==
    \A k \in Keys : (op[k] # NoRow) ~> (op[k].evidence # None)

\* "A Customer maps to at most one active DI Subject": all the evidence of
\* the customer is filed under the mapped subject.
OneSubjectPerCustomer ==
    \A e \in evidence : e.subject = mapping
=============================================================================
