---------------------------- MODULE AdminOperations ----------------------------
(***************************************************************************)
(* admin_operations.py: the durable record of an administrative request    *)
(* that spans several systems, and the advisory lock over one key.         *)
(*                                                                         *)
(* A request asks for the lock of its key, claims the operation of the key *)
(* (insert it, take the one that is there, or refuse the key), and then    *)
(* runs the steps of its saga, each reported by an unconditional UPDATE in *)
(* a transaction of its own.  The lock is held on a connection outside     *)
(* those transactions: it goes when the request ends or is lost, and when  *)
(* the connection has been idle too long, of which the request learns      *)
(* nothing until its end.                                                  *)
(*                                                                         *)
(* current_step, error codes and texts, correlation ids and timestamps     *)
(* other than completed_at are left out: they are shown, and nothing that  *)
(* changes state reads them.                                               *)
(***************************************************************************)
EXTENDS Integers, Sequences, FiniteSets

CONSTANTS
    Requests,  \* requests of administrators that may run at the same time
    Keys,      \* Idempotency-Key values, each used for one type of operation
    NoOne,     \* no request; no payload
    Crashes,        \* whether a request may be lost at any step
    SecurityOpens   \* whether `with SecurityAdminClient(...)` opens: it does with
                    \* the tests' double; the class itself is an asynchronous
                    \* context manager, and `with` raises TypeError

ASSUME AdminAssumption == /\ Crashes \in BOOLEAN /\ SecurityOpens \in BOOLEAN
                          /\ NoOne \notin Requests

VARIABLES
    operation,  \* administrative_operations, by key
    holder,     \* who has the advisory lock of a key
    pc,         \* pc[r]: the next step of request r
    job,        \* job[r]: what r was asked for
    seen,       \* seen[r]: the copy of the operation r works from
    lapsed      \* history: keys whose lock a request lost while it went on

adminVars == <<operation, holder, pc, job, seen>>

NoTenant == 0
NoOperation == [status |-> "NONE", payload |-> NoOne,
                tenant |-> NoTenant, receipts |-> {}, completed |-> FALSE]
NoJob == [kind |-> "-", key |-> NoOne, payload |-> NoOne]
OpStatuses == {"NONE", "RECEIVED", "RUNNING", "RECOVERY_REQUIRED", "COMPLETED",
               "FAILED"}

InitAdmin ==
    /\ operation = [k \in Keys |-> NoOperation]
    /\ holder = [k \in Keys |-> NoOne]
    /\ pc = [r \in Requests |-> "idle"]
    /\ job = [r \in Requests |-> NoJob]
    /\ seen = [r \in Requests |-> NoOperation]

-----------------------------------------------------------------------------
Key(r) == job[r].key
At(r, step) == pc[r] = step
Goto(r, step) == pc' = [pc EXCEPT ![r] = step]

\* update_administrative_operation: the status is overwritten, whatever it
\* is; tenant, receipts and completion are only ever added to.
Updated(k, status, tenant, receipts) ==
    [operation EXCEPT ![k].status = status,
                      ![k].tenant = IF tenant # NoTenant THEN tenant ELSE @,
                      ![k].receipts = @ \union receipts,
                      ![k].completed = @ \/ status = "COMPLETED"]

Report(r, status, receipts) ==
    operation' = Updated(Key(r), status, NoTenant, receipts)

\* The request answers, or is lost: its lock goes with its connection.
Leave(r) ==
    /\ pc' = [pc EXCEPT ![r] = "idle"]
    /\ job' = [job EXCEPT ![r] = NoJob]
    /\ seen' = [seen EXCEPT ![r] = NoOperation]
    /\ holder' = [k \in Keys |-> IF holder[k] = r THEN NoOne ELSE holder[k]]

\* The steps that open Security's client.
SecurityCalls == {"tenant", "setRole", "removeRole", "activate"}

\* The request is lost: the process ends, or the client does not open, which
\* is an error no handler names.  The operation stays as it was reported.
Lost(r) ==
    /\ ~At(r, "idle")
    /\ Crashes \/ (~SecurityOpens /\ pc[r] \in SecurityCalls)
    /\ Leave(r)
    /\ UNCHANGED operation

\* A request arrives with its key and what it asks for.
Arrive(r, kind, k, payload) ==
    /\ At(r, "idle")
    /\ job' = [job EXCEPT ![r] = [kind |-> kind, key |-> k,
                                  payload |-> payload]]
    /\ Goto(r, "lock")

MutMayLock(r) == At(r, "lock")

\* administrative_operation_lock: waits until nobody holds the key.
MayLock(r) == At(r, "lock") /\ holder[Key(r)] = NoOne

TakeLock(r) ==
    /\ MayLock(r)
    /\ holder' = [holder EXCEPT ![Key(r)] = r]
    /\ Goto(r, IF job[r].kind = "RETRY" THEN "resume" ELSE "claim")
    /\ UNCHANGED <<operation, job, seen>>

\* idle_in_transaction_session_timeout: the lock's connection began a
\* transaction with its SELECT and is idle from then on; after ten seconds the
\* server ends it, and the lock is free.  Bound: once for each key.
LockLapses(r) ==
    /\ pc[r] \notin {"idle", "lock"} /\ job[r].key \in Keys \ lapsed
    /\ holder[Key(r)] = r
    /\ holder' = [holder EXCEPT ![Key(r)] = NoOne]
    /\ lapsed' = lapsed \union {Key(r)}
    /\ UNCHANGED <<operation, pc, job, seen>>

\* The key was used before for another request.
Refuses(r) ==
    LET found == operation[Key(r)] IN
        found.status # "NONE" /\ found.payload # job[r].payload

Claimed(r) ==
    IF operation[Key(r)].status # "NONE"
    THEN operation[Key(r)]
    ELSE [NoOperation EXCEPT !.status = "RECEIVED", !.payload = job[r].payload]

\* claim_administrative_operation.  The SELECT and the INSERT are one step here.
\* Of two claims of a new key at once, which a lapsed lock allows, the unique
\* index fails one, which is then lost.  The index includes the tenant: had the
\* first recorded its tenant before the second inserts, the key would get a
\* second row, which the model leaves out.
Claim(r) ==
    /\ At(r, "claim")
    /\ IF Refuses(r)
       THEN Leave(r) /\ UNCHANGED operation
       ELSE /\ operation' = [operation EXCEPT ![Key(r)] = Claimed(r)]
            /\ seen' = [seen EXCEPT ![r] = Claimed(r)]
            /\ Goto(r, "resume")
            /\ UNCHANGED <<holder, job>>

\* A completed operation is answered from its record.
Replay(r) ==
    /\ At(r, "resume")
    /\ seen[r].status = "COMPLETED"
    /\ Leave(r)
    /\ UNCHANGED operation
================================================================================
