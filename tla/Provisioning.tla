----------------------------- MODULE Provisioning ------------------------------
(***************************************************************************)
(* project_provisioning.py: a project is created in three systems, in this *)
(* order: the tenant in Security, the project row in Audit Core, the       *)
(* project in Document Intelligence (DI).  Each step leaves a receipt; a   *)
(* request that is repeated, or the retry route, goes on where the         *)
(* receipts end.                                                           *)
(*                                                                         *)
(* Security and DI are external.  A call may fail before or after it took  *)
(* effect.  Security gives one tenant per Idempotency-Key; DI becomes      *)
(* ready at its own pace.  The receipt of DI is stored whatever DI says;   *)
(* only one that says READY is a receipt here, nothing reads the others.   *)
(***************************************************************************)
EXTENDS AdminOperations

CONSTANTS
    ProvisionKeys,  \* the keys of PROJECT_PROVISION operations
    Details         \* what a project is created with: name, OEM, dates

ASSUME ProvisionKeysAssumption == ProvisionKeys \subseteq Keys

VARIABLES
    tenants,   \* Security's tenants: the key each was created with
    projects,  \* projects rows
    diReady    \* the tenants DI reports READY

provisionVars == <<tenants, projects, diReady>>

InitProvision ==
    /\ tenants = <<>>
    /\ projects = {}
    /\ diReady = {}

TenantsOf(k) == {t \in DOMAIN tenants : tenants[t] = k}
ProjectOf(t) == {p \in projects : p.tenant = t}
NewProject(t, d) == [tenant |-> t, details |-> d, status |-> "CONFIGURING"]

-----------------------------------------------------------------------------
\* POST /v1/projects, once the request is valid.
Create(r, k, d) == Arrive(r, "CREATE", k, d) /\ UNCHANGED <<operation, holder, seen>>

\* The retry route reads the operation before it asks for the lock, and goes
\* on from that copy.
Retry(r, k) ==
    /\ operation[k].status # "NONE"
    /\ Arrive(r, "RETRY", k, operation[k].payload)
    /\ seen' = [seen EXCEPT ![r] = operation[k]]
    /\ UNCHANGED <<operation, holder>>

\* Where _resume goes once Security's receipt is there.
AfterSecurity(copy) ==
    IF "AUDIT_CORE" \in copy.receipts THEN "di" ELSE "project"

Resume(r) ==
    /\ At(r, "resume")
    /\ job[r].kind \in {"CREATE", "RETRY"}
    /\ seen[r].status # "COMPLETED"
    /\ IF "SECURITY" \in seen[r].receipts
       THEN Goto(r, AfterSecurity(seen[r])) /\ UNCHANGED operation
       ELSE Report(r, "RUNNING", {}) /\ Goto(r, "tenant")
    /\ UNCHANGED <<holder, job, seen, provisionVars>>

\* _mark_recovery: the administrator is asked to retry.
Recover(r) ==
    /\ Report(r, "RECOVERY_REQUIRED", {})
    /\ Leave(r)

\* The tenant Security answers with: the key's, or a new one.
Answered(k) ==
    IF TenantsOf(k) # {} THEN CHOOSE t \in TenantsOf(k) : TRUE
    ELSE Len(tenants) + 1

TenantCreated(k) ==
    tenants' = IF Answered(k) \in DOMAIN tenants THEN tenants
               ELSE Append(tenants, k)

CreateTenant(r) ==
    /\ At(r, "tenant") /\ SecurityOpens
    /\ TenantCreated(Key(r))
    /\ \/ /\ seen' = [seen EXCEPT ![r].tenant = Answered(Key(r))]
          /\ Goto(r, "tenantKnown")
          /\ UNCHANGED <<operation, holder, job>>
       \/ Recover(r)
    /\ UNCHANGED <<projects, diReady>>

SecurityFails(r) ==
    /\ At(r, "tenant") /\ SecurityOpens
    /\ Recover(r)
    /\ UNCHANGED provisionVars

\* The receipt is stored, and the operation read again.
RecordTenant(r) ==
    LET updated == Updated(Key(r), "RUNNING", seen[r].tenant,
                           {"SECURITY"}) IN
    /\ At(r, "tenantKnown")
    /\ operation' = updated
    /\ seen' = [seen EXCEPT ![r] = updated[Key(r)]]
    /\ Goto(r, AfterSecurity(updated[Key(r)]))
    /\ UNCHANGED <<holder, job, provisionVars>>

\* Whether the tenant's project is the one asked for.
Matches(r) ==
    \A p \in ProjectOf(seen[r].tenant) : p.details = job[r].payload

\* _ensure_project_projection, one transaction.
EnsureProject(r) ==
    LET t == seen[r].tenant IN
    /\ At(r, "project")
    /\ IF Matches(r)
       THEN /\ projects' = IF ProjectOf(t) # {} THEN projects
                           ELSE projects \union {NewProject(t, job[r].payload)}
            /\ Goto(r, "projectKnown")
            /\ UNCHANGED <<operation, holder, job, seen>>
       ELSE Recover(r) /\ UNCHANGED projects
    /\ UNCHANGED <<tenants, diReady>>

ProjectionFails(r) ==
    /\ At(r, "project")
    /\ Recover(r)
    /\ UNCHANGED provisionVars

RecordProject(r) ==
    /\ At(r, "projectKnown")
    /\ Report(r, "RUNNING", {"AUDIT_CORE"})
    /\ Goto(r, "di")
    /\ UNCHANGED <<holder, job, seen, provisionVars>>

MutIsReady(t) == TRUE

\* DI answers READY.
IsReady(t) == t \in diReady'

\* DI is asked every time; it may be ready by then, or not yet.
EnsureDi(r) ==
    LET t == seen[r].tenant IN
    /\ At(r, "di")
    /\ diReady' \in {diReady, diReady \union {t}}
    /\ IF IsReady(t)
       THEN Goto(r, "ready") /\ UNCHANGED <<operation, holder, job, seen>>
       ELSE Recover(r)
    /\ UNCHANGED <<tenants, projects>>

DiFails(r) ==
    /\ At(r, "di")
    /\ diReady' \in {diReady, diReady \union {seen[r].tenant}}
    /\ Recover(r)
    /\ UNCHANGED <<tenants, projects>>

Complete(r) ==
    /\ At(r, "ready")
    /\ Report(r, "COMPLETED", {"DI"})
    /\ Leave(r)
    /\ UNCHANGED provisionVars

\* patch_project: the details change, in a transaction of its own.
PatchProject(p, d) ==
    /\ p \in projects /\ d # p.details
    /\ projects' = (projects \ {p}) \union {[p EXCEPT !.details = d]}
    /\ UNCHANGED <<adminVars, tenants, diReady>>

ProvisionStep(r) ==
    \/ \E k \in ProvisionKeys : Retry(r, k) /\ UNCHANGED provisionVars
    \/ \E k \in ProvisionKeys, d \in Details :
           Create(r, k, d) /\ UNCHANGED provisionVars
    \/ Resume(r)
    \/ CreateTenant(r) \/ SecurityFails(r) \/ RecordTenant(r)
    \/ EnsureProject(r) \/ ProjectionFails(r) \/ RecordProject(r)
    \/ EnsureDi(r) \/ DiFails(r) \/ Complete(r)

-----------------------------------------------------------------------------
(* An operation that was ever completed has one tenant in Security, that   *)
(* tenant's project in Audit Core and DI ready for it, and a receipt is    *)
(* the truth at every step before: no crash, lost answer, repetition or    *)
(* late retry leaves a second tenant or a READY project that is not there. *)
ReadyEverywhere ==
    \A k \in ProvisionKeys :
        LET op == operation[k] IN
        /\ Cardinality(TenantsOf(k)) <= 1
        /\ "SECURITY" \in op.receipts => TenantsOf(k) = {op.tenant}
        /\ "AUDIT_CORE" \in op.receipts => ProjectOf(op.tenant) # {}
        /\ "DI" \in op.receipts => op.tenant \in diReady
        /\ op.completed => op.receipts = {"SECURITY", "AUDIT_CORE", "DI"}

(* What an operation has achieved is never taken back: receipts, tenant    *)
(* and completion stay.  Its status may leave COMPLETED only under a retry *)
(* that read the operation before it was completed, or once a lock of the  *)
(* operation was lost to the timeout.                                      *)
ProgressIsKept ==
    [][\A k \in Keys :
         /\ operation[k].receipts \subseteq operation'[k].receipts
         /\ operation[k].completed => operation'[k].completed
         /\ operation[k].tenant \in {NoTenant, operation'[k].tenant}
         /\ operation[k].status = "COMPLETED" /\ operation'[k].status # "COMPLETED"
              => \/ \E r \in Requests : holder[k] = r /\ job[r].kind = "RETRY"
                 \/ k \in lapsed
      ]_operation
================================================================================
