----------------------- MODULE ProjectAdministrationProofs ----------------------
(***************************************************************************)
(* Proofs about the administration of projects: for every number of        *)
(* requests, keys, mappings, outlets and scenarios.                        *)
(*                                                                         *)
(* The inductive invariant says what a request at each step of its saga    *)
(* can rely on: the lock of its key, unless it lapsed (Locked); the        *)
(* receipts it has seen (Truthful, Copied); the two stores of a mapping    *)
(* that is alone (Alone, RaceFree); the checks of an activation (Checked). *)
(***************************************************************************)
EXTENDS ProjectAdministration, TLAPS, FiniteSetTheorems

Saga == {"CREATE", "RETRY"}
Mapping == {"PUT", "DELETE"}

\* What a request was asked for, by its step.
ControlOf(r) ==
    /\ pc[r] = "idle" => job[r] = NoJob
    /\ pc[r] \in {"lock", "claim", "resume"} => job[r].kind \in Saga \union Mapping
    /\ pc[r] = "claim" => job[r].kind # "RETRY"
    /\ pc[r] \in ProvisionSteps => job[r].kind \in Saga
    /\ pc[r] \in MappingSteps => job[r].kind \in Mapping
    /\ pc[r] \in ActivationSteps => job[r].kind = "ACTIVATE"
    /\ pc[r] \in {"setRole", "roleSet", "read"} => job[r].kind = "PUT"
    /\ pc[r] \in {"removeRole", "roleRemoved"} => job[r].kind = "DELETE"
    /\ job[r].kind \in Saga => job[r].key \in ProvisionKeys
    /\ job[r].kind = "PUT" => job[r].key \in MapKeys /\ job[r].payload \in Mappings
    /\ job[r].kind = "DELETE" => job[r].key \in MapKeys /\ job[r].payload = Removal

Control == \A r \in Requests : ControlOf(r)

\* Who goes on without the lock of its key has lost it to the timeout.
HasKey(r) == pc[r] \notin {"idle", "lock"} /\ job[r].kind # "ACTIVATE"

LockedOf(r) ==
    /\ HasKey(r) => holder[Key(r)] = r \/ Key(r) \in lapsed
    /\ \A k \in Keys : holder[k] = r => HasKey(r) /\ Key(r) = k
    /\ HasKey(r) /\ job[r].kind # "RETRY" /\ Key(r) \notin lapsed =>
          /\ pc[r] = "resume" => seen[r].status = operation[Key(r)].status
          /\ pc[r] \notin {"claim", "resume"} => operation[Key(r)].status # "COMPLETED"

Locked == \A r \in Requests : LockedOf(r)

\* One tenant for each key, one project for each tenant, and every receipt of
\* a provisioning is the truth.
TruthfulOf(k) ==
    /\ operation[k].status = "NONE" => operation[k] = NoOperation
    /\ k \notin ProvisionKeys => operation[k].tenant = NoTenant
    /\ k \in ProvisionKeys =>
        /\ "SECURITY" \in operation[k].receipts <=> operation[k].tenant # NoTenant
        /\ "SECURITY" \in operation[k].receipts => operation[k].tenant \in TenantsOf(k)
        /\ operation[k].receipts # {} => "SECURITY" \in operation[k].receipts
        /\ "AUDIT_CORE" \in operation[k].receipts => ProjectOf(operation[k].tenant) # {}
        /\ "DI" \in operation[k].receipts => operation[k].tenant \in diReady
        /\ operation[k].completed => operation[k].receipts = Receipts

Truthful ==
    /\ \A t, u \in DOMAIN tenants : tenants[t] = tenants[u] => t = u
    /\ \A p, q \in projects : p.tenant = q.tenant => p = q
    /\ \A k \in Keys : TruthfulOf(k)

\* The copy a provisioning works from is no more than what is recorded, and
\* its step tells what was achieved.
CopiedOf(r) ==
    /\ pc[r] = "idle" => seen[r] = NoOperation
    /\ job[r].kind \in Saga =>
        /\ pc[r] \in {"lock", "claim", "resume", "tenant"} =>
              /\ seen[r].receipts \subseteq operation[Key(r)].receipts
              /\ "SECURITY" \in seen[r].receipts =>
                    seen[r].tenant = operation[Key(r)].tenant
        /\ pc[r] = "tenantKnown" => seen[r].tenant \in TenantsOf(Key(r))
        /\ pc[r] \in {"project", "projectKnown", "di", "ready"} =>
              /\ "SECURITY" \in operation[Key(r)].receipts
              /\ seen[r].tenant = operation[Key(r)].tenant
        /\ pc[r] = "projectKnown" => ProjectOf(seen[r].tenant) # {}
        /\ pc[r] \in {"di", "ready"} => "AUDIT_CORE" \in operation[Key(r)].receipts
        /\ pc[r] = "ready" => seen[r].tenant \in diReady

Copied == \A r \in Requests : CopiedOf(r)

\* A transaction is open from "begin" to "commit", or during an activation.
TransactionOf(r) ==
    /\ pc[r] \notin {"read", "update", "hit", "commit"} \union ActivationSteps =>
          tx[r] = NoTx
    /\ pc[r] \in {"read", "update", "hit", "commit"} => tx[r].begun \in 1 .. clock

Transactions ==
    /\ \A a \in rows : a.from <= clock
    /\ \A r \in Requests : TransactionOf(r)

Plain(rs) == {[role |-> a.role, scope |-> a.scope] : a \in rs}

\* A mapping that is alone finds both stores as it left them.
AloneOf(r) ==
    Running(r) /\ r \notin shared =>
        /\ \A q \in Requests : Running(q) => q = r
        /\ pc[r] \in {"read", "update", "hit", "commit"} => tx[r].begun = clock
        /\ pc[r] = "hit" => tx[r].target = rows
        /\ pc[r] = "commit" => tx[r].hit = rows
        /\ pc[r] \in {"rowsDone", "removeRole", "roleRemoved"} => Plain(rows) = Wanted(r)
        /\ job[r].kind = "PUT" /\ pc[r] # "setRole" => secRole = Asked(r).role
        /\ pc[r] = "roleRemoved" => secRole = "NONE"

Alone == \A r \in Requests : AloneOf(r)

\* As long as no two transactions overlapped, the assignments have one role.
RaceFree ==
    ~raced =>
        /\ \A a, b \in rows : a.role = b.role
        /\ \A r, q \in OpenTxs : r = q
        /\ \A r \in OpenTxs : /\ pc[r] = "hit" => tx[r].target = rows
                              /\ pc[r] = "commit" => tx[r].hit = rows

\* A check that passed still holds, or the request may have been overtaken.
CheckedOf(r) ==
    /\ pc[r] \in {"coverage", "activate", "activated"} => open # {} \/ r \in drifted
    /\ pc[r] \in {"activate", "activated"} =>
          \/ open \subseteq {a.scope : a \in {b \in rows : b.role = "PC"}}
          \/ r \in drifted
    /\ pc[r] = "activated" => seen[r].tenant \in secActive

Checked == \A r \in Requests : CheckedOf(r)

IInv ==
    TypeOK /\ Control /\ Locked /\ Truthful /\ Copied /\ Transactions /\ Alone
           /\ RaceFree /\ Checked
-----------------------------------------------------------------------------
\* What a request's report and its end do, entry by entry.
Wrote(k, status, receipts) ==
    /\ operation' \in [Keys -> Operation]
    /\ \A x \in Keys : x # k => operation'[x] = operation[x]
    /\ operation'[k].status = status /\ operation'[k].payload = operation[k].payload
    /\ operation'[k].tenant = operation[k].tenant
    /\ operation'[k].receipts = operation[k].receipts \union receipts
    /\ operation'[k].completed = (operation[k].completed \/ status = "COMPLETED")

Left(r) ==
    /\ pc' = [pc EXCEPT ![r] = "idle"] /\ job' = [job EXCEPT ![r] = NoJob]
    /\ seen' = [seen EXCEPT ![r] = NoOperation]
    /\ holder' \in [Keys -> Requests \union {NoOne}]
    /\ \A k \in Keys : holder'[k] = IF holder[k] = r THEN NoOne ELSE holder[k]

LEMMA Constants ==
    /\ NoOperation \in Operation /\ NoJob \in Job /\ NoTx \in Transaction
    /\ NoOne \notin Requests
    /\ ProvisionKeys \subseteq Keys /\ MapKeys \subseteq Keys
    /\ ProvisionKeys \intersect MapKeys = {}
    /\ Removal \notin Mappings
    /\ \A m \in Mappings \union {Removal} : m \in Payloads /\ m.role \in RoleNames
BY AdminAssumption, ProvisionKeysAssumption, MapKeysAssumption, OperationTypesAssumption
   DEF NoOperation, Operation, NoJob, Job, NoTx, Transaction, OpStatuses, Payloads,
       NoTenant, Receipts, RoleNames

LEMMA UpdatedFacts ==
    ASSUME TypeOK, NEW k \in Keys, NEW status \in OpStatuses, NEW t \in Nat,
           NEW rc \in SUBSET Receipts
    PROVE  /\ Updated(k, status, t, rc) \in [Keys -> Operation]
           /\ \A x \in Keys : x # k => Updated(k, status, t, rc)[x] = operation[x]
           /\ Updated(k, status, t, rc)[k].status = status
           /\ Updated(k, status, t, rc)[k].payload = operation[k].payload
           /\ Updated(k, status, t, rc)[k].tenant =
                  IF t # NoTenant THEN t ELSE operation[k].tenant
           /\ Updated(k, status, t, rc)[k].receipts = operation[k].receipts \union rc
           /\ Updated(k, status, t, rc)[k].completed =
                  (operation[k].completed \/ status = "COMPLETED")
<1> DEFINE o == operation[k]
           u == [o EXCEPT !.status = status,
                          !.tenant = IF t # NoTenant THEN t ELSE @,
                          !.receipts = @ \union rc,
                          !.completed = @ \/ status = "COMPLETED"]
<1>1. operation \in [Keys -> Operation] /\ o \in Operation
  BY DEF TypeOK
<1>2. u \in Operation
  <2>1. (IF t # NoTenant THEN t ELSE o.tenant) \in Nat
    BY <1>1 DEF Operation
  <2>2. (o.completed \/ status = "COMPLETED") \in BOOLEAN
    OBVIOUS
  <2>3. (o.receipts \union rc) \in SUBSET Receipts
    BY <1>1 DEF Operation
  <2> QED  BY <1>1, <2>1, <2>2, <2>3 DEF Operation
<1>3. /\ u.status = status /\ u.payload = o.payload
      /\ u.tenant = IF t # NoTenant THEN t ELSE o.tenant
      /\ u.receipts = o.receipts \union rc
      /\ u.completed = (o.completed \/ status = "COMPLETED")
  BY <1>1 DEF Operation
<1>4. Updated(k, status, t, rc) = [operation EXCEPT ![k] = u]
  BY <1>1 DEF Updated, Operation
<1> HIDE DEF u
<1> QED  BY <1>1, <1>2, <1>3, <1>4

LEMMA ReportFacts ==
    ASSUME TypeOK, NEW r \in Requests, Key(r) \in Keys,
           NEW status \in OpStatuses, NEW rc \in SUBSET Receipts,
           Report(r, status, rc)
    PROVE  Wrote(Key(r), status, rc)
<1>1. NoTenant \in Nat
  BY DEF NoTenant
<1>2. operation' = Updated(Key(r), status, NoTenant, rc)
  BY DEF Report
<1> QED  BY <1>1, <1>2, UpdatedFacts DEF Wrote

LEMMA LeaveFacts ==
    ASSUME TypeOK, NEW r \in Requests, Leave(r)
    PROVE  Left(r)
BY DEF TypeOK, Leave, Left

LEMMA Keyed ==
    ASSUME TypeOK, Control, NEW r \in Requests
    PROVE  /\ job[r].kind \in Saga \union Mapping => Key(r) \in Keys
           /\ pc[r] \in {"claim", "resume"} \union ProvisionSteps \union MappingSteps
                  => Key(r) \in Keys
           /\ pc[r] \in ProvisionSteps => job[r].kind \in Saga /\ Key(r) \in ProvisionKeys
           /\ pc[r] \in MappingSteps => job[r].kind \in Mapping /\ Key(r) \in MapKeys
BY Constants DEF Control, ControlOf, Key, Saga, Mapping, ProvisionSteps, MappingSteps

LEMMA AdminTypes ==
    ASSUME TypeOK, Control, NEW r \in Requests, AdminStep(r) \/ LostStep(r)
    PROVE  TypeOK'
<1>. USE Constants, Keyed
<1>1. CASE LockLapses(r) /\ UNCHANGED <<provisionVars, mappingVars, activationVars>>
  BY <1>1 DEF TypeOK, LockLapses, Key, provisionVars, mappingVars, activationVars
<1>2. CASE TakeLock(r) /\ UNCHANGED <<lapsed, provisionVars, mappingVars, activationVars>>
  BY <1>2 DEF TypeOK, TakeLock, MayLock, At, Goto, provisionVars, mappingVars, activationVars
<1>3. CASE Claim(r) /\ UNCHANGED <<lapsed, provisionVars, mappingVars, activationVars>>
  <2>1. Key(r) \in Keys /\ operation[Key(r)] \in Operation /\ job[r] \in Job
    BY <1>3 DEF TypeOK, Claim, At
  <2>2. Claimed(r) \in Operation
    BY <2>1 DEF Claimed, Operation, OpStatuses, Job
  <2>3. CASE Refuses(r)
    BY <1>3, <2>3, LeaveFacts DEF Left, TypeOK, Claim, provisionVars, mappingVars, activationVars
  <2>4. CASE ~Refuses(r)
    BY <1>3, <2>1, <2>2, <2>4
       DEF TypeOK, Claim, Goto, At, provisionVars, mappingVars, activationVars
  <2> QED  BY <2>3, <2>4
<1>4. CASE Replay(r) /\ UNCHANGED <<lapsed, provisionVars, mappingVars, activationVars>>
  <2>1. Left(r) /\ UNCHANGED operation
    BY <1>4, LeaveFacts DEF Replay
  <2> QED  BY <1>4, <2>1 DEF Left, TypeOK, provisionVars, mappingVars, activationVars
<1>5. CASE LostStep(r)
  <2>1. Left(r) /\ UNCHANGED operation
    BY <1>5, LeaveFacts DEF LostStep, Lost
  <2> QED  BY <1>5, <2>1 DEF Left, TypeOK, LostStep, EndTx, Ends, provisionVars
<1> QED  BY <1>1, <1>2, <1>3, <1>4, <1>5 DEF AdminStep

LEMMA CreateTypes ==
    ASSUME TypeOK, Control, NEW r \in Requests, CreateStep(r)
    PROVE  TypeOK'
<1>. USE Constants, Keyed
<1>0. UNCHANGED <<lapsed, mappingVars, activationVars>>
  BY DEF CreateStep
<1>a. ASSUME At(r, "tenant") \/ At(r, "project") \/ At(r, "di"), Recover(r)
      PROVE  /\ operation' \in [Keys -> Operation] /\ Left(r)
  <2>1. Report(r, "RECOVERY_REQUIRED", {}) /\ Leave(r) /\ Key(r) \in Keys
    BY <1>a DEF Recover, At, ProvisionSteps
  <2> QED  BY <2>1, ReportFacts, LeaveFacts DEF OpStatuses, Wrote
<1>b. ASSUME Left(r), operation' \in [Keys -> Operation],
             tenants' \in Seq(Keys), projects' \subseteq Project, diReady' \subseteq Nat
      PROVE  TypeOK'
  BY <1>0, <1>b DEF Left, TypeOK, mappingVars, activationVars
<1>c. \A k \in Keys : /\ TenantsOf(k) \subseteq Nat /\ Answered(k) \in Nat
                      /\ TenantCreated(k) => tenants' \in Seq(Keys)
  <2> TAKE k \in Keys
  <2>1. tenants \in Seq(Keys) /\ TenantsOf(k) \subseteq Nat
    BY DEF TypeOK, TenantsOf
  <2>2. Answered(k) \in Nat
    <3>1. TenantsOf(k) # {} => (CHOOSE t \in TenantsOf(k) : TRUE) \in TenantsOf(k)
      OBVIOUS
    <3> QED  BY <2>1, <3>1 DEF Answered
  <2> QED  BY <2>1, <2>2 DEF TenantCreated
<1>1. ASSUME NEW k \in ProvisionKeys, Retry(r, k), UNCHANGED provisionVars
      PROVE  TypeOK'
  <2>1. operation[k] \in Operation /\ k \in Keys
    BY DEF TypeOK
  <2>2. [kind |-> "RETRY", key |-> k, payload |-> operation[k].payload] \in Job
    BY <2>1 DEF Job, Operation
  <2> QED  BY <1>0, <1>1, <2>1, <2>2
             DEF TypeOK, Retry, Arrive, Goto, provisionVars, mappingVars, activationVars
<1>2. ASSUME NEW k \in ProvisionKeys, NEW d \in Details, Create(r, k, d),
             UNCHANGED provisionVars
      PROVE  TypeOK'
  <2>1. [kind |-> "CREATE", key |-> k, payload |-> d] \in Job
    BY DEF Job, Payloads
  <2> QED  BY <1>0, <1>2, <2>1
             DEF TypeOK, Create, Arrive, Goto, provisionVars, mappingVars, activationVars
<1>3. CASE Resume(r)
  <2>1. operation' \in [Keys -> Operation]
    <3>1. Key(r) \in Keys /\ "RUNNING" \in OpStatuses
      BY <1>3 DEF Resume, At, OpStatuses
    <3>2. UNCHANGED operation \/ Report(r, "RUNNING", {})
      BY <1>3 DEF Resume
    <3> QED  BY <3>1, <3>2, ReportFacts DEF Wrote, TypeOK
  <2> QED  BY <1>0, <1>3, <2>1
              DEF TypeOK, Resume, Goto, AfterSecurity, ProvisionSteps, provisionVars,
                  mappingVars, activationVars
<1>4. CASE CreateTenant(r)
  <2>1. tenants' \in Seq(Keys) /\ UNCHANGED <<projects, diReady>>
    BY <1>4, <1>c DEF CreateTenant, At, ProvisionSteps
  <2>2. CASE Recover(r)
    BY <1>a, <1>b, <1>4, <2>1, <2>2 DEF CreateTenant, TypeOK
  <2>3. CASE ~Recover(r)
    <3>1. Key(r) \in Keys /\ Answered(Key(r)) \in Nat
      BY <1>4, <1>c DEF CreateTenant, At, ProvisionSteps
    <3>2. seen' = [seen EXCEPT ![r].tenant = Answered(Key(r))]
      BY <1>4, <2>3 DEF CreateTenant
    <3>3. seen' \in [Requests -> Operation]
      BY <3>1, <3>2 DEF TypeOK, Operation
    <3> QED  BY <1>0, <1>4, <2>1, <2>3, <3>3
                DEF TypeOK, CreateTenant, Goto, ProvisionSteps, mappingVars, activationVars
  <2> QED  BY <2>2, <2>3
<1>5. CASE SecurityFails(r) \/ ProjectionFails(r)
  BY <1>a, <1>b, <1>5 DEF SecurityFails, ProjectionFails, TypeOK, provisionVars
<1>6. CASE RecordTenant(r)
  <2> DEFINE updated == Updated(Key(r), "RUNNING", seen[r].tenant, {"SECURITY"})
  <2>1. Key(r) \in Keys /\ seen[r].tenant \in Nat /\ "RUNNING" \in OpStatuses
        /\ {"SECURITY"} \subseteq Receipts
    BY <1>6 DEF RecordTenant, At, ProvisionSteps, TypeOK, Operation, OpStatuses, Receipts
  <2>2. updated \in [Keys -> Operation]
    BY <2>1, UpdatedFacts
  <2>3. /\ operation' = updated /\ seen' = [seen EXCEPT ![r] = updated[Key(r)]]
        /\ Goto(r, AfterSecurity(updated[Key(r)]))
        /\ UNCHANGED <<holder, job, provisionVars>>
    BY <1>6 DEF RecordTenant
  <2> HIDE DEF updated
  <2> QED  BY <1>0, <2>1, <2>2, <2>3
              DEF TypeOK, Goto, AfterSecurity, ProvisionSteps, provisionVars, mappingVars,
                  activationVars
<1>7. CASE EnsureProject(r)
  <2>0. job[r] \in Job /\ seen[r] \in Operation
    BY DEF TypeOK
  <2>1. NewProject(seen[r].tenant, job[r].payload) \in Project
    BY <2>0 DEF NewProject, Project, Operation, Job
  <2>2. CASE Matches(r)
    BY <1>0, <1>7, <2>1, <2>2
       DEF EnsureProject, TypeOK, Goto, ProvisionSteps, mappingVars, activationVars
  <2>3. CASE ~Matches(r)
    BY <1>a, <1>b, <1>7, <2>3 DEF EnsureProject, TypeOK
  <2> QED  BY <2>2, <2>3
<1>8. CASE RecordProject(r)
  <2>1. operation' \in [Keys -> Operation]
    BY <1>8, ReportFacts DEF RecordProject, At, ProvisionSteps, OpStatuses, Receipts, Wrote
  <2> QED  BY <1>0, <1>8, <2>1
              DEF TypeOK, RecordProject, Goto, ProvisionSteps, provisionVars, mappingVars,
                  activationVars
<1>9. CASE EnsureDi(r) \/ DiFails(r)
  <2>1. diReady' \subseteq Nat /\ UNCHANGED <<tenants, projects>>
    <3>1. seen[r].tenant \in Nat
      BY DEF TypeOK, Operation
    <3> QED  BY <1>9, <3>1 DEF EnsureDi, DiFails, TypeOK
  <2>2. CASE Recover(r)
    BY <1>a, <1>b, <1>9, <2>1, <2>2 DEF EnsureDi, DiFails, TypeOK
  <2>3. CASE ~Recover(r)
    BY <1>0, <1>9, <2>1, <2>3
       DEF TypeOK, EnsureDi, DiFails, Goto, ProvisionSteps, mappingVars, activationVars
  <2> QED  BY <2>2, <2>3
<1>10. CASE Complete(r)
  <2>1. operation' \in [Keys -> Operation]
    BY <1>10, ReportFacts DEF Complete, At, ProvisionSteps, OpStatuses, Receipts, Wrote
  <2> QED  BY <1>b, <1>10, <2>1, LeaveFacts DEF Complete, TypeOK, provisionVars
<1> QED  BY <1>1, <1>2, <1>3, <1>4, <1>5, <1>6, <1>7, <1>8, <1>9, <1>10
            DEF CreateStep, ProvisionStep

LEMMA MappingTypes ==
    ASSUME TypeOK, Control, NEW r \in Requests, MapStep(r)
    PROVE  TypeOK'
<1>. USE Constants, Keyed
<1>0. UNCHANGED <<lapsed, provisionVars, scenario, secActive, open>>
      /\ drifted' \subseteq Requests
  BY DEF MapStep, Activating, TypeOK
<1>a. ASSUME NEW status, pc[r] \in MappingSteps, EndAs(r, status),
             status \in {"RECOVERY_REQUIRED", "FAILED"}
      PROVE  /\ operation' \in [Keys -> Operation] /\ Left(r)
             /\ shared' \subseteq Requests
  BY <1>a, ReportFacts, LeaveFacts DEF EndAs, Ends, OpStatuses, Wrote, TypeOK
<1>b. ASSUME Left(r), operation' \in [Keys -> Operation], secRole' \in RoleNames,
             rows' \subseteq Assignment, clock' \in Nat,
             tx' \in [Requests -> Transaction], shared' \subseteq Requests,
             raced' \in BOOLEAN
      PROVE  TypeOK'
  BY <1>0, <1>b DEF Left, TypeOK, provisionVars
<1>c. pc[r] \in MappingSteps =>
         /\ Asked(r) \in Mappings \union {Removal} /\ Asked(r).role \in RoleNames
         /\ \A s \in Asked(r).scopes : s \in UNION {m.scopes : m \in Mappings}
  BY DEF Control, ControlOf, MappingSteps, Asked, Removal, Mapping
<1>1. ASSUME NEW k \in MapKeys, NEW m \in Mappings \union {Removal}, AskMapping(r, k, m)
      PROVE  TypeOK'
  <2>1. [kind |-> IF m = Removal THEN "DELETE" ELSE "PUT", key |-> k, payload |-> m] \in Job
    BY DEF Job
  <2> QED  BY <1>0, <1>1, <2>1
              DEF TypeOK, AskMapping, Arrive, Goto, provisionVars, mappingVars
<1>2. CASE StartMapping(r)
  <2>1. operation' \in [Keys -> Operation]
    BY <1>2, ReportFacts DEF StartMapping, At, OpStatuses, Wrote
  <2>2. shared' \subseteq Requests
    BY <1>2 DEF StartMapping, TypeOK
  <2> QED  BY <1>0, <1>2, <2>1, <2>2
              DEF TypeOK, StartMapping, Goto, First, MappingSteps, provisionVars
<1>3. CASE SetRole(r)
  <2>1. pc[r] \in MappingSteps /\ secRole' \in RoleNames
    BY <1>3, <1>c DEF SetRole, At, MappingSteps
  <2>2. CASE EndAs(r, "RECOVERY_REQUIRED")
    BY <1>a, <1>b, <1>3, <2>1, <2>2 DEF SetRole, TypeOK
  <2>3. CASE ~EndAs(r, "RECOVERY_REQUIRED")
    BY <1>0, <1>3, <2>1, <2>3 DEF TypeOK, SetRole, Goto, MappingSteps, provisionVars
  <2> QED  BY <2>2, <2>3
<1>4. CASE SetRoleFails(r)
  BY <1>a, <1>b, <1>4 DEF SetRoleFails, At, MappingSteps, TypeOK
<1>5. CASE RecordRole(r)
  <2>1. operation' \in [Keys -> Operation]
    BY <1>5, ReportFacts DEF RecordRole, At, MappingSteps, OpStatuses, Receipts, Wrote
  <2> QED  BY <1>0, <1>5, <2>1
              DEF TypeOK, RecordRole, Goto, MappingSteps, provisionVars, mappingVars
<1>6. CASE BeginTx(r)
  <2>1. tx' \in [Requests -> Transaction] /\ clock' \in Nat
    <3>1. clock \in Nat /\ clock + 1 \in Nat
      BY DEF TypeOK
    <3>2. clock' = clock + 1 /\ tx' = [tx EXCEPT ![r].begun = clock + 1]
      BY <1>6 DEF BeginTx
    <3> QED  BY <3>1, <3>2 DEF TypeOK, Transaction
  <2> QED  BY <1>0, <1>6, <2>1 DEF TypeOK, BeginTx, Goto, MappingSteps, provisionVars
<1>7. CASE ReadRows(r)
  <2>1. tx' \in [Requests -> Transaction]
    BY <1>7 DEF ReadRows, EndTx, TypeOK
  <2> QED  BY <1>0, <1>7, <2>1 DEF TypeOK, ReadRows, Goto, MappingSteps, provisionVars
<1>8. CASE StartUpdate(r)
  <2>1. tx' \in [Requests -> Transaction]
    BY <1>8 DEF StartUpdate, Targets, TypeOK, Transaction
  <2> QED  BY <1>0, <1>8, <2>1 DEF TypeOK, StartUpdate, Goto, MappingSteps, provisionVars
<1>9. CASE FinishUpdate(r)
  <2>1. pc[r] \in MappingSteps /\ UNCHANGED <<secRole, rows, clock, raced>>
    BY <1>9 DEF FinishUpdate, At, MappingSteps
  <2>2. CASE EndAs(r, "RECOVERY_REQUIRED") /\ EndTx(r)
    BY <1>a, <1>b, <2>1, <2>2 DEF EndTx, TypeOK
  <2>3. CASE ~(EndAs(r, "RECOVERY_REQUIRED") /\ EndTx(r))
    <3>1. /\ tx' = [tx EXCEPT ![r].hit = tx[r].target \intersect rows]
          /\ Goto(r, "commit") /\ UNCHANGED <<operation, holder, job, seen, shared>>
      BY <1>9, <2>3 DEF FinishUpdate
    <3>2. tx' \in [Requests -> Transaction]
      BY <3>1 DEF TypeOK, Transaction
    <3> QED  BY <1>0, <2>1, <3>1, <3>2 DEF TypeOK, Goto, MappingSteps, provisionVars
  <2> QED  BY <2>2, <2>3
<1>10. CASE CommitTx(r)
  <2>1. NewRows(r) \subseteq Assignment
    <3>1. tx[r].begun \in Nat
      BY DEF TypeOK, Transaction
    <3> QED  BY <1>c, <1>10, <3>1 DEF CommitTx, At, MappingSteps, NewRows, Assignment
  <2>2. tx' \in [Requests -> Transaction] /\ rows' \subseteq Assignment
    BY <1>10, <2>1 DEF CommitTx, EndTx, TypeOK
  <2> QED  BY <1>0, <1>10, <2>2 DEF TypeOK, CommitTx, Goto, MappingSteps, provisionVars
<1>11. CASE TxFails(r)
  BY <1>a, <1>b, <1>11 DEF TxFails, MappingSteps, EndTx, TypeOK
<1>d. ASSUME NEW rc \in Receipts, pc[r] \in MappingSteps, Done(r, rc)
      PROVE  TypeOK'
  <2>1. operation' \in [Keys -> Operation] /\ Left(r)
    BY <1>d, ReportFacts, LeaveFacts DEF Done, OpStatuses, Wrote
  <2>2. shared' \subseteq Requests /\ raced' \in BOOLEAN
        /\ UNCHANGED <<secRole, rows, clock, tx>>
    BY <1>d DEF Done, Ends, TypeOK
  <2> QED  BY <1>b, <2>1, <2>2 DEF TypeOK
<1>12. CASE RecordRows(r)
  <2>1. CASE job[r].kind = "PUT"
    BY <1>d, <1>12, <2>1 DEF RecordRows, At, MappingSteps, Receipts
  <2>2. CASE job[r].kind # "PUT"
    <3>1. operation' \in [Keys -> Operation]
      BY <1>12, <2>2, ReportFacts
         DEF RecordRows, At, MappingSteps, OpStatuses, Receipts, Wrote
    <3> QED  BY <1>0, <1>12, <2>2, <3>1
                DEF TypeOK, RecordRows, Goto, MappingSteps, provisionVars, mappingVars
  <2> QED  BY <2>1, <2>2
<1>13. CASE RemoveRole(r)
  <2>1. pc[r] \in MappingSteps /\ secRole' \in RoleNames
    BY <1>13 DEF RemoveRole, At, MappingSteps, RoleNames, Removal
  <2>2. CASE EndAs(r, "RECOVERY_REQUIRED")
    BY <1>a, <1>b, <1>13, <2>1, <2>2 DEF RemoveRole, TypeOK
  <2>3. CASE ~EndAs(r, "RECOVERY_REQUIRED")
    BY <1>0, <1>13, <2>1, <2>3 DEF TypeOK, RemoveRole, Goto, MappingSteps, provisionVars
  <2> QED  BY <2>2, <2>3
<1>14. CASE RemoveRoleFails(r)
  BY <1>a, <1>b, <1>14 DEF RemoveRoleFails, At, MappingSteps, TypeOK
<1>15. CASE RecordRemoval(r)
  BY <1>d, <1>15 DEF RecordRemoval, At, MappingSteps, Receipts
<1> QED  BY <1>1, <1>2, <1>3, <1>4, <1>5, <1>6, <1>7, <1>8, <1>9, <1>10, <1>11, <1>12,
            <1>13, <1>14, <1>15 DEF MapStep, MappingStep

LEMMA ActivationTypes ==
    ASSUME TypeOK, Control, NEW r \in Requests, ActivateStep(r)
    PROVE  TypeOK'
<1>. USE Constants
<1>0. UNCHANGED lapsed
  BY DEF ActivateStep
<1>a. ASSUME Decline(r), secActive' \subseteq Nat
      PROVE  TypeOK'
  <2>1. Left(r)
    BY <1>a, LeaveFacts DEF Decline
  <2> QED  BY <1>0, <1>a, <2>1 DEF Left, Decline, EndTx, TypeOK, provisionVars
<1>1. ASSUME NEW p \in projects, Activate(r, p)
      PROVE  TypeOK'
  <2>1. job' \in [Requests -> Job]
    BY <1>1 DEF Activate, TypeOK, Job
  <2>2. tx' \in [Requests -> Transaction]
    BY <1>1 DEF Activate, TypeOK, Transaction
  <2>3. seen' \in [Requests -> Operation]
    <3>1. p.tenant \in Nat
      BY DEF TypeOK, Project
    <3> QED  BY <1>1, <3>1 DEF Activate, TypeOK, Operation
  <2> QED  BY <1>0, <1>1, <2>1, <2>2, <2>3
              DEF TypeOK, Activate, Goto, ActivationSteps, provisionVars, activationVars
<1>2. CASE CheckStructure(r) \/ CheckCoverage(r)
  BY <1>0, <1>2 DEF CheckStructure, CheckCoverage, TypeOK, Goto, ActivationSteps,
                    provisionVars, mappingVars, activationVars
<1>3. CASE NotReady(r)
  BY <1>a, <1>3 DEF NotReady, TypeOK
<1>4. CASE ActivateTenant(r)
  <2>1. secActive' \subseteq Nat
    <3>1. seen[r].tenant \in Nat
      BY DEF TypeOK, Operation
    <3> QED  BY <1>4, <3>1 DEF ActivateTenant, TypeOK
  <2>2. CASE Decline(r)
    BY <1>a, <2>1, <2>2
  <2>3. CASE ~Decline(r)
    BY <1>0, <1>4, <2>1, <2>3
       DEF ActivateTenant, TypeOK, Goto, ActivationSteps, provisionVars, mappingVars
  <2> QED  BY <2>2, <2>3
<1>5. CASE ActivateProject(r)
  <2>1. Left(r)
    BY <1>5, LeaveFacts DEF ActivateProject
  <2>2. projects' \subseteq Project
    <3>1. \A p \in projects :
             [p EXCEPT !.status = IF p.tenant = seen[r].tenant THEN "ACTIVE" ELSE @]
                 \in Project
      BY DEF TypeOK, Project
    <3> QED  BY <1>5, <3>1 DEF ActivateProject
  <2> QED  BY <1>0, <1>5, <2>1, <2>2 DEF Left, ActivateProject, EndTx, TypeOK
<1> QED  BY <1>1, <1>2, <1>3, <1>4, <1>5 DEF ActivateStep

LEMMA TypesKept ==
    ASSUME TypeOK, Control, [Next]_vars
    PROVE  TypeOK'
<1>. USE DEF TypeOK
<1>1. CASE UNCHANGED vars
  BY <1>1 DEF vars, adminVars, provisionVars, mappingVars
<1>2. ASSUME NEW o \in Outlets, PatchOutlet(o)
      PROVE  TypeOK'
  BY <1>2 DEF PatchOutlet, Activating, adminVars, provisionVars, mappingVars
<1>3. CASE PatchStep
  <2>1. PICK p \in projects, d \in Details : PatchProject(p, d)
    BY <1>3 DEF PatchStep
  <2>2. [p EXCEPT !.details = d] \in Project
    BY DEF Project, Payloads
  <2>3. projects' \subseteq Project /\ UNCHANGED <<adminVars, tenants, diReady>>
    BY <2>1, <2>2 DEF PatchProject
  <2> QED  BY <1>3, <2>3 DEF PatchStep, adminVars, mappingVars, activationVars
<1>4. ASSUME NEW r \in Requests, Step(r)
      PROVE  TypeOK'
  BY <1>4, AdminTypes, CreateTypes, MappingTypes, ActivationTypes DEF Step
<1> QED  BY <1>1, <1>2, <1>3, <1>4 DEF Next

-----------------------------------------------------------------------------
\* What any step of a request does to the operations, the locks and the other
\* requests.

\* It reports to its own operation, which only adds to it.
Writes(r) ==
    /\ pc[r] \in {"resume"} \union ProvisionSteps \union MappingSteps
    /\ pc[r] = "resume" => seen[r].status # "COMPLETED"
    /\ \A x \in Keys : x # Key(r) => operation'[x] = operation[x]
    /\ operation'[Key(r)].status # "NONE"
    /\ operation'[Key(r)].status = "COMPLETED" => pc'[r] = "idle"
    /\ operation[Key(r)].receipts \subseteq operation'[Key(r)].receipts
    /\ operation[Key(r)].completed => operation'[Key(r)].completed
    /\ pc[r] # "tenantKnown" => operation'[Key(r)].tenant = operation[Key(r)].tenant

Moves(r) ==
    \/ /\ pc[r] = "idle" /\ pc'[r] \in {"lock", "structure"}
       /\ pc'[r] = "structure" => job'[r].kind = "ACTIVATE"
       /\ UNCHANGED <<operation, holder, lapsed>>
    \/ TakeLock(r) /\ UNCHANGED lapsed
    \/ LockLapses(r)
    \/ Claim(r) /\ ~Refuses(r) /\ UNCHANGED lapsed
    \/ /\ \/ pc[r] # "idle" /\ Left(r)
          \/ /\ pc[r] \notin {"idle", "lock", "claim"}
             /\ pc'[r] \notin {"idle", "lock", "claim", "resume"}
             /\ pc[r] = "resume" => seen[r].status # "COMPLETED"
             /\ UNCHANGED <<job, holder>>
       /\ UNCHANGED lapsed
       /\ UNCHANGED operation \/ Writes(r)

OthersStay(r) ==
    \A q \in Requests \ {r} : /\ pc'[q] = pc[q] /\ job'[q] = job[q]
                              /\ seen'[q] = seen[q] /\ tx'[q] = tx[q]

Flow(r) == OthersStay(r) /\ ControlOf(r)' /\ Moves(r)

LEMMA ReportWrites ==
    ASSUME TypeOK, Control, NEW r \in Requests,
           NEW status \in OpStatuses \ {"NONE"}, NEW rc \in SUBSET Receipts,
           Report(r, status, rc),
           pc[r] \in {"resume"} \union ProvisionSteps \union MappingSteps,
           pc[r] = "resume" => seen[r].status # "COMPLETED",
           status = "COMPLETED" => pc'[r] = "idle"
    PROVE  Writes(r)
<1>1. Key(r) \in Keys
  BY Keyed
<1>2. Wrote(Key(r), status, rc)
  BY <1>1, ReportFacts
<1> QED  BY <1>2 DEF Writes, Wrote

LEMMA LeftFlow ==
    ASSUME TypeOK, Control, NEW r \in Requests, Left(r), pc[r] # "idle",
           UNCHANGED lapsed, tx' = tx \/ tx' = [tx EXCEPT ![r] = NoTx],
           UNCHANGED operation \/ Writes(r)
    PROVE  Flow(r)
<1>1. OthersStay(r)
  BY DEF TypeOK, Left, OthersStay
<1>2. ControlOf(r)'
  BY Constants DEF TypeOK, Left, ControlOf, NoJob, Saga, Mapping, ProvisionSteps, MappingSteps,
         ActivationSteps
<1> QED  BY <1>1, <1>2 DEF Flow, Moves

LEMMA AdminFlow ==
    ASSUME TypeOK, Control, NEW r \in Requests, AdminStep(r) \/ LostStep(r)
    PROVE  Flow(r)
<1>0. ControlOf(r)
  BY DEF Control
<1>1. CASE LockLapses(r) /\ UNCHANGED <<provisionVars, mappingVars, activationVars>>
  BY <1>0, <1>1 DEF Flow, Moves, OthersStay, LockLapses, ControlOf, mappingVars
<1>2. CASE TakeLock(r) /\ UNCHANGED <<lapsed, provisionVars, mappingVars, activationVars>>
  <2>1. OthersStay(r)
    BY <1>2 DEF TypeOK, OthersStay, TakeLock, Goto, mappingVars
  <2>2. ControlOf(r)'
    BY <1>0, <1>2 DEF TypeOK, TakeLock, MayLock, At, Goto, ControlOf, ProvisionSteps,
                      MappingSteps, ActivationSteps, Saga
  <2> QED  BY <1>2, <2>1, <2>2 DEF Flow, Moves
<1>3. CASE Claim(r) /\ UNCHANGED <<lapsed, provisionVars, mappingVars, activationVars>>
  <2>1. CASE Refuses(r)
    BY <1>3, <2>1, LeaveFacts, LeftFlow DEF Claim, At, mappingVars
  <2>2. CASE ~Refuses(r)
    <3>1. OthersStay(r)
      BY <1>3, <2>2 DEF TypeOK, OthersStay, Claim, Goto, mappingVars
    <3>2. ControlOf(r)'
      BY <1>0, <1>3, <2>2 DEF TypeOK, Claim, At, Goto, ControlOf, ProvisionSteps,
                      MappingSteps, ActivationSteps
    <3> QED  BY <1>3, <2>2, <3>1, <3>2 DEF Flow, Moves
  <2> QED  BY <2>1, <2>2
<1>4. CASE Replay(r) /\ UNCHANGED <<lapsed, provisionVars, mappingVars, activationVars>>
  BY <1>4, LeaveFacts, LeftFlow DEF Replay, At, mappingVars
<1>5. CASE LostStep(r)
  BY <1>5, LeaveFacts, LeftFlow DEF LostStep, Lost, At, EndTx
<1> QED  BY <1>1, <1>2, <1>3, <1>4, <1>5 DEF AdminStep

LEMMA CreateFlow ==
    ASSUME TypeOK, Control, NEW r \in Requests, CreateStep(r)
    PROVE  Flow(r)
<1>0. ControlOf(r) /\ UNCHANGED <<lapsed, tx>>
  BY DEF Control, CreateStep, mappingVars
<1>a. ASSUME Recover(r), pc[r] \in ProvisionSteps
      PROVE  Flow(r)
  <2>1. Report(r, "RECOVERY_REQUIRED", {}) /\ Left(r) /\ pc'[r] = "idle"
    BY <1>a, LeaveFacts DEF Recover, Left, TypeOK
  <2>2. Writes(r)
    BY <1>a, <2>1, ReportWrites DEF OpStatuses, ProvisionSteps
  <2> QED  BY <1>0, <1>a, <2>1, <2>2, LeftFlow DEF ProvisionSteps
<1>b. ASSUME NEW step \in ProvisionSteps, pc' = [pc EXCEPT ![r] = step],
             pc[r] \in ProvisionSteps \union {"resume"}, job[r].kind \in Saga,
             pc[r] = "resume" => seen[r].status # "COMPLETED",
             UNCHANGED <<holder, job>>,
             \A q \in Requests \ {r} : seen'[q] = seen[q],
             UNCHANGED operation \/ Writes(r)
      PROVE  Flow(r)
  <2>1. OthersStay(r)
    BY <1>0, <1>b DEF TypeOK, OthersStay
  <2>2. ControlOf(r)'
    BY <1>0, <1>b DEF TypeOK, ControlOf, ProvisionSteps, MappingSteps, ActivationSteps,
                      Saga, Mapping
  <2> QED  BY <1>0, <1>b, <2>1, <2>2 DEF Flow, Moves, ProvisionSteps, TypeOK
<1>1. ASSUME NEW k \in ProvisionKeys,
             NEW kind \in Saga, NEW payload, Arrive(r, kind, k, payload),
             UNCHANGED <<operation, holder>>,
             \A q \in Requests \ {r} : seen'[q] = seen[q]
      PROVE  Flow(r)
  <2>1. OthersStay(r)
    BY <1>0, <1>1 DEF TypeOK, OthersStay, Arrive, Goto
  <2>2. pc[r] = "idle" /\ pc'[r] = "lock" /\ job'[r] = [kind |-> kind, key |-> k, payload |-> payload]
    BY <1>1 DEF Arrive, At, Goto, TypeOK
  <2>3. ControlOf(r)'
    BY <2>2 DEF ControlOf, ProvisionSteps, MappingSteps, ActivationSteps, Saga
  <2> QED  BY <1>0, <1>1, <2>1, <2>2, <2>3 DEF Flow, Moves
<1>2. ASSUME NEW k \in ProvisionKeys, Retry(r, k)
      PROVE  Flow(r)
  BY <1>1, <1>2 DEF Retry, TypeOK, Saga
<1>3. ASSUME NEW k \in ProvisionKeys, NEW d \in Details, Create(r, k, d)
      PROVE  Flow(r)
  BY <1>1, <1>3 DEF Create, Saga
<1>4. CASE Resume(r)
  <2>1. UNCHANGED operation \/ Writes(r)
    BY <1>4, ReportWrites DEF Resume, At, OpStatuses
  <2> QED  BY <1>b, <1>4, <2>1 DEF Resume, Goto, At, AfterSecurity, Saga, ProvisionSteps
<1>5. CASE CreateTenant(r)
  BY <1>0, <1>a, <1>b, <1>5
     DEF CreateTenant, At, Goto, ProvisionSteps, TypeOK, ControlOf
<1>6. CASE SecurityFails(r) \/ ProjectionFails(r) \/ DiFails(r)
  BY <1>a, <1>6 DEF SecurityFails, ProjectionFails, DiFails, At, ProvisionSteps
<1>7. CASE RecordTenant(r)
  <2> DEFINE updated == Updated(Key(r), "RUNNING", seen[r].tenant, {"SECURITY"})
  <2>1. Key(r) \in Keys /\ seen[r].tenant \in Nat /\ "RUNNING" \in OpStatuses
        /\ {"SECURITY"} \in SUBSET Receipts
    BY <1>7, Keyed
       DEF RecordTenant, At, ProvisionSteps, TypeOK, Operation, OpStatuses, Receipts
  <2>2. /\ operation' = updated /\ seen' = [seen EXCEPT ![r] = updated[Key(r)]]
        /\ pc' = [pc EXCEPT ![r] = AfterSecurity(updated[Key(r)])]
        /\ UNCHANGED <<holder, job, provisionVars>> /\ pc[r] = "tenantKnown"
    BY <1>7 DEF RecordTenant, At, Goto
  <2>3. Writes(r)
    <3>1. /\ \A x \in Keys : x # Key(r) => updated[x] = operation[x]
          /\ updated[Key(r)].status = "RUNNING"
          /\ updated[Key(r)].receipts = operation[Key(r)].receipts \union {"SECURITY"}
          /\ updated[Key(r)].completed =
                 (operation[Key(r)].completed \/ "RUNNING" = "COMPLETED")
      BY <2>1, UpdatedFacts
    <3> HIDE DEF updated
    <3> QED  BY <2>2, <3>1 DEF Writes, ProvisionSteps
  <2>4. /\ AfterSecurity(updated[Key(r)]) \in ProvisionSteps /\ job[r].kind \in Saga
        /\ pc[r] \in ProvisionSteps
    BY <1>0, <2>2 DEF AfterSecurity, ProvisionSteps, ControlOf
  <2> HIDE DEF updated
  <2> QED  BY <1>b, <2>2, <2>3, <2>4 DEF TypeOK
<1>8. CASE EnsureProject(r) \/ EnsureDi(r)
  BY <1>0, <1>a, <1>b, <1>8
     DEF EnsureProject, EnsureDi, At, Goto, ProvisionSteps, ControlOf
<1>9. CASE RecordProject(r)
  <2>1. Writes(r)
    BY <1>9, ReportWrites DEF RecordProject, At, OpStatuses, Receipts, ProvisionSteps
  <2> QED  BY <1>0, <1>b, <1>9, <2>1 DEF RecordProject, At, Goto, ProvisionSteps, ControlOf
<1>10. CASE Complete(r)
  <2>1. Left(r) /\ pc[r] = "ready" /\ pc'[r] = "idle"
    BY <1>10, LeaveFacts DEF Complete, At, Left, TypeOK
  <2>2. Writes(r)
    BY <1>10, <2>1, ReportWrites DEF Complete, OpStatuses, Receipts, ProvisionSteps
  <2> QED  BY <1>0, <2>1, <2>2, LeftFlow
<1> QED  BY <1>2, <1>3, <1>4, <1>5, <1>6, <1>7, <1>8, <1>9, <1>10
            DEF CreateStep, ProvisionStep

LEMMA MappingFlow ==
    ASSUME TypeOK, Control, NEW r \in Requests, MapStep(r)
    PROVE  Flow(r)
<1>0. ControlOf(r) /\ UNCHANGED lapsed
  BY DEF Control, MapStep
<1>a. ASSUME NEW status \in {"RECOVERY_REQUIRED", "FAILED"}, EndAs(r, status),
             pc[r] \in MappingSteps, tx' = tx \/ tx' = [tx EXCEPT ![r] = NoTx]
      PROVE  Flow(r)
  <2>1. Report(r, status, {}) /\ Left(r) /\ pc'[r] = "idle"
    BY <1>a, LeaveFacts DEF EndAs, Left, TypeOK
  <2>2. Writes(r)
    BY <1>a, <2>1, ReportWrites DEF OpStatuses, MappingSteps
  <2> QED  BY <1>0, <1>a, <2>1, <2>2, LeftFlow DEF MappingSteps
<1>b. ASSUME NEW rc \in Receipts, Done(r, rc), pc[r] \in MappingSteps
      PROVE  Flow(r)
  <2>1. Report(r, "COMPLETED", {rc}) /\ Left(r) /\ pc'[r] = "idle" /\ UNCHANGED tx
    BY <1>b, LeaveFacts DEF Done, Left, TypeOK
  <2>2. Writes(r)
    BY <1>b, <2>1, ReportWrites DEF OpStatuses, MappingSteps
  <2> QED  BY <1>0, <1>b, <2>1, <2>2, LeftFlow DEF MappingSteps
<1>c. ASSUME NEW step \in MappingSteps, pc' = [pc EXCEPT ![r] = step],
             pc[r] \in MappingSteps \union {"resume"}, job[r].kind \in Mapping,
             step \in {"setRole", "roleSet", "read"} => job[r].kind = "PUT",
             step \in {"removeRole", "roleRemoved"} => job[r].kind = "DELETE",
             pc[r] = "resume" => seen[r].status # "COMPLETED",
             UNCHANGED <<holder, job>>,
             \A q \in Requests \ {r} : seen'[q] = seen[q] /\ tx'[q] = tx[q],
             UNCHANGED operation \/ Writes(r)
      PROVE  Flow(r)
  <2>1. OthersStay(r)
    BY <1>0, <1>c DEF TypeOK, OthersStay
  <2>2. ControlOf(r)'
    BY <1>0, <1>c DEF TypeOK, ControlOf, ProvisionSteps, MappingSteps, ActivationSteps,
                      Saga, Mapping
  <2> QED  BY <1>0, <1>c, <2>1, <2>2 DEF Flow, Moves, MappingSteps, TypeOK
<1>1. ASSUME NEW k \in MapKeys, NEW m \in Mappings \union {Removal}, AskMapping(r, k, m)
      PROVE  Flow(r)
  <2>1. OthersStay(r)
    BY <1>0, <1>1 DEF TypeOK, OthersStay, AskMapping, Arrive, Goto, mappingVars
  <2>2. pc[r] = "idle" /\ pc'[r] = "lock"
        /\ job'[r] = [kind |-> IF m = Removal THEN "DELETE" ELSE "PUT", key |-> k,
                      payload |-> m]
    BY <1>1 DEF AskMapping, Arrive, At, Goto, TypeOK
  <2>3. ControlOf(r)'
    BY <2>2 DEF ControlOf, ProvisionSteps, MappingSteps, ActivationSteps, Saga, Mapping
  <2> QED  BY <1>0, <1>1, <2>1, <2>2, <2>3 DEF Flow, Moves, AskMapping
<1>2. CASE StartMapping(r)
  <2>1. Writes(r)
    BY <1>2, ReportWrites DEF StartMapping, At, OpStatuses
  <2> QED  BY <1>0, <1>c, <1>2, <2>1
              DEF StartMapping, IsMapping, Mapping, Goto, At, First, MappingSteps, TypeOK
<1>3. CASE SetRole(r) \/ RemoveRole(r)
  <2>1. CASE EndAs(r, "RECOVERY_REQUIRED")
    BY <1>a, <1>3, <2>1 DEF SetRole, RemoveRole, At, MappingSteps
  <2>2. CASE ~EndAs(r, "RECOVERY_REQUIRED")
    BY <1>0, <1>c, <1>3, <2>2
       DEF SetRole, RemoveRole, At, Goto, MappingSteps, ControlOf, Mapping
  <2> QED  BY <2>1, <2>2
<1>4. CASE SetRoleFails(r) \/ RemoveRoleFails(r)
  BY <1>a, <1>4 DEF SetRoleFails, RemoveRoleFails, At, MappingSteps
<1>5. CASE RecordRole(r)
  <2>1. Writes(r)
    BY <1>5, ReportWrites DEF RecordRole, At, OpStatuses, Receipts, MappingSteps
  <2> QED  BY <1>0, <1>c, <1>5, <2>1
              DEF RecordRole, At, Goto, MappingSteps, ControlOf, mappingVars
<1>6. CASE BeginTx(r) \/ StartUpdate(r) \/ CommitTx(r) \/ ReadRows(r)
  <2>1. /\ UNCHANGED <<operation, holder, job, seen>> /\ pc[r] \in MappingSteps
        /\ \A q \in Requests \ {r} : tx'[q] = tx[q]
    BY <1>6 DEF BeginTx, StartUpdate, CommitTx, ReadRows, EndTx, At, MappingSteps, TypeOK
  <2>2. CASE BeginTx(r)
    BY <1>0, <1>c, <2>1, <2>2
       DEF BeginTx, At, Goto, MappingSteps, ControlOf, Mapping
  <2>3. CASE StartUpdate(r) \/ CommitTx(r) \/ ReadRows(r)
    BY <1>0, <1>c, <2>1, <2>3
       DEF StartUpdate, CommitTx, ReadRows, At, Goto, MappingSteps, ControlOf
  <2> QED  BY <1>6, <2>2, <2>3
<1>7. CASE FinishUpdate(r)
  <2>1. CASE EndAs(r, "RECOVERY_REQUIRED") /\ EndTx(r)
    BY <1>a, <1>7, <2>1 DEF FinishUpdate, At, EndTx, MappingSteps
  <2>2. CASE ~(EndAs(r, "RECOVERY_REQUIRED") /\ EndTx(r))
    BY <1>0, <1>c, <1>7, <2>2
       DEF FinishUpdate, At, Goto, MappingSteps, ControlOf, TypeOK
  <2> QED  BY <2>1, <2>2
<1>8. CASE TxFails(r)
  BY <1>a, <1>8 DEF TxFails, EndTx, MappingSteps
<1>9. CASE RecordRows(r)
  <2>1. CASE job[r].kind = "PUT"
    BY <1>b, <1>9, <2>1 DEF RecordRows, At, MappingSteps, Receipts
  <2>2. CASE job[r].kind # "PUT"
    <3>1. Writes(r)
      BY <1>9, <2>2, ReportWrites
         DEF RecordRows, At, OpStatuses, Receipts, MappingSteps
    <3> QED  BY <1>0, <1>c, <1>9, <2>2, <3>1
                DEF RecordRows, At, Goto, MappingSteps, ControlOf, Mapping, mappingVars
  <2> QED  BY <2>1, <2>2
<1>10. CASE RecordRemoval(r)
  BY <1>b, <1>10 DEF RecordRemoval, At, MappingSteps, Receipts
<1> QED  BY <1>1, <1>2, <1>3, <1>4, <1>5, <1>6, <1>7, <1>8, <1>9, <1>10
            DEF MapStep, MappingStep

LEMMA ActivationFlow ==
    ASSUME TypeOK, Control, NEW r \in Requests, ActivateStep(r)
    PROVE  Flow(r)
<1>0. ControlOf(r) /\ UNCHANGED lapsed
  BY DEF Control, ActivateStep
<1>a. ASSUME Leave(r), EndTx(r), UNCHANGED operation, pc[r] # "idle"
      PROVE  Flow(r)
  BY <1>0, <1>a, LeaveFacts, LeftFlow DEF EndTx
<1>b. ASSUME NEW step \in ActivationSteps, pc' = [pc EXCEPT ![r] = step],
             pc[r] \in ActivationSteps, UNCHANGED <<operation, holder, job, seen, tx>>
      PROVE  Flow(r)
  <2>1. OthersStay(r)
    BY <1>b DEF TypeOK, OthersStay
  <2>2. ControlOf(r)'
    BY <1>0, <1>b DEF TypeOK, ControlOf, ProvisionSteps, MappingSteps, ActivationSteps
  <2> QED  BY <1>0, <1>b, <2>1, <2>2 DEF Flow, Moves, ActivationSteps, TypeOK
<1>1. ASSUME NEW p \in projects, Activate(r, p)
      PROVE  Flow(r)
  <2>1. OthersStay(r)
    BY <1>1 DEF TypeOK, OthersStay, Activate, Goto
  <2>2. pc[r] = "idle" /\ pc'[r] = "structure" /\ job[r] = NoJob
        /\ job'[r] = [job[r] EXCEPT !.kind = "ACTIVATE"]
    BY <1>0, <1>1 DEF Activate, At, Goto, TypeOK, ControlOf
  <2>3. ControlOf(r)' /\ job'[r].kind = "ACTIVATE"
    BY <2>2 DEF ControlOf, ProvisionSteps, MappingSteps, ActivationSteps, Saga, Mapping,
                NoJob
  <2> QED  BY <1>0, <1>1, <2>1, <2>2, <2>3 DEF Flow, Moves, Activate
<1>2. CASE CheckStructure(r) \/ CheckCoverage(r)
  BY <1>b, <1>2 DEF CheckStructure, CheckCoverage, At, Goto, ActivationSteps, mappingVars
<1>3. CASE NotReady(r)
  BY <1>a, <1>3 DEF NotReady, Decline, At
<1>4. CASE ActivateTenant(r)
  BY <1>a, <1>b, <1>4 DEF ActivateTenant, Decline, At, Goto, ActivationSteps, mappingVars
<1>5. CASE ActivateProject(r)
  BY <1>a, <1>5 DEF ActivateProject, At
<1> QED  BY <1>1, <1>2, <1>3, <1>4, <1>5 DEF ActivateStep

LEMMA StepFlow ==
    ASSUME TypeOK, Control, NEW r \in Requests, Step(r)
    PROVE  Flow(r)
BY AdminFlow, CreateFlow, MappingFlow, ActivationFlow DEF Step

\* A step of nobody's, a project's or an outlet's update, leaves all that alone.
PatchesOnly == UNCHANGED <<adminVars, lapsed, mappingVars>>

LEMMA Steps ==
    ASSUME [Next]_vars
    PROVE  \/ UNCHANGED vars
           \/ \E o \in Outlets : PatchOutlet(o)
           \/ PatchStep
           \/ \E r \in Requests : Step(r)
BY DEF Next

LEMMA NobodysStep ==
    ASSUME UNCHANGED vars \/ (\E o \in Outlets : PatchOutlet(o)) \/ PatchStep
    PROVE  PatchesOnly
BY DEF vars, PatchOutlet, PatchStep, PatchProject, PatchesOnly

LEMMA ControlKept ==
    ASSUME TypeOK, Control, [Next]_vars
    PROVE  Control'
<1>1. CASE PatchesOnly
  BY <1>1 DEF PatchesOnly, adminVars, Control, ControlOf
<1>2. ASSUME NEW r \in Requests, Step(r)
      PROVE  Control'
  <2>1. Flow(r)
    BY <1>2, StepFlow
  <2>2. ASSUME NEW q \in Requests
        PROVE  ControlOf(q)'
    <3>1. CASE q = r
      BY <2>1, <3>1 DEF Flow
    <3>2. CASE q # r
      BY <2>1, <3>2 DEF Flow, OthersStay, Control, ControlOf
    <3> QED  BY <3>1, <3>2
  <2> QED  BY <2>2 DEF Control
<1> QED  BY <1>1, <1>2, Steps, NobodysStep

-----------------------------------------------------------------------------
\* Only who holds the lock of a key, or lost it, writes its operation.
LEMMA LockedKept ==
    ASSUME TypeOK, Control, Locked, [Next]_vars
    PROVE  Locked'
<1>1. CASE PatchesOnly
  BY <1>1 DEF PatchesOnly, adminVars, Locked, LockedOf, HasKey, Key
<1>2. ASSUME NEW r \in Requests, Step(r)
      PROVE  Locked'
  <2>0. /\ Flow(r) /\ LockedOf(r) /\ ControlOf(r) /\ (TypeOK /\ Control)'
        /\ \A q \in Requests : q # NoOne /\ LockedOf(q) /\ ControlOf(q)'
    BY <1>2, StepFlow, TypesKept, ControlKept, Constants DEF Locked, Control, Next
  <2>a. OthersStay(r) /\ Moves(r)
    BY <2>0 DEF Flow
  <2>1. CASE /\ pc[r] = "idle" /\ pc'[r] \in {"lock", "structure"}
             /\ pc'[r] = "structure" => job'[r].kind = "ACTIVATE"
             /\ UNCHANGED <<operation, holder, lapsed>>
    BY <2>0, <2>1, <2>a DEF OthersStay, Locked, LockedOf, HasKey, Key
  <2>2. CASE TakeLock(r) /\ UNCHANGED lapsed
    <3>1. /\ pc[r] = "lock" /\ pc'[r] \in {"claim", "resume"} /\ Key(r) \in Keys
          /\ job[r].kind = "RETRY" <=> pc'[r] = "resume"
          /\ holder[Key(r)] = NoOne /\ holder' = [holder EXCEPT ![Key(r)] = r]
          /\ UNCHANGED <<operation, job, seen>>
      BY <2>0, <2>2, Constants
         DEF TakeLock, MayLock, At, Goto, TypeOK, ControlOf, Key, Saga, Mapping
    <3>2. holder'[Key(r)] = r /\ \A k \in Keys : k # Key(r) => holder'[k] = holder[k]
      BY <3>1 DEF TypeOK
    <3>3. ASSUME NEW q \in Requests
          PROVE  LockedOf(q)'
      <4>1. CASE q = r
        <5>1. HasKey(r)' /\ ~HasKey(r) /\ Key(r)' = Key(r) /\ (pc'[r] = "resume" => job'[r].kind = "RETRY")
          BY <2>0, <3>1 DEF HasKey, Key, ControlOf, Saga, Mapping
        <5>2. \A k \in Keys : holder[k] # r
          BY <2>0, <5>1 DEF LockedOf
        <5>3. \A k \in Keys : holder'[k] = r => k = Key(r)
          BY <3>2, <5>2
        <5> QED  BY <3>1, <3>2, <4>1, <5>1, <5>3 DEF LockedOf
      <4>2. CASE q # r
        BY <2>0, <2>2, <2>a, <3>1, <3>2, <4>2 DEF OthersStay, LockedOf, HasKey, Key
      <4> QED  BY <4>1, <4>2
    <3> QED  BY <3>3 DEF Locked
  <2>3. CASE LockLapses(r)
    <3>1. /\ Key(r) \in Keys /\ lapsed' = lapsed \union {Key(r)}
          /\ holder'[Key(r)] = NoOne /\ \A k \in Keys : k # Key(r) => holder'[k] = holder[k]
          /\ UNCHANGED <<operation, pc, job, seen>> /\ holder[Key(r)] = r
      BY <2>3 DEF LockLapses, TypeOK, Key
    <3>2. ASSUME NEW q \in Requests
          PROVE  LockedOf(q)'
      <4>1. (HasKey(q)' <=> HasKey(q)) /\ Key(q)' = Key(q)
        BY <3>1 DEF HasKey, Key
      <4>2. LockedOf(q) /\ q # NoOne
        BY <2>0
      <4>3. HasKey(q) => holder'[Key(q)] = q \/ Key(q) \in lapsed'
        <5>1. HasKey(q) => Key(q) \in Keys
          BY Keyed DEF HasKey, TypeOK, Control, ControlOf, ProvisionSteps, MappingSteps,
                   ActivationSteps
        <5> QED  BY <3>1, <4>2, <5>1 DEF LockedOf
      <4>4. \A k \in Keys : holder'[k] = q => holder[k] = q
        BY <3>1, <4>2
      <4> QED  BY <3>1, <4>1, <4>2, <4>3, <4>4 DEF LockedOf
    <3> QED  BY <3>2 DEF Locked
  <2>4. CASE Claim(r) /\ ~Refuses(r) /\ UNCHANGED lapsed
    <3>1. /\ pc[r] = "claim" /\ pc'[r] = "resume" /\ Key(r) \in Keys
          /\ operation'[Key(r)] = Claimed(r) /\ seen'[r] = Claimed(r)
          /\ \A k \in Keys : k # Key(r) => operation'[k] = operation[k]
          /\ UNCHANGED <<holder, job>>
      BY <2>4, Keyed DEF Claim, At, Goto, TypeOK
    <3>2. ASSUME NEW q \in Requests
          PROVE  LockedOf(q)'
      <4>1. CASE q = r
        BY <2>0, <2>4, <3>1, <4>1 DEF LockedOf, HasKey, Key, ControlOf
      <4>2. CASE q # r /\ HasKey(q) /\ Key(q) = Key(r)
        <5>1. Key(q) \in lapsed
          BY <2>0, <3>1, <4>2 DEF LockedOf, HasKey, ControlOf, Saga, Mapping
        <5> QED  BY <2>0, <2>4, <2>a, <3>1, <4>2, <5>1 DEF OthersStay, LockedOf, HasKey, Key
      <4>3. CASE q # r /\ ~(HasKey(q) /\ Key(q) = Key(r))
        <5>1. HasKey(q) => Key(q) \in Keys
          BY Keyed DEF HasKey, TypeOK, Control, ControlOf, ProvisionSteps, MappingSteps,
                   ActivationSteps
        <5> QED  BY <2>0, <2>4, <2>a, <3>1, <4>3, <5>1 DEF OthersStay, LockedOf, HasKey, Key
      <4> QED  BY <4>1, <4>2, <4>3
    <3> QED  BY <3>2 DEF Locked
  <2>5. CASE /\ \/ pc[r] # "idle" /\ Left(r)
                \/ /\ pc[r] \notin {"idle", "lock", "claim"}
                   /\ pc'[r] \notin {"idle", "lock", "claim", "resume"}
                   /\ pc[r] = "resume" => seen[r].status # "COMPLETED"
                   /\ UNCHANGED <<job, holder>>
             /\ UNCHANGED lapsed
             /\ UNCHANGED operation \/ Writes(r)
    <3>1. \A k \in Keys : \/ holder'[k] = holder[k] /\ (Left(r) => holder[k] # r)
                          \/ holder[k] = r /\ holder'[k] = NoOne /\ Left(r)
      BY <2>5 DEF Left
    <3>2. ASSUME NEW q \in Requests, q # r, HasKey(q), Key(q) \notin lapsed
          PROVE  operation'[Key(q)] = operation[Key(q)]
      <4>1. holder[Key(q)] = q
        BY <2>0, <3>2 DEF LockedOf
      <4>2. Key(q) \in Keys
        BY <3>2, Keyed DEF HasKey, TypeOK, Control, ControlOf, ProvisionSteps, MappingSteps,
                   ActivationSteps
      <4>3. CASE UNCHANGED operation
        BY <4>3
      <4>4. CASE Writes(r)
        <5>1. HasKey(r)
          BY <2>0, <4>4 DEF Writes, HasKey, ControlOf, ProvisionSteps, MappingSteps, Saga,
                            Mapping
        <5>2. Key(q) # Key(r)
          BY <2>0, <3>2, <4>1, <5>1 DEF LockedOf
        <5> QED  BY <4>2, <4>4, <5>2 DEF Writes
      <4> QED  BY <2>5, <4>3, <4>4
    <3>3. ASSUME NEW q \in Requests, q # r
          PROVE  LockedOf(q)'
      <4>1. /\ (HasKey(q)' <=> HasKey(q)) /\ Key(q)' = Key(q)
            /\ pc'[q] = pc[q] /\ seen'[q] = seen[q] /\ job'[q] = job[q]
        BY <2>a, <3>3 DEF OthersStay, HasKey, Key
      <4>2. HasKey(q) => Key(q) \in Keys
        BY Keyed DEF HasKey, TypeOK, Control, ControlOf, ProvisionSteps, MappingSteps,
                   ActivationSteps
      <4>3. LockedOf(q) /\ lapsed' = lapsed /\ q # NoOne
        BY <2>0, <2>5
      <4>4. HasKey(q)' => holder'[Key(q)'] = q \/ Key(q)' \in lapsed'
        BY <3>1, <3>3, <4>1, <4>2, <4>3 DEF LockedOf
      <4>5. ASSUME NEW k \in Keys, holder'[k] = q
            PROVE  HasKey(q)' /\ Key(q)' = k
        BY <3>1, <4>1, <4>3, <4>5 DEF LockedOf
      <4>6. HasKey(q)' /\ job'[q].kind # "RETRY" /\ Key(q)' \notin lapsed' =>
              /\ pc'[q] = "resume" => seen'[q].status = operation'[Key(q)'].status
              /\ pc'[q] \notin {"claim", "resume"} =>
                    operation'[Key(q)'].status # "COMPLETED"
        BY <3>2, <3>3, <4>1, <4>3 DEF LockedOf
      <4> QED  BY <4>4, <4>5, <4>6 DEF LockedOf
    <3>4. LockedOf(r)'
      <4>1. CASE Left(r)
        <5>1. pc'[r] = "idle" /\ \A k \in Keys : holder'[k] # r
          BY <2>0, <3>1, <4>1 DEF Left, TypeOK
        <5> QED  BY <5>1 DEF LockedOf, HasKey
      <4>2. CASE ~Left(r)
        <5>1. /\ pc[r] \notin {"idle", "lock", "claim"} /\ UNCHANGED <<job, holder, lapsed>>
              /\ pc[r] = "resume" => seen[r].status # "COMPLETED"
              /\ pc'[r] \notin {"idle", "lock", "claim", "resume"}
          BY <2>5, <4>2
        <5>2. ASSUME HasKey(r), job[r].kind # "RETRY", Key(r) \notin lapsed
              PROVE  operation'[Key(r)].status # "COMPLETED"
          <6>1. CASE Writes(r)
            BY <5>1, <6>1 DEF Writes
          <6>2. CASE UNCHANGED operation
            BY <2>0, <5>1, <5>2, <6>2 DEF LockedOf
          <6> QED  BY <2>5, <6>1, <6>2
        <5> QED  BY <2>0, <5>1, <5>2 DEF LockedOf, HasKey, Key
      <4> QED  BY <4>1, <4>2
    <3> QED  BY <3>3, <3>4 DEF Locked
  <2> QED  BY <2>1, <2>2, <2>3, <2>4, <2>5, <2>a DEF Moves
<1> QED  BY <1>1, <1>2, Steps, NobodysStep

-----------------------------------------------------------------------------
\* What was achieved is never taken back.
Grows ==
    /\ \A k \in Keys :
          /\ operation[k].receipts \subseteq operation'[k].receipts
          /\ operation[k].completed => operation'[k].completed
          /\ operation[k].tenant \in {NoTenant, operation'[k].tenant}
    /\ \A t \in DOMAIN tenants : t \in DOMAIN tenants' /\ tenants'[t] = tenants[t]
    /\ \A p \in projects : \E q \in projects' : q.tenant = p.tenant
    /\ diReady \subseteq diReady'

\* What is true of an operation, or of a copy, that nobody touches stays true.
LEMMA TruthStays ==
    ASSUME TypeOK, Grows, NEW k \in Keys, TruthfulOf(k), operation'[k] = operation[k]
    PROVE  TruthfulOf(k)'
BY DEF Grows, TruthfulOf, TenantsOf, ProjectOf

LEMMA CopyStays ==
    ASSUME TypeOK, Control, Truthful, Grows, NEW q \in Requests, CopiedOf(q),
           pc'[q] = pc[q], job'[q] = job[q], seen'[q] = seen[q]
    PROVE  CopiedOf(q)'
<1>1. CASE job[q].kind \in Saga
  <2>1. Key(q) \in ProvisionKeys /\ Key(q) \in Keys /\ TruthfulOf(Key(q)) /\ Key(q)' = Key(q)
    BY <1>1, Constants DEF Control, ControlOf, Key, Truthful
  <2>2. "SECURITY" \in operation[Key(q)].receipts =>
            /\ operation'[Key(q)].tenant = operation[Key(q)].tenant
            /\ "SECURITY" \in operation'[Key(q)].receipts
    BY <2>1 DEF Grows, TruthfulOf
  <2>3. /\ operation[Key(q)].receipts \subseteq operation'[Key(q)].receipts
        /\ seen[q].tenant \in TenantsOf(Key(q)) =>
              seen'[q].tenant \in {t \in DOMAIN tenants' : tenants'[t] = Key(q)}
        /\ ProjectOf(seen[q].tenant) # {} =>
              {p \in projects' : p.tenant = seen'[q].tenant} # {}
        /\ diReady \subseteq diReady'
    BY <2>1 DEF Grows, TenantsOf, ProjectOf
  <2> QED  BY <2>1, <2>2, <2>3 DEF CopiedOf, TenantsOf, ProjectOf, Key
<1>2. CASE job[q].kind \notin Saga
  BY <1>2 DEF CopiedOf
<1> QED  BY <1>1, <1>2

\* It is enough to look at the request that takes the step, and its operation.
LEMMA FromOwn ==
    ASSUME TypeOK, Control, Truthful, Copied, NEW r \in Requests, OthersStay(r), Grows,
           NEW own, \A k \in Keys : k # own => operation'[k] = operation[k],
           \A t, u \in DOMAIN tenants' : tenants'[t] = tenants'[u] => t = u,
           \A p, q \in projects' : p.tenant = q.tenant => p = q,
           own \in Keys /\ operation'[own] # operation[own] => TruthfulOf(own)',
           CopiedOf(r)'
    PROVE  Truthful' /\ Copied'
<1>1. ASSUME NEW k \in Keys
      PROVE  TruthfulOf(k)'
  <2>1. CASE operation'[k] = operation[k]
    BY <2>1, TruthStays DEF Truthful
  <2>2. CASE operation'[k] # operation[k]
    BY <2>2
  <2> QED  BY <2>1, <2>2
<1>2. ASSUME NEW q \in Requests
      PROVE  CopiedOf(q)'
  BY CopyStays DEF OthersStay, Copied
<1> QED  BY <1>1, <1>2 DEF Truthful, Copied

\* A report that adds no receipt keeps what is true of the operation.
LEMMA ReportTruth ==
    ASSUME TypeOK, NEW k \in Keys, TruthfulOf(k), NEW status,
           status \notin {"NONE", "COMPLETED"}, Wrote(k, status, {}),
           UNCHANGED <<tenants, projects, diReady>>
    PROVE  Grows /\ TruthfulOf(k)'
<1>1. Grows
  BY DEF Grows, Wrote
<1>2. /\ operation'[k].status # "NONE"
      /\ operation'[k].tenant = operation[k].tenant
      /\ operation'[k].receipts = operation[k].receipts
      /\ operation'[k].completed = operation[k].completed
  BY DEF Wrote, TypeOK, Operation
<1> QED  BY <1>1, <1>2 DEF TruthfulOf, TenantsOf, ProjectOf

\* A step that changes no tenant, project or readiness, of a request that is not
\* a provisioning's.
LEMMA ElsewhereTruth ==
    ASSUME TypeOK, Control, Truthful, Copied, TypeOK', NEW r \in Requests, Flow(r),
           UNCHANGED tenants, UNCHANGED diReady,
           \A p \in projects : \E q \in projects' : q.tenant = p.tenant,
           \A p, q \in projects' : p.tenant = q.tenant => p = q,
           job[r].kind \notin Saga, job'[r].kind \notin Saga,
           Writes(r) \/ UNCHANGED operation, pc'[r] = "idle" => Left(r)
    PROVE  Grows /\ Truthful' /\ Copied'
<1> PICK own : own = Key(r)
  OBVIOUS
<1>0. /\ OthersStay(r)
      /\ \A k \in Keys : k # own => operation'[k] = operation[k]
  BY DEF Flow, Writes
<1>1. Writes(r) => own \in MapKeys /\ own \in Keys /\ pc[r] # "tenantKnown"
  BY Keyed, Constants
     DEF Writes, Control, ControlOf, Key, ProvisionSteps, MappingSteps, Saga, Mapping
<1>2. Grows
  BY <1>0, <1>1 DEF Grows, Writes
<1>3. CopiedOf(r)'
  BY DEF CopiedOf, Left, TypeOK
<1>4. own \in Keys /\ operation'[own] # operation[own] => TruthfulOf(own)'
  BY <1>1, Constants DEF Writes, Truthful, TruthfulOf
<1>5. \A t, u \in DOMAIN tenants' : tenants'[t] = tenants'[u] => t = u
  BY DEF Truthful
<1> QED  BY <1>0, <1>2, <1>3, <1>4, <1>5, FromOwn

LEMMA AdminTruth ==
    ASSUME TypeOK, Control, Truthful, Copied, NEW r \in Requests,
           AdminStep(r) \/ LostStep(r)
    PROVE  Grows /\ Truthful' /\ Copied'
<1> PICK own : own = Key(r)
  OBVIOUS
<1>0. /\ Flow(r) /\ OthersStay(r) /\ UNCHANGED <<tenants, projects, diReady>>
      /\ CopiedOf(r) /\ ControlOf(r)
  BY AdminFlow DEF Flow, AdminStep, LostStep, provisionVars, Copied, Control
<1>1. CASE UNCHANGED operation /\ CopiedOf(r)'
  BY <1>0, <1>1, FromOwn DEF Grows, Truthful
<1>2. CASE LockLapses(r) \/ TakeLock(r)
  <2>1. CopiedOf(r)'
    <3>1. UNCHANGED <<operation, job, seen>> /\ (pc'[r] = pc[r] \/ (pc[r] = "lock" /\ pc'[r] \in {"claim", "resume"}))
      BY <1>2 DEF LockLapses, TakeLock, MayLock, At, Goto, TypeOK
    <3> QED  BY <1>0, <3>1 DEF CopiedOf, Key, TenantsOf, ProjectOf
  <2> QED  BY <1>1, <1>2, <2>1 DEF LockLapses, TakeLock
<1>3. CASE Left(r) /\ UNCHANGED operation
  <2>1. CopiedOf(r)'
    BY <1>3 DEF Left, TypeOK, CopiedOf, NoJob, Saga
  <2> QED  BY <1>1, <1>3, <2>1
<1>4. CASE Claim(r) /\ ~Refuses(r)
  <2>1. /\ pc[r] = "claim" /\ pc'[r] = "resume" /\ own \in Keys
        /\ operation'[own] = Claimed(r) /\ seen'[r] = Claimed(r)
        /\ \A k \in Keys : k # own => operation'[k] = operation[k]
        /\ UNCHANGED <<holder, job>>
    BY <1>4, Keyed DEF Claim, At, Goto, TypeOK
  <2>2. \/ operation'[own] = operation[own] /\ operation[own].status # "NONE"
        \/ /\ operation[own] = NoOperation
           /\ operation'[own] = [NoOperation EXCEPT !.status = "RECEIVED",
                                                    !.payload = job[r].payload]
    BY <2>1 DEF Claimed, Truthful, TruthfulOf
  <2>3. Grows
    BY <1>0, <2>1, <2>2 DEF Grows, NoOperation
  <2>4. operation'[own] # operation[own] => TruthfulOf(own)'
    BY <2>2 DEF TruthfulOf, NoOperation
  <2>5. CopiedOf(r)'
    <3>1. Key(r)' = own
      BY <2>1 DEF Key
    <3>2. seen'[r] = operation'[own]
      BY <2>1
    <3> QED  BY <2>1, <3>1, <3>2 DEF CopiedOf
  <2> QED  BY <1>0, <2>1, <2>3, <2>4, <2>5, FromOwn DEF Truthful
<1>5. CASE LostStep(r) \/ Replay(r) \/ (Claim(r) /\ Refuses(r))
  BY <1>3, <1>5, LeaveFacts DEF LostStep, Lost, Replay, Claim
<1> QED  BY <1>2, <1>4, <1>5 DEF AdminStep

LEMMA MappingTruth ==
    ASSUME TypeOK, Control, Truthful, Copied, NEW r \in Requests, MapStep(r)
    PROVE  Grows /\ Truthful' /\ Copied'
<1>1. Flow(r) /\ TypeOK'
  BY MappingFlow, MappingTypes
<1>2. job[r].kind \notin Saga /\ job'[r].kind \notin Saga /\ UNCHANGED provisionVars
  <2>0. ControlOf(r) /\ ControlOf(r)'
    BY <1>1 DEF Control, Flow
  <2>1. MappingStep(r) /\ UNCHANGED provisionVars
    BY DEF MapStep
  <2>2. CASE \E k \in MapKeys, m \in Mappings \union {Removal} : AskMapping(r, k, m)
    <3>1. job[r].kind = "-" /\ job'[r].kind \in Mapping
      BY <2>0, <2>2 DEF AskMapping, Arrive, At, TypeOK, ControlOf, NoJob, Mapping
    <3> QED  BY <2>1, <3>1 DEF Saga, Mapping
  <2>3. CASE job[r].kind \in Mapping
    <3>1. job'[r] = job[r] \/ job'[r] = NoJob \/ pc[r] = "idle"
      BY <1>1 DEF Flow, Moves, TakeLock, LockLapses, Claim, Left, TypeOK
    <3> QED  BY <2>0, <2>1, <2>3, <3>1 DEF Saga, Mapping, NoJob, ControlOf
  <2>4. CASE pc[r] \in MappingSteps \/ IsMapping(r)
    BY <2>0, <2>3, <2>4 DEF ControlOf, IsMapping, Mapping
  <2> QED  BY <2>1, <2>2, <2>4
           DEF MappingStep, StartMapping, SetRole, SetRoleFails, RecordRole, BeginTx,
               ReadRows, StartUpdate, FinishUpdate, CommitTx, TxFails, RecordRows,
               RemoveRole, RemoveRoleFails, RecordRemoval, At, MappingSteps
<1>3. (Writes(r) \/ UNCHANGED operation) /\ (pc'[r] = "idle" => Left(r))
  <2>1. pc[r] # "claim"
    BY DEF MapStep, MappingStep, AskMapping, Arrive, StartMapping, SetRole, SetRoleFails,
           RecordRole, BeginTx, ReadRows, StartUpdate, FinishUpdate, CommitTx, TxFails,
           RecordRows, RemoveRole, RemoveRoleFails, RecordRemoval, At
  <2> QED  BY <1>1, <2>1
           DEF Flow, Moves, LockLapses, TakeLock, MayLock, Claim, At, Goto, TypeOK
<1> QED  BY <1>1, <1>2, <1>3, ElsewhereTruth DEF provisionVars, Truthful

LEMMA ActivationTruth ==
    ASSUME TypeOK, Control, Truthful, Copied, NEW r \in Requests, ActivateStep(r)
    PROVE  Grows /\ Truthful' /\ Copied'
<1>0. ControlOf(r)
  BY DEF Control
<1>1. Flow(r) /\ TypeOK'
  BY ActivationFlow, ActivationTypes
<1>2. UNCHANGED <<operation, tenants, diReady>> /\ (UNCHANGED projects \/ ActivateProject(r))
  BY DEF ActivateStep, Activate, CheckStructure, CheckCoverage, NotReady, Decline,
         ActivateTenant, ActivateProject, provisionVars
<1>3. /\ job[r].kind \notin Saga /\ job'[r].kind \notin Saga
      /\ pc'[r] = "idle" => Left(r)
  <2>1. ASSUME NEW p \in projects, Activate(r, p)
        PROVE  job[r].kind = "-" /\ job'[r].kind = "ACTIVATE" /\ pc'[r] = "structure"
    BY <1>0, <2>1 DEF Activate, At, Goto, ControlOf, NoJob, TypeOK, Job
  <2>2. CASE pc[r] \in ActivationSteps
    <3>1. Left(r) \/ (UNCHANGED job /\ pc'[r] # "idle")
      BY <1>1, <2>2 DEF Flow, Moves, TakeLock, MayLock, LockLapses, Claim, At, ActivationSteps,
                        TypeOK
    <3> QED  BY <1>0, <2>2, <3>1 DEF Left, TypeOK, NoJob, Saga, ControlOf, ActivationSteps
  <2>3. (\E p \in projects : Activate(r, p)) \/ pc[r] \in ActivationSteps
    BY DEF ActivateStep, CheckStructure, CheckCoverage, NotReady, ActivateTenant,
           ActivateProject, At, ActivationSteps
  <2> QED  BY <2>1, <2>2, <2>3 DEF Saga
<1>4. /\ \A p \in projects : \E q \in projects' : q.tenant = p.tenant
      /\ \A p, q \in projects' : p.tenant = q.tenant => p = q
  <2>1. CASE UNCHANGED projects
    BY <2>1 DEF Truthful
  <2>2. CASE ActivateProject(r)
    <3> DEFINE F(p) == [p EXCEPT !.status = IF p.tenant = seen[r].tenant
                                            THEN "ACTIVE" ELSE @]
    <3>1. \A p \in projects : F(p).tenant = p.tenant
      BY DEF TypeOK, Project
    <3>2. projects' = {F(p) : p \in projects}
      BY <2>2 DEF ActivateProject
    <3> HIDE DEF F
    <3> QED  BY <3>1, <3>2 DEF Truthful
  <2> QED  BY <1>2, <2>1, <2>2
<1> QED  BY <1>1, <1>2, <1>3, <1>4, ElsewhereTruth

LEMMA CreateTruth ==
    ASSUME TypeOK, Control, Truthful, Copied, NEW r \in Requests, CreateStep(r)
    PROVE  Grows /\ Truthful' /\ Copied'
<1> PICK own : own = Key(r)
  OBVIOUS
<1>0. /\ Flow(r) /\ OthersStay(r) /\ TypeOK' /\ CopiedOf(r) /\ ControlOf(r)
      /\ \A t, u \in DOMAIN tenants : tenants[t] = tenants[u] => t = u
      /\ \A p, q \in projects : p.tenant = q.tenant => p = q
      /\ pc[r] \in {"resume"} \union ProvisionSteps /\ job[r].kind \in Saga =>
            own \in Keys /\ own \in ProvisionKeys /\ TruthfulOf(own)
  BY CreateFlow, CreateTypes, Keyed, Constants
     DEF Flow, Copied, Control, Truthful, ProvisionSteps, ControlOf, Key
<1>a. ASSUME NEW status \in OpStatuses \ {"NONE", "COMPLETED"}, own \in Keys,
             Report(r, status, {})
      PROVE  Wrote(own, status, {})
  BY <1>a, ReportFacts DEF OpStatuses, Receipts
<1>b. ASSUME Left(r)
      PROVE  CopiedOf(r)'
  BY <1>b DEF Left, TypeOK, CopiedOf, NoJob, Saga
\* The request ends and asks for a retry, after what is outside has grown.
<1>c. ASSUME Recover(r), pc[r] \in ProvisionSteps,
             \A t \in DOMAIN tenants : t \in DOMAIN tenants' /\ tenants'[t] = tenants[t],
             \A t, u \in DOMAIN tenants' : tenants'[t] = tenants'[u] => t = u,
             UNCHANGED projects, diReady \subseteq diReady'
      PROVE  Grows /\ Truthful' /\ Copied'
  <2>1. own \in Keys /\ TruthfulOf(own)
    BY <1>0, <1>c DEF ControlOf
  <2>2. Wrote(own, "RECOVERY_REQUIRED", {}) /\ Left(r)
    BY <1>a, <1>c, <2>1, LeaveFacts DEF Recover, OpStatuses
  <2>3. Grows
    BY <1>c, <2>2 DEF Grows, Wrote
  <2>4. TruthfulOf(own)'
    <3>1. /\ operation'[own].status # "NONE"
          /\ operation'[own].tenant = operation[own].tenant
          /\ operation'[own].receipts = operation[own].receipts
          /\ operation'[own].completed = operation[own].completed
      BY <2>1, <2>2 DEF Wrote, TypeOK, Operation
    <3> QED  BY <1>c, <2>1, <3>1 DEF TruthfulOf, TenantsOf, ProjectOf
  <2> QED  BY <1>0, <1>b, <1>c, <2>2, <2>3, <2>4, FromOwn DEF Wrote
<1>1. ASSUME NEW k \in ProvisionKeys, Retry(r, k), UNCHANGED provisionVars
      PROVE  Grows /\ Truthful' /\ Copied'
  <2>1. /\ pc'[r] = "lock" /\ job'[r].key = k /\ seen'[r] = operation[k]
        /\ UNCHANGED <<operation, tenants, projects, diReady>>
    BY <1>1 DEF Retry, Arrive, At, Goto, TypeOK, provisionVars
  <2>2. CopiedOf(r)'
    BY <2>1 DEF CopiedOf, Key
  <2>3. Grows
    BY <2>1 DEF Grows
  <2> QED  BY <1>0, <2>1, <2>2, <2>3, FromOwn
<1>2. ASSUME NEW k \in ProvisionKeys, NEW d \in Details, Create(r, k, d),
             UNCHANGED provisionVars
      PROVE  Grows /\ Truthful' /\ Copied'
  <2>1. /\ pc'[r] = "lock" /\ seen'[r] = NoOperation
        /\ UNCHANGED <<operation, tenants, projects, diReady>>
    BY <1>0, <1>2 DEF Create, Arrive, At, Goto, TypeOK, CopiedOf, provisionVars
  <2>2. CopiedOf(r)'
    BY <2>1 DEF CopiedOf, NoOperation
  <2>3. Grows
    BY <2>1 DEF Grows
  <2> QED  BY <1>0, <2>1, <2>2, <2>3, FromOwn
<1>3. CASE Resume(r)
  <2>1. /\ pc[r] = "resume" /\ job[r].kind \in Saga
        /\ UNCHANGED <<holder, job, seen, tenants, projects, diReady>>
    BY <1>3 DEF Resume, At, Saga, provisionVars
  <2>2. own \in Keys /\ TruthfulOf(own) /\ Key(r)' = own
    BY <1>0, <2>1 DEF Key
  <2>3. CASE "SECURITY" \in seen[r].receipts
    <3>1. /\ UNCHANGED operation
          /\ pc'[r] = IF "AUDIT_CORE" \in seen[r].receipts THEN "di" ELSE "project"
      BY <1>3, <2>3 DEF Resume, Goto, AfterSecurity, TypeOK
    <3>2. CopiedOf(r)'
      BY <1>0, <2>1, <2>2, <2>3, <3>1 DEF CopiedOf
    <3>3. Grows
      BY <2>1, <3>1 DEF Grows
    <3> QED  BY <1>0, <2>1, <3>1, <3>2, <3>3, FromOwn
  <2>4. CASE "SECURITY" \notin seen[r].receipts
    <3>1. Wrote(own, "RUNNING", {}) /\ pc'[r] = "tenant"
      BY <1>a, <1>3, <2>2, <2>4 DEF Resume, Goto, OpStatuses, TypeOK
    <3>2. Grows /\ TruthfulOf(own)'
      BY <2>1, <2>2, <3>1, ReportTruth
    <3>3. operation'[own].receipts = operation[own].receipts
      BY <2>2, <3>1 DEF Wrote
    <3>4. CopiedOf(r)'
      BY <1>0, <2>1, <2>2, <2>4, <3>1, <3>3 DEF CopiedOf
    <3> QED  BY <1>0, <2>1, <3>1, <3>2, <3>4, FromOwn DEF Wrote
  <2> QED  BY <2>3, <2>4
<1>4. CASE CreateTenant(r)
  <2>1. /\ pc[r] = "tenant" /\ job[r].kind \in Saga /\ own \in Keys
        /\ TenantCreated(own) /\ UNCHANGED <<projects, diReady>>
        /\ pc[r] \in ProvisionSteps
    BY <1>0, <1>4 DEF CreateTenant, At, ControlOf, ProvisionSteps
  <2>2. /\ \A t \in DOMAIN tenants : t \in DOMAIN tenants' /\ tenants'[t] = tenants[t]
        /\ \A t, u \in DOMAIN tenants' : tenants'[t] = tenants'[u] => t = u
        /\ Answered(own) \in DOMAIN tenants' /\ tenants'[Answered(own)] = own
    <3>1. tenants \in Seq(Keys)
      BY DEF TypeOK
    <3>2. CASE TenantsOf(own) # {}
      <4>1. Answered(own) \in TenantsOf(own)
        BY <3>2 DEF Answered
      <4>2. tenants' = tenants
        BY <2>1, <4>1 DEF TenantCreated, TenantsOf
      <4> QED  BY <1>0, <4>1, <4>2 DEF TenantsOf
    <3>3. CASE TenantsOf(own) = {}
      <4>1. Answered(own) = Len(tenants) + 1
        BY <3>3 DEF Answered
      <4>2. tenants' = Append(tenants, own)
        BY <2>1, <3>1, <4>1 DEF TenantCreated
      <4>3. \A t \in DOMAIN tenants : tenants[t] # own
        BY <3>3 DEF TenantsOf
      <4>4. /\ DOMAIN tenants = 1 .. Len(tenants) /\ Len(tenants) \in Nat
            /\ DOMAIN tenants' = 1 .. (Len(tenants) + 1)
            /\ \A t \in 1 .. Len(tenants) : tenants'[t] = tenants[t]
            /\ tenants'[Len(tenants) + 1] = own
        BY <2>1, <3>1, <4>2
      <4>5. \A t, u \in DOMAIN tenants' : tenants'[t] = tenants'[u] => t = u
        BY <1>0, <4>3, <4>4
      <4> QED  BY <4>1, <4>4, <4>5
    <3> QED  BY <3>2, <3>3
  <2>3. CASE Recover(r)
    BY <1>c, <2>1, <2>2, <2>3
  <2>4. CASE ~Recover(r)
    <3>1. /\ seen' = [seen EXCEPT ![r].tenant = Answered(own)]
          /\ pc'[r] = "tenantKnown" /\ UNCHANGED <<operation, holder, job>>
      BY <1>4, <2>4 DEF CreateTenant, Goto, TypeOK
    <3>2. seen'[r].tenant = Answered(own)
      BY <3>1 DEF TypeOK, Operation
    <3>3. CopiedOf(r)'
      BY <2>2, <3>1, <3>2 DEF CopiedOf, TenantsOf, Key
    <3>4. Grows
      BY <2>1, <2>2, <3>1 DEF Grows
    <3> QED  BY <1>0, <2>1, <2>2, <3>1, <3>3, <3>4, FromOwn
  <2> QED  BY <2>3, <2>4
<1>5. CASE SecurityFails(r) \/ ProjectionFails(r)
  BY <1>0, <1>c, <1>5
     DEF SecurityFails, ProjectionFails, At, ProvisionSteps, provisionVars
<1>6. CASE RecordTenant(r)
  <2> DEFINE updated == Updated(own, "RUNNING", seen[r].tenant, {"SECURITY"})
  <2>1. /\ pc[r] = "tenantKnown" /\ job[r].kind \in Saga /\ own \in Keys
        /\ own \in ProvisionKeys /\ TruthfulOf(own) /\ seen[r].tenant \in TenantsOf(own)
        /\ seen[r].tenant \in Nat
    BY <1>0, <1>6
       DEF RecordTenant, At, ControlOf, ProvisionSteps, CopiedOf, TypeOK, Operation
  <2>2. /\ operation' = updated /\ seen' = [seen EXCEPT ![r] = updated[own]]
        /\ pc' = [pc EXCEPT ![r] = AfterSecurity(updated[own])]
        /\ UNCHANGED <<holder, job, tenants, projects, diReady>>
    BY <1>6 DEF RecordTenant, Goto, provisionVars
  <2>3. /\ \A x \in Keys : x # own => updated[x] = operation[x]
        /\ updated[own].status = "RUNNING"
        /\ updated[own].tenant =
              IF seen[r].tenant # NoTenant THEN seen[r].tenant ELSE operation[own].tenant
        /\ updated[own].receipts = operation[own].receipts \union {"SECURITY"}
        /\ updated[own].completed = (operation[own].completed \/ "RUNNING" = "COMPLETED")
    BY <2>1, UpdatedFacts DEF OpStatuses, Receipts
  <2> HIDE DEF updated
  <2>4. seen[r].tenant # NoTenant
        /\ operation[own].tenant \in {NoTenant, seen[r].tenant}
    BY <1>0, <2>1 DEF TenantsOf, TruthfulOf, NoTenant, TypeOK
  <2>5. /\ \A x \in Keys : x # own => operation'[x] = operation[x]
        /\ operation'[own].status = "RUNNING"
        /\ operation'[own].tenant = seen[r].tenant
        /\ operation'[own].receipts = operation[own].receipts \union {"SECURITY"}
        /\ operation'[own].completed = operation[own].completed
    <3>1. operation[own].completed \in BOOLEAN
      BY <2>1 DEF TypeOK, Operation
    <3> QED  BY <2>2, <2>3, <2>4, <3>1
  <2>6. Grows
    BY <2>1, <2>2, <2>4, <2>5 DEF Grows
  <2>7. TruthfulOf(own)'
    BY <1>0, <2>1, <2>2, <2>4, <2>5 DEF TruthfulOf, TenantsOf, ProjectOf, Receipts
  <2>8. CopiedOf(r)'
    <3>1. /\ seen'[r] = operation'[own] /\ job'[r] = job[r] /\ Key(r)' = own
          /\ pc'[r] = AfterSecurity(seen'[r])
      BY <2>2 DEF TypeOK, Key
    <3> QED  BY <2>5, <3>1 DEF CopiedOf, AfterSecurity
  <2> QED  BY <1>0, <2>2, <2>5, <2>6, <2>7, <2>8, FromOwn
<1>7. CASE EnsureProject(r)
  <2>1. /\ pc[r] = "project" /\ job[r].kind \in Saga /\ pc[r] \in ProvisionSteps
        /\ UNCHANGED <<tenants, diReady>>
    BY <1>0, <1>7 DEF EnsureProject, At, ControlOf, ProvisionSteps
  <2>2. CASE Matches(r)
    <3> PICK t : t = seen[r].tenant
      OBVIOUS
    <3>1. /\ UNCHANGED <<operation, holder, job, seen>> /\ pc'[r] = "projectKnown"
          /\ projects' = IF ProjectOf(t) # {} THEN projects
                         ELSE projects \union {NewProject(t, job[r].payload)}
      BY <1>7, <2>2 DEF EnsureProject, Goto, TypeOK
    <3>2. NewProject(t, job[r].payload).tenant = t
      BY DEF NewProject
    <3>3. /\ \A p, q \in projects' : p.tenant = q.tenant => p = q
          /\ \A p \in projects : \E q \in projects' : q.tenant = p.tenant
          /\ \E q \in projects' : q.tenant = t
      BY <1>0, <3>1, <3>2 DEF ProjectOf
    <3>4. CopiedOf(r)'
      BY <1>0, <2>1, <3>1, <3>3 DEF CopiedOf, ProjectOf, Key
    <3>5. Grows
      BY <2>1, <3>1, <3>3 DEF Grows
    <3> QED  BY <1>0, <2>1, <3>1, <3>3, <3>4, <3>5, FromOwn
  <2>3. CASE ~Matches(r)
    BY <1>0, <1>c, <1>7, <2>1, <2>3 DEF EnsureProject
  <2> QED  BY <2>2, <2>3
<1>8. CASE RecordProject(r)
  <2>1. /\ pc[r] = "projectKnown" /\ job[r].kind \in Saga /\ own \in Keys
        /\ own \in ProvisionKeys /\ TruthfulOf(own)
        /\ UNCHANGED <<job, seen, tenants, projects, diReady>> /\ pc'[r] = "di"
    BY <1>0, <1>8
       DEF RecordProject, At, Goto, ControlOf, ProvisionSteps, TypeOK, provisionVars
  <2>2. Wrote(own, "RUNNING", {"AUDIT_CORE"})
    BY <1>8, <2>1, ReportFacts DEF RecordProject, OpStatuses, Receipts
  <2>3. Grows
    BY <2>1, <2>2 DEF Grows, Wrote
  <2>4. /\ "SECURITY" \in operation[own].receipts /\ ProjectOf(operation[own].tenant) # {}
        /\ seen[r].tenant = operation[own].tenant
    BY <1>0, <2>1 DEF CopiedOf
  <2>5. /\ operation'[own].tenant = operation[own].tenant
        /\ operation'[own].receipts = operation[own].receipts \union {"AUDIT_CORE"}
        /\ operation'[own].completed = operation[own].completed
        /\ operation'[own].status # "NONE"
    BY <2>1, <2>2 DEF Wrote, TypeOK, Operation
  <2>6. TruthfulOf(own)'
    BY <2>1, <2>4, <2>5 DEF TruthfulOf, TenantsOf, ProjectOf, Receipts
  <2>7. CopiedOf(r)'
    BY <2>1, <2>4, <2>5 DEF CopiedOf, Key
  <2> QED  BY <1>0, <2>1, <2>2, <2>3, <2>6, <2>7, FromOwn DEF Wrote
<1>9. CASE EnsureDi(r) \/ DiFails(r)
  <2>1. /\ pc[r] = "di" /\ job[r].kind \in Saga /\ pc[r] \in ProvisionSteps
        /\ UNCHANGED <<tenants, projects>> /\ diReady \subseteq diReady'
    BY <1>0, <1>9 DEF EnsureDi, DiFails, At, ControlOf, ProvisionSteps
  <2>2. CASE Recover(r)
    BY <1>0, <1>c, <2>1, <2>2
  <2>3. CASE ~Recover(r)
    <3>1. /\ seen[r].tenant \in diReady' /\ pc'[r] = "ready"
          /\ UNCHANGED <<operation, holder, job, seen>>
      BY <1>9, <2>3 DEF EnsureDi, DiFails, IsReady, Goto, TypeOK
    <3>2. Grows
      BY <2>1, <3>1 DEF Grows
    <3>3. CopiedOf(r)'
      BY <1>0, <2>1, <3>1 DEF CopiedOf, Key
    <3> QED  BY <1>0, <2>1, <3>1, <3>2, <3>3, FromOwn
  <2> QED  BY <2>2, <2>3
<1>10. CASE Complete(r)
  <2>1. /\ pc[r] = "ready" /\ job[r].kind \in Saga /\ own \in Keys
        /\ own \in ProvisionKeys /\ TruthfulOf(own)
        /\ UNCHANGED <<tenants, projects, diReady>>
    BY <1>0, <1>10 DEF Complete, At, ControlOf, ProvisionSteps, provisionVars
  <2>2. Wrote(own, "COMPLETED", {"DI"}) /\ Left(r)
    BY <1>10, <2>1, ReportFacts, LeaveFacts DEF Complete, OpStatuses, Receipts
  <2>3. Grows
    BY <2>1, <2>2 DEF Grows, Wrote
  <2>4. /\ {"SECURITY", "AUDIT_CORE"} \subseteq operation[own].receipts
        /\ operation[own].tenant \in diReady
    BY <1>0, <2>1 DEF CopiedOf
  <2>5. /\ operation'[own].tenant = operation[own].tenant
        /\ operation'[own].receipts = Receipts /\ operation'[own].status # "NONE"
    <3>1. operation[own].receipts \subseteq Receipts
      BY <2>1 DEF TypeOK, Operation
    <3> QED  BY <2>2, <2>4, <3>1 DEF Wrote, Receipts
  <2>6. TruthfulOf(own)'
    BY <2>1, <2>4, <2>5 DEF TruthfulOf, TenantsOf, ProjectOf, Receipts
  <2> QED  BY <1>0, <1>b, <2>1, <2>2, <2>3, <2>6, FromOwn DEF Wrote
<1> QED  BY <1>1, <1>2, <1>3, <1>4, <1>5, <1>6, <1>7, <1>8, <1>9, <1>10
            DEF CreateStep, ProvisionStep

LEMMA TruthKept ==
    ASSUME TypeOK, Control, Truthful, Copied, [Next]_vars
    PROVE  Grows /\ Truthful' /\ Copied'
<1>a. ASSUME PatchesOnly, UNCHANGED <<tenants, diReady>>,
             \A p, q \in projects' : p.tenant = q.tenant => p = q,
             \A p \in projects : \E q \in projects' : q.tenant = p.tenant
      PROVE  Grows /\ Truthful' /\ Copied'
  <2>1. UNCHANGED <<operation, holder, pc, job, seen>>
    BY <1>a DEF PatchesOnly, adminVars
  <2>2. Grows
    BY <1>a, <2>1 DEF Grows
  <2>3. \A k \in Keys : TruthfulOf(k)'
    BY <2>1, <2>2, TruthStays DEF Truthful
  <2>4. \A q \in Requests : CopiedOf(q)'
    BY <2>1, <2>2, CopyStays DEF Copied
  <2> QED  BY <1>a, <2>2, <2>3, <2>4 DEF Truthful, Copied
<1>1. CASE UNCHANGED vars \/ (\E o \in Outlets : PatchOutlet(o))
  <2>1. PatchesOnly /\ UNCHANGED <<tenants, projects, diReady>>
    BY <1>1, NobodysStep DEF vars, PatchOutlet, provisionVars
  <2> QED  BY <1>a, <2>1 DEF Truthful
<1>2. CASE PatchStep
  <2>1. PICK p \in projects, d \in Details : PatchProject(p, d)
    BY <1>2 DEF PatchStep
  <2>2. /\ projects' = (projects \ {p}) \union {[p EXCEPT !.details = d]}
        /\ [p EXCEPT !.details = d].tenant = p.tenant
        /\ UNCHANGED <<tenants, diReady>>
    BY <2>1 DEF PatchProject, TypeOK, Project
  <2> QED  BY <1>2, <1>a, <2>2, NobodysStep DEF Truthful
<1>3. ASSUME NEW r \in Requests, Step(r)
      PROVE  Grows /\ Truthful' /\ Copied'
  BY <1>3, AdminTruth, CreateTruth, MappingTruth, ActivationTruth DEF Step
<1> QED  BY <1>1, <1>2, <1>3, Steps
-----------------------------------------------------------------------------
\* The transactions of the mappings.

\* The step ends r's mapping, or its transaction, or leaves it as it is.
Rests(r) ==
    /\ UNCHANGED <<secRole, rows, clock, raced>>
    /\ shared' \in {shared, shared \ {r}}
    /\ TransactionOf(r)'
    /\ \/ ~Running(r)'
       \/ /\ pc'[r] = pc[r] /\ job'[r] = job[r] /\ tx'[r] = tx[r] /\ UNCHANGED shared
    /\ \/ r \notin OpenTxs'
       \/ pc'[r] = pc[r] /\ job'[r] = job[r] /\ tx'[r] = tx[r]

OwnSteps == {"read", "update", "hit", "commit"}

LEMMA OpenRuns ==
    ASSUME TypeOK, Control, Transactions, NEW r \in Requests
    PROVE  /\ r \in OpenTxs => pc[r] \in OwnSteps /\ Running(r)
           /\ pc[r] \in OwnSteps => tx[r].begun # 0 /\ tx[r] # NoTx
           /\ pc[r] \in MappingSteps => IsMapping(r) /\ Running(r)
           /\ IsMapping(r) => pc[r] \notin ActivationSteps
           /\ pc[r] \notin OwnSteps \union ActivationSteps => tx[r] = NoTx
           /\ r \notin OpenTxs /\ IsMapping(r) => tx[r] = NoTx
<1>1. ControlOf(r) /\ TransactionOf(r)
  BY DEF Control, Transactions
<1> QED  BY <1>1 DEF ControlOf, TransactionOf, OpenTxs, Running, IsMapping, NoTx, Mapping,
              OwnSteps, ActivationSteps, MappingSteps, TypeOK

\* Where the mapping rests, everything about mappings stays true.
LEMMA RestsKeep ==
    ASSUME TypeOK, Control, Transactions, Alone, RaceFree, NEW r \in Requests,
           OthersStay(r), Rests(r)
    PROVE  Transactions' /\ Alone' /\ RaceFree'
<1>1. Transactions'
  BY DEF Rests, OthersStay, Transactions, TransactionOf
<1>2. ASSUME NEW q \in Requests
      PROVE  Running(q)' => Running(q) /\ tx'[q] = tx[q] /\ pc'[q] = pc[q] /\ job'[q] = job[q]
                            /\ (q \notin shared' => q \notin shared)
  BY DEF Rests, OthersStay, Running, IsMapping
<1>3. ASSUME NEW q \in Requests
      PROVE  AloneOf(q)'
  <2>1. AloneOf(q)
    BY DEF Alone
  <2>2. ASSUME Running(q)', q \notin shared'
        PROVE  /\ \A p \in Requests : Running(p)' => p = q
               /\ UNCHANGED <<secRole, rows, clock>>
    BY <1>2, <2>1, <2>2 DEF AloneOf, Rests
  <2> QED  BY <1>2, <2>1, <2>2 DEF AloneOf, Wanted, Asked, Plain
<1>4. RaceFree'
  <2>1. ASSUME NEW q \in OpenTxs'
        PROVE  q \in OpenTxs /\ pc'[q] = pc[q] /\ tx'[q] = tx[q]
    BY <2>1 DEF Rests, OthersStay, OpenTxs, IsMapping
  <2> QED  BY <2>1 DEF RaceFree, Rests
<1> QED  BY <1>1, <1>3, <1>4 DEF Alone

LEMMA AdminRests ==
    ASSUME TypeOK, Control, Transactions, NEW r \in Requests,
           AdminStep(r) \/ LostStep(r)
    PROVE  Rests(r)
<1>0. ControlOf(r) /\ TransactionOf(r) /\ ControlOf(r)'
  BY AdminFlow DEF Control, Transactions, Flow
<1>1. CASE LockLapses(r) /\ UNCHANGED mappingVars
  BY <1>0, <1>1 DEF LockLapses, Rests, mappingVars, TransactionOf
<1>2. CASE UNCHANGED mappingVars /\ pc[r] \in {"lock", "claim", "resume"}
           /\ pc'[r] \in {"idle", "lock", "claim", "resume"}
           /\ (job'[r] = job[r] \/ job'[r] = NoJob)
  <2>1. tx[r] = NoTx
    BY <1>0, <1>2 DEF TransactionOf, ActivationSteps
  <2>2. ~Running(r)'
    BY <1>0, <1>2 DEF Running, IsMapping, NoJob, ControlOf
  <2> QED  BY <1>2, <2>1, <2>2 DEF Rests, mappingVars, TransactionOf, OpenTxs
<1>3. CASE LostStep(r)
  <2>1. pc'[r] = "idle" /\ job'[r] = NoJob /\ tx'[r] = NoTx
    BY <1>3, LeaveFacts DEF LostStep, Lost, EndTx, Left, TypeOK
  <2>2. ~Running(r)'
    BY <2>1 DEF Running, IsMapping, NoJob
  <2> QED  BY <1>3, <2>1, <2>2 DEF Rests, LostStep, Ends, TransactionOf, OpenTxs
<1>4. CASE TakeLock(r) \/ Claim(r) \/ Replay(r)
  <2>1. /\ pc[r] \in {"lock", "claim", "resume"}
        /\ pc'[r] \in {"idle", "lock", "claim", "resume"}
        /\ (job'[r] = job[r] \/ job'[r] = NoJob)
    BY <1>4, LeaveFacts
       DEF TakeLock, MayLock, Claim, Replay, At, Goto, Left, TypeOK
  <2>2. CASE UNCHANGED mappingVars
    BY <1>2, <2>1, <2>2
  <2>3. CASE LostStep(r)
    BY <1>3, <2>3
  <2> QED  BY <2>2, <2>3 DEF AdminStep
<1> QED  BY <1>1, <1>3, <1>4 DEF AdminStep

LEMMA CreateRests ==
    ASSUME TypeOK, Control, Transactions, NEW r \in Requests, CreateStep(r)
    PROVE  Rests(r)
<1>0. /\ ControlOf(r) /\ TransactionOf(r) /\ ControlOf(r)' /\ Moves(r)
      /\ UNCHANGED mappingVars
  BY CreateFlow DEF Control, Transactions, CreateStep, Flow
<1>1. pc[r] \in {"idle", "resume"} \union ProvisionSteps
  BY DEF CreateStep, ProvisionStep, Retry, Create, Arrive, Resume, CreateTenant,
         SecurityFails, RecordTenant, EnsureProject, ProjectionFails, RecordProject,
         EnsureDi, DiFails, Complete, At, ProvisionSteps
<1>2. tx'[r] = NoTx
  BY <1>0, <1>1 DEF TransactionOf, ActivationSteps, ProvisionSteps, mappingVars
<1>3. pc'[r] \in {"idle", "lock", "claim", "resume"} \union ProvisionSteps
  <2>1. ASSUME NEW k, NEW kind, NEW payload, Arrive(r, kind, k, payload)
        PROVE  pc'[r] = "lock"
    BY <2>1 DEF Arrive, Goto, TypeOK
  <2>2. CASE Leave(r)
    BY <2>2 DEF Leave, TypeOK
  <2> QED  BY <2>1, <2>2
           DEF CreateStep, ProvisionStep, Retry, Create, Resume, CreateTenant, Recover,
               SecurityFails, RecordTenant, EnsureProject, ProjectionFails, RecordProject,
               EnsureDi, DiFails, Complete, AfterSecurity, Goto, ProvisionSteps, TypeOK
<1>4. ~Running(r)'
  BY <1>0, <1>3 DEF Running, IsMapping, ControlOf, NoJob, ProvisionSteps, Saga
<1> QED  BY <1>0, <1>2, <1>3, <1>4
         DEF Rests, mappingVars, TransactionOf, OpenTxs, ProvisionSteps

LEMMA ActivationRests ==
    ASSUME TypeOK, Control, Transactions, NEW r \in Requests, ActivateStep(r)
    PROVE  Rests(r)
<1>0. ControlOf(r) /\ TransactionOf(r) /\ ControlOf(r)'
  BY ActivationFlow DEF Control, Transactions, Flow
<1>1. UNCHANGED <<secRole, rows, clock, raced, shared>>
  BY DEF ActivateStep, Activate, CheckStructure, CheckCoverage, NotReady, Decline,
         ActivateTenant, ActivateProject, mappingVars
<1>2. pc'[r] \in ActivationSteps \/ (pc'[r] = "idle" /\ tx'[r] = NoTx)
  <2>1. CASE Leave(r) /\ EndTx(r)
    BY <2>1 DEF Leave, EndTx, TypeOK
  <2>2. CASE pc'[r] \in ActivationSteps
    BY <2>2
  <2> QED  BY <2>1, <2>2
           DEF ActivateStep, Activate, CheckStructure, CheckCoverage, NotReady, Decline,
               ActivateTenant, ActivateProject, Goto, ActivationSteps, TypeOK
<1>3. ~IsMapping(r)'
  BY <1>0, <1>2 DEF IsMapping, ControlOf, NoJob, ActivationSteps
<1> QED  BY <1>1, <1>2, <1>3
         DEF Rests, TransactionOf, OpenTxs, Running, ActivationSteps

\* A mapping that is alone: it is enough to look at the one that takes the step.
LEMMA AloneFromOwn ==
    ASSUME TypeOK, Control, Transactions, Alone, NEW r \in Requests, Running(r),
           OthersStay(r), shared' \in {shared, shared \ {r}},
           Running(r)' => UNCHANGED shared,
           Running(r)' /\ r \notin shared =>
              /\ pc'[r] \in OwnSteps => tx'[r].begun = clock'
              /\ pc'[r] = "hit" => tx'[r].target = rows'
              /\ pc'[r] = "commit" => tx'[r].hit = rows'
              /\ pc'[r] \in {"rowsDone", "removeRole", "roleRemoved"} =>
                    Plain(rows') = Wanted(r)
              /\ job[r].kind = "PUT" /\ pc'[r] # "setRole" => secRole' = Asked(r).role
              /\ pc'[r] = "roleRemoved" => secRole' = "NONE",
           job'[r] = job[r] \/ ~Running(r)'
    PROVE  Alone'
<1>1. ASSUME NEW q \in Requests
      PROVE  Running(q)' => Running(q)
  BY <1>1 DEF OthersStay, Running, IsMapping
<1>2. ASSUME NEW q \in Requests, Running(q)', q \notin shared'
      PROVE  q = r /\ r \notin shared /\ \A p \in Requests : Running(p)' => p = q
  <2>1. Running(q) /\ AloneOf(q) /\ AloneOf(r)
    BY <1>1, <1>2 DEF Alone
  <2>2. q = r
    <3>1. CASE q \notin shared
      BY <2>1, <3>1 DEF AloneOf
    <3>2. CASE q \in shared
      BY <1>2, <3>2
    <3> QED  BY <3>1, <3>2
  <2>3. r \notin shared
    BY <1>2, <2>2
  <2> QED  BY <1>1, <2>1, <2>2, <2>3 DEF AloneOf
<1>3. ASSUME NEW q \in Requests
      PROVE  AloneOf(q)'
  <2>1. CASE Running(q)' /\ q \notin shared'
    <3>1. q = r /\ r \notin shared /\ job'[r] = job[r]
      BY <1>2, <2>1
    <3> QED  BY <1>2, <2>1, <3>1 DEF AloneOf, OwnSteps, Wanted, Asked, Plain
  <2>2. CASE ~(Running(q)' /\ q \notin shared')
    BY <2>2 DEF AloneOf
  <2> QED  BY <2>1, <2>2
<1> QED  BY <1>3 DEF Alone

\* A step outside the transactions' statements leaves the race as it is.
LEMMA RaceStays ==
    ASSUME TypeOK, Control, Transactions, RaceFree, NEW r \in Requests, OthersStay(r),
           UNCHANGED <<rows, raced>>, r \notin OpenTxs'
    PROVE  RaceFree'
<1>1. ASSUME NEW q \in OpenTxs'
      PROVE  q \in OpenTxs /\ pc'[q] = pc[q] /\ tx'[q] = tx[q]
  BY <1>1 DEF OthersStay, OpenTxs, IsMapping
<1> QED  BY <1>1 DEF RaceFree

\* A transaction that is open alone.
LEMMA RaceFromOwn ==
    ASSUME TypeOK, Control, Transactions, RaceFree, NEW r \in Requests, OthersStay(r),
           r \in OpenTxs, UNCHANGED <<rows, raced>>,
           ~raced => /\ pc'[r] = "hit" => tx'[r].target = rows
                     /\ pc'[r] = "commit" => tx'[r].hit = rows
    PROVE  RaceFree'
<1>1. ASSUME NEW q \in OpenTxs', q # r
      PROVE  q \in OpenTxs
  BY <1>1 DEF OthersStay, OpenTxs, IsMapping
<1>2. ~raced => OpenTxs' \subseteq {r}
  BY <1>1 DEF RaceFree
<1> QED  BY <1>2 DEF RaceFree

\* Only r's transaction may change, and does not begin after now.
LEMMA TransactionFromOwn ==
    ASSUME TypeOK, Control, Transactions, NEW r \in Requests, OthersStay(r),
           TransactionOf(r)', clock <= clock', clock' \in Nat,
           \A a \in rows' : a.from <= clock'
    PROVE  Transactions'
<1>1. ASSUME NEW q \in Requests
      PROVE  TransactionOf(q)'
  <2>1. CASE q = r
    BY <2>1
  <2>2. CASE q # r
    <3>1. TransactionOf(q) /\ tx[q].begun \in Nat /\ clock \in Nat
      BY DEF Transactions, TypeOK, Transaction
    <3> QED  BY <2>2, <3>1 DEF OthersStay, TransactionOf
  <2> QED  BY <2>1, <2>2
<1> QED  BY <1>1 DEF Transactions

LEMMA MappingKept ==
    ASSUME TypeOK, Control, Transactions, Alone, RaceFree, NEW r \in Requests, MapStep(r)
    PROVE  Transactions' /\ Alone' /\ RaceFree'
<1>0. /\ OthersStay(r) /\ ControlOf(r) /\ ControlOf(r)' /\ TransactionOf(r) /\ TypeOK'
      /\ AloneOf(r)
  BY MappingFlow, MappingTypes DEF Flow, Control, Transactions, Alone
<1>a. ASSUME Left(r), tx'[r] = NoTx
      PROVE  TransactionOf(r)' /\ ~Running(r)' /\ r \notin OpenTxs'
  BY <1>a DEF Left, TypeOK, TransactionOf, Running, IsMapping, OpenTxs, NoJob, OwnSteps
<1>b. ASSUME NEW status, EndAs(r, status), UNCHANGED <<secRole, rows, clock, raced>>,
             tx'[r] = NoTx
      PROVE  Transactions' /\ Alone' /\ RaceFree'
  <2>1. Left(r) /\ shared' = shared \ {r}
    BY <1>b, LeaveFacts DEF EndAs, Ends
  <2>2. Rests(r)
    BY <1>a, <1>b, <2>1 DEF Rests
  <2> QED  BY <1>0, <2>2, RestsKeep
<1>c. \A a \in rows : a.from <= clock
  BY DEF Transactions
\* A step of a mapping that is under way and has no transaction open.
<1>d. ASSUME pc[r] \in MappingSteps \ OwnSteps, pc'[r] \in MappingSteps \ OwnSteps,
             UNCHANGED <<rows, clock, tx, shared, raced, job>>,
             r \notin shared =>
              /\ pc'[r] \in {"rowsDone", "removeRole", "roleRemoved"} =>
                    pc[r] \in {"rowsDone", "removeRole", "roleRemoved"}
              /\ job[r].kind = "PUT" /\ pc'[r] # "setRole" => secRole' = Asked(r).role
              /\ pc'[r] = "roleRemoved" => secRole' = "NONE"
      PROVE  Transactions' /\ Alone' /\ RaceFree'
  <2>1. Running(r) /\ tx[r] = NoTx
    BY <1>d, OpenRuns DEF OwnSteps, MappingSteps, ActivationSteps
  <2>2. TransactionOf(r)' /\ r \notin OpenTxs'
    BY <1>d, <2>1 DEF TransactionOf, OpenTxs, OwnSteps
  <2>3. Transactions'
    BY <1>0, <1>c, <1>d, <2>2, TransactionFromOwn DEF TypeOK
  <2>4. Alone'
    BY <1>0, <1>d, <2>1, AloneFromOwn DEF AloneOf, OwnSteps
  <2>5. RaceFree'
    BY <1>0, <1>d, <2>2, RaceStays
  <2> QED  BY <2>3, <2>4, <2>5
<1>1. ASSUME NEW k \in MapKeys, NEW m \in Mappings \union {Removal}, AskMapping(r, k, m)
      PROVE  Transactions' /\ Alone' /\ RaceFree'
  <2>1. pc[r] = "idle" /\ pc'[r] = "lock" /\ UNCHANGED mappingVars
    BY <1>1 DEF AskMapping, Arrive, At, Goto, TypeOK
  <2>2. tx'[r] = NoTx
    BY <1>0, <2>1 DEF TransactionOf, mappingVars, ActivationSteps
  <2>3. Rests(r)
    BY <2>1, <2>2 DEF Rests, mappingVars, TransactionOf, Running, OpenTxs
  <2> QED  BY <1>0, <2>3, RestsKeep
<1>2. CASE StartMapping(r)
  <2> DEFINE others == {q \in Requests \ {r} : Running(q)}
  <2>1. /\ pc[r] = "resume" /\ pc'[r] \in {"begin", "setRole"} /\ IsMapping(r)
        /\ job[r].kind = "PUT" => pc'[r] = "setRole"
        /\ shared' = IF others = {} THEN shared ELSE shared \union others \union {r}
        /\ UNCHANGED <<job, secRole, rows, clock, tx, raced>>
    BY <1>2 DEF StartMapping, At, Goto, First, TypeOK, IsMapping
  <2>2. tx[r] = NoTx /\ TransactionOf(r)' /\ r \notin OpenTxs'
    BY <1>0, <2>1 DEF TransactionOf, OpenTxs, ActivationSteps
  <2>3. Transactions' /\ RaceFree'
    BY <1>0, <1>c, <2>1, <2>2, TransactionFromOwn, RaceStays DEF TypeOK
  <2>4. ASSUME NEW q \in Requests, q # r, Running(q)'
        PROVE  q \in others /\ q \in shared'
    BY <1>0, <2>1, <2>4 DEF OthersStay, Running, IsMapping
  <2> HIDE DEF others
  <2>5. ASSUME NEW q \in Requests
        PROVE  AloneOf(q)'
    <3>1. CASE q # r
      BY <2>4, <3>1 DEF AloneOf
    <3>2. CASE q = r
      BY <2>1, <2>4, <3>2 DEF AloneOf
    <3> QED  BY <3>1, <3>2
  <2> QED  BY <2>3, <2>5 DEF Alone
<1>3. CASE SetRole(r) \/ RemoveRole(r)
  <2>1. /\ pc[r] \in MappingSteps \ OwnSteps /\ UNCHANGED <<rows, clock, tx, raced>>
    BY <1>3 DEF SetRole, RemoveRole, At, MappingSteps, OwnSteps
  <2>2. CASE EndAs(r, "RECOVERY_REQUIRED")
    <3>1. Left(r) /\ shared' = shared \ {r}
      BY <2>2, LeaveFacts DEF EndAs, Ends
    <3>2. Running(r) /\ tx'[r] = NoTx
      BY <2>1, OpenRuns DEF OwnSteps, MappingSteps, ActivationSteps
    <3>3. TransactionOf(r)' /\ ~Running(r)' /\ r \notin OpenTxs'
      BY <1>a, <3>1, <3>2
    <3> QED  BY <1>0, <1>c, <2>1, <3>1, <3>2, <3>3, TransactionFromOwn, AloneFromOwn,
                RaceStays DEF TypeOK
  <2>3. CASE ~EndAs(r, "RECOVERY_REQUIRED")
    <3>1. /\ UNCHANGED <<job, shared>>
          /\ \/ pc[r] = "setRole" /\ pc'[r] = "roleSet" /\ secRole' = Asked(r).role
             \/ pc[r] = "removeRole" /\ pc'[r] = "roleRemoved" /\ secRole' = "NONE"
      BY <1>3, <2>3 DEF SetRole, RemoveRole, At, Goto, TypeOK
    <3> QED  BY <1>0, <1>d, <2>1, <3>1 DEF MappingSteps, OwnSteps, ControlOf
  <2> QED  BY <2>2, <2>3
<1>4. CASE SetRoleFails(r) \/ RemoveRoleFails(r)
  <2>1. tx'[r] = NoTx /\ UNCHANGED <<secRole, rows, clock, raced>>
    BY <1>0, <1>4 DEF SetRoleFails, RemoveRoleFails, At, TransactionOf, ActivationSteps
  <2> QED  BY <1>4, <1>b, <2>1 DEF SetRoleFails, RemoveRoleFails
<1>5. CASE RecordRole(r)
  <2>1. pc[r] = "roleSet" /\ pc'[r] = "begin" /\ UNCHANGED <<job, mappingVars>>
    BY <1>5 DEF RecordRole, At, Goto, TypeOK
  <2>2. Running(r) /\ (r \notin shared /\ job[r].kind = "PUT" => secRole = Asked(r).role)
    BY <1>0, <2>1, OpenRuns DEF AloneOf, MappingSteps
  <2> QED  BY <1>d, <2>1, <2>2 DEF MappingSteps, OwnSteps, mappingVars
\* A step of r's transaction, with no other open if none overlapped.
<1>6. CASE BeginTx(r)
  <2>1. /\ pc[r] = "begin" /\ pc'[r] \in {"read", "update"}
        /\ clock' = clock + 1 /\ tx'[r].begun = clock + 1
        /\ raced' = (raced \/ OpenTxs # {})
        /\ UNCHANGED <<job, secRole, rows, shared>> /\ clock \in Nat
    BY <1>6 DEF BeginTx, At, Goto, TypeOK, Transaction
  <2>2. Running(r) /\ TransactionOf(r)'
    BY <2>1, OpenRuns DEF TransactionOf, MappingSteps, ActivationSteps
  <2>3. \A a \in rows : a.from <= clock'
    BY <1>c, <2>1 DEF TypeOK, Assignment
  <2>4. Transactions'
    BY <1>0, <2>1, <2>2, <2>3, TransactionFromOwn
  <2>5. r \notin shared /\ job[r].kind = "PUT" => secRole = Asked(r).role
    BY <1>0, <2>1, <2>2 DEF AloneOf
  <2>6. Alone'
    BY <1>0, <2>1, <2>2, <2>5, AloneFromOwn
  <2>7. RaceFree'
    <3>1. ASSUME ~raced', NEW q \in OpenTxs'
          PROVE  q = r
      <4>1. q # r => q \in OpenTxs
        BY <1>0, <3>1 DEF OthersStay, OpenTxs, IsMapping
      <4> QED  BY <2>1, <3>1, <4>1
    <3>2. ~raced' => \A a, b \in rows' : a.role = b.role
      BY <2>1 DEF RaceFree
    <3> QED  BY <2>1, <3>1, <3>2 DEF RaceFree
  <2> QED  BY <2>4, <2>6, <2>7
<1>7. CASE ReadRows(r)
  <2>1. /\ pc[r] = "read" /\ UNCHANGED <<job, secRole, rows, clock, shared, raced>>
        /\ \/ AsAsked(r) /\ pc'[r] = "rowsDone" /\ tx'[r] = NoTx
           \/ pc'[r] = "update" /\ UNCHANGED tx
    BY <1>7 DEF ReadRows, At, Goto, EndTx, TypeOK
  <2>2. Running(r) /\ r \in OpenTxs /\ TransactionOf(r)'
    BY <1>0, <2>1, OpenRuns DEF TransactionOf, MappingSteps, OwnSteps, OpenTxs
  <2>3. Transactions'
    BY <1>0, <1>c, <2>1, <2>2, TransactionFromOwn DEF TypeOK
  <2>4. r \notin shared => /\ tx[r].begun = clock
                           /\ job[r].kind = "PUT" => secRole = Asked(r).role
    BY <1>0, <2>1, <2>2 DEF AloneOf
  <2>5. r \notin shared /\ AsAsked(r) => Plain(rows) = Wanted(r)
    <3>1. ASSUME r \notin shared, NEW a
          PROVE  a \in Visible(r) <=> a \in rows
      BY <1>c, <2>4, <3>1 DEF Visible
    <3>2. r \notin shared => Visible(r) = rows
      BY <3>1
    <3> QED  BY <3>2 DEF AsAsked, Plain
  <2>6. Alone'
    <3>1. r \notin shared =>
            /\ pc'[r] \in OwnSteps => tx'[r].begun = clock'
            /\ pc'[r] = "hit" => tx'[r].target = rows'
            /\ pc'[r] = "commit" => tx'[r].hit = rows'
            /\ pc'[r] \in {"rowsDone", "removeRole", "roleRemoved"} => Plain(rows') = Wanted(r)
            /\ job[r].kind = "PUT" /\ pc'[r] # "setRole" => secRole' = Asked(r).role
            /\ pc'[r] = "roleRemoved" => secRole' = "NONE"
      BY <2>1, <2>4, <2>5 DEF OwnSteps
    <3> QED  BY <1>0, <2>1, <2>2, <3>1, AloneFromOwn
  <2>7. RaceFree'
    BY <1>0, <2>1, <2>2, RaceFromOwn
  <2> QED  BY <2>3, <2>6, <2>7
<1>8. CASE StartUpdate(r)
  <2>1. /\ pc[r] = "update" /\ pc'[r] = "hit" /\ tx'[r].target = rows
        /\ tx'[r].begun = tx[r].begun
        /\ UNCHANGED <<job, secRole, rows, clock, shared, raced>>
    BY <1>8 DEF StartUpdate, Targets, At, Goto, TypeOK, Transaction
  <2>2. Running(r) /\ r \in OpenTxs /\ TransactionOf(r)'
    BY <1>0, <2>1, OpenRuns DEF TransactionOf, MappingSteps, OwnSteps, OpenTxs
  <2>3. Transactions'
    BY <1>0, <1>c, <2>1, <2>2, TransactionFromOwn DEF TypeOK
  <2>4. r \notin shared => /\ tx[r].begun = clock
                           /\ job[r].kind = "PUT" => secRole = Asked(r).role
    BY <1>0, <2>1, <2>2 DEF AloneOf
  <2>5. Alone'
    <3>1. r \notin shared =>
            /\ pc'[r] \in OwnSteps => tx'[r].begun = clock'
            /\ pc'[r] = "hit" => tx'[r].target = rows'
            /\ pc'[r] = "commit" => tx'[r].hit = rows'
            /\ pc'[r] \in {"rowsDone", "removeRole", "roleRemoved"} => Plain(rows') = Wanted(r)
            /\ job[r].kind = "PUT" /\ pc'[r] # "setRole" => secRole' = Asked(r).role
            /\ pc'[r] = "roleRemoved" => secRole' = "NONE"
      BY <2>1, <2>4 DEF OwnSteps
    <3> QED  BY <1>0, <2>1, <2>2, <3>1, AloneFromOwn
  <2>6. RaceFree'
    BY <1>0, <2>1, <2>2, RaceFromOwn
  <2> QED  BY <2>3, <2>5, <2>6
<1>9. CASE FinishUpdate(r)
  <2>1. CASE EndAs(r, "RECOVERY_REQUIRED") /\ EndTx(r)
    <3>1. tx'[r] = NoTx /\ UNCHANGED <<secRole, rows, clock, raced>>
      BY <1>9, <2>1 DEF FinishUpdate, EndTx, TypeOK
    <3> QED  BY <1>b, <2>1, <3>1
  <2>2. CASE ~(EndAs(r, "RECOVERY_REQUIRED") /\ EndTx(r))
    <3>1. /\ pc[r] = "hit" /\ pc'[r] = "commit"
          /\ tx'[r].hit = tx[r].target \intersect rows /\ tx'[r].begun = tx[r].begun
          /\ UNCHANGED <<job, secRole, rows, clock, shared, raced>>
      BY <1>9, <2>2 DEF FinishUpdate, At, Goto, TypeOK, Transaction
    <3>2. Running(r) /\ r \in OpenTxs /\ TransactionOf(r)'
      BY <1>0, <3>1, OpenRuns DEF TransactionOf, MappingSteps, OwnSteps, OpenTxs
    <3>3. Transactions'
      BY <1>0, <1>c, <3>1, <3>2, TransactionFromOwn DEF TypeOK
    <3>4. r \notin shared => /\ tx[r].begun = clock /\ tx'[r].hit = rows
                             /\ job[r].kind = "PUT" => secRole = Asked(r).role
      BY <1>0, <3>1, <3>2 DEF AloneOf
    <3>5. Alone'
      <4>1. r \notin shared =>
              /\ pc'[r] \in OwnSteps => tx'[r].begun = clock'
              /\ pc'[r] = "hit" => tx'[r].target = rows'
              /\ pc'[r] = "commit" => tx'[r].hit = rows'
              /\ pc'[r] \in {"rowsDone", "removeRole", "roleRemoved"} => Plain(rows') = Wanted(r)
              /\ job[r].kind = "PUT" /\ pc'[r] # "setRole" => secRole' = Asked(r).role
              /\ pc'[r] = "roleRemoved" => secRole' = "NONE"
        BY <3>1, <3>4 DEF OwnSteps
      <4> QED  BY <1>0, <3>1, <3>2, <4>1, AloneFromOwn
    <3>6. ~raced => tx'[r].hit = rows
      BY <3>1, <3>2 DEF RaceFree
    <3>7. RaceFree'
      BY <1>0, <3>1, <3>2, <3>6, RaceFromOwn
    <3> QED  BY <3>3, <3>5, <3>7
  <2> QED  BY <2>1, <2>2
<1>10. CASE CommitTx(r)
  <2>1. /\ pc[r] = "commit" /\ pc'[r] = "rowsDone" /\ tx'[r] = NoTx
        /\ rows' = (rows \ tx[r].hit) \union NewRows(r)
        /\ UNCHANGED <<job, secRole, clock, shared, raced>>
    BY <1>10 DEF CommitTx, EndTx, At, Goto, TypeOK
  <2>2. Running(r) /\ r \in OpenTxs /\ TransactionOf(r)' /\ r \notin OpenTxs'
    BY <1>0, <2>1, OpenRuns DEF TransactionOf, MappingSteps, OwnSteps, OpenTxs
  <2>3. tx[r].begun <= clock
    BY <1>0, <2>1 DEF TransactionOf, TypeOK
  <2>4. Transactions'
    <3>1. \A a \in rows' : a.from <= clock'
      BY <1>c, <2>1, <2>3 DEF NewRows
    <3> QED  BY <1>0, <2>1, <2>2, <3>1, TransactionFromOwn DEF TypeOK
  <2>5. r \notin shared => /\ tx[r].hit = rows
                           /\ job[r].kind = "PUT" => secRole = Asked(r).role
    BY <1>0, <2>1, <2>2 DEF AloneOf
  <2>6. r \notin shared => Plain(rows') = Wanted(r)
    <3>1. ASSUME NEW x \in Plain(NewRows(r))
          PROVE  x \in Wanted(r)
      <4>1. PICK a \in NewRows(r) : x = [role |-> a.role, scope |-> a.scope]
        BY <3>1 DEF Plain
      <4>2. PICK s \in Asked(r).scopes :
                a = [from |-> tx[r].begun, role |-> Asked(r).role, scope |-> s]
        BY <4>1 DEF NewRows
      <4>3. x = [role |-> Asked(r).role, scope |-> s]
        BY <4>1, <4>2
      <4> QED  BY <4>3 DEF Wanted
    <3>1a. ASSUME NEW x \in Wanted(r)
          PROVE  x \in Plain(NewRows(r))
      <4>1. PICK s \in Asked(r).scopes : x = [role |-> Asked(r).role, scope |-> s]
        BY <3>1a DEF Wanted
      <4> DEFINE a == [from |-> tx[r].begun, role |-> Asked(r).role, scope |-> s]
      <4>2. a \in NewRows(r)
        BY DEF NewRows
      <4>3. x = [role |-> a.role, scope |-> a.scope]
        BY <4>1
      <4> HIDE DEF a
      <4> QED  BY <4>2, <4>3 DEF Plain
    <3>2. Plain(NewRows(r)) = Wanted(r)
      BY <3>1, <3>1a
    <3>3. ASSUME r \notin shared, NEW a
          PROVE  a \in rows' <=> a \in NewRows(r)
      BY <2>1, <2>5, <3>3
    <3>4. r \notin shared => rows' = NewRows(r)
      BY <3>3
    <3> QED  BY <3>2, <3>4
  <2>7. Alone'
    <3>1. r \notin shared =>
            /\ pc'[r] \in OwnSteps => tx'[r].begun = clock'
            /\ pc'[r] = "hit" => tx'[r].target = rows'
            /\ pc'[r] = "commit" => tx'[r].hit = rows'
            /\ pc'[r] \in {"rowsDone", "removeRole", "roleRemoved"} => Plain(rows') = Wanted(r)
            /\ job[r].kind = "PUT" /\ pc'[r] # "setRole" => secRole' = Asked(r).role
            /\ pc'[r] = "roleRemoved" => secRole' = "NONE"
      BY <2>1, <2>5, <2>6 DEF OwnSteps
    <3> QED  BY <1>0, <2>1, <2>2, <3>1, AloneFromOwn
  <2>8. RaceFree'
    <3>1. ASSUME ~raced
          PROVE  rows' = NewRows(r) /\ OpenTxs' = {}
      <4>1. tx[r].hit = rows
        BY <2>1, <2>2, <3>1 DEF RaceFree
      <4>2. ASSUME NEW q \in OpenTxs'
            PROVE  FALSE
        <5>1. q # r /\ q \in OpenTxs
          BY <1>0, <2>2, <4>2 DEF OthersStay, OpenTxs, IsMapping
        <5> QED  BY <2>2, <3>1, <5>1 DEF RaceFree
      <4> QED  BY <2>1, <4>1, <4>2
    <3>2. \A a, b \in NewRows(r) : a.role = b.role
      BY DEF NewRows
    <3> QED  BY <2>1, <3>1, <3>2 DEF RaceFree
  <2> QED  BY <2>4, <2>7, <2>8
<1>11. CASE TxFails(r)
  <2>1. tx'[r] = NoTx
    BY <1>11 DEF TxFails, EndTx, TypeOK
  <2> QED  BY <1>11, <1>b, <2>1 DEF TxFails
\* The mapping completes: if it was alone, the assignments have its role.
<1>e. ASSUME NEW receipt, Done(r, receipt), pc[r] \in {"rowsDone", "roleRemoved"}
      PROVE  Transactions' /\ Alone' /\ RaceFree'
  <2>1. /\ Left(r) /\ shared' = shared \ {r} /\ raced' = (raced /\ r \in shared)
        /\ UNCHANGED <<secRole, rows, clock, tx>>
    BY <1>e, LeaveFacts DEF Done, Ends
  <2>2. Running(r) /\ tx[r] = NoTx
    BY <1>e, OpenRuns DEF MappingSteps, OwnSteps, ActivationSteps
  <2>3. TransactionOf(r)' /\ ~Running(r)' /\ r \notin OpenTxs'
    BY <1>a, <2>1, <2>2
  <2>4. Transactions' /\ Alone'
    BY <1>0, <1>c, <2>1, <2>2, <2>3, TransactionFromOwn, AloneFromOwn DEF TypeOK
  <2>5. CASE UNCHANGED raced
    BY <1>0, <2>1, <2>3, <2>4, <2>5, RaceStays
  <2>6. CASE raced' # raced
    <3>1. r \notin shared
      BY <2>1, <2>6 DEF TypeOK
    <3>2. Plain(rows) = Wanted(r) /\ \A q \in Requests : Running(q) => q = r
      BY <1>0, <1>e, <2>2, <3>1 DEF AloneOf
    <3>3. \A a \in rows : a.role = Asked(r).role
      <4> TAKE a \in rows
      <4>1. [role |-> a.role, scope |-> a.scope] \in Wanted(r)
        BY <3>2 DEF Plain
      <4> QED  BY <4>1 DEF Wanted
    <3>4. ASSUME NEW q \in OpenTxs'
          PROVE  FALSE
      <4>1. q # r /\ q \in OpenTxs
        BY <1>0, <2>3, <3>4 DEF OthersStay, OpenTxs, IsMapping
      <4>2. Running(q) /\ q \in Requests
        BY <4>1, OpenRuns DEF OpenTxs
      <4> QED  BY <3>2, <4>1, <4>2
    <3> QED  BY <2>1, <2>4, <3>3, <3>4 DEF RaceFree
  <2> QED  BY <2>4, <2>5, <2>6
<1>12. CASE RecordRows(r)
  <2>1. pc[r] = "rowsDone"
    BY <1>12 DEF RecordRows, At
  <2>2. CASE job[r].kind = "PUT"
    BY <1>12, <1>e, <2>1, <2>2 DEF RecordRows
  <2>3. CASE job[r].kind # "PUT"
    <3>1. pc'[r] = "removeRole" /\ UNCHANGED <<job, mappingVars>>
      BY <1>12, <2>3 DEF RecordRows, Goto, TypeOK
    <3> QED  BY <1>d, <2>1, <2>3, <3>1 DEF MappingSteps, OwnSteps, mappingVars
  <2> QED  BY <2>2, <2>3
<1>13. CASE RecordRemoval(r)
  BY <1>13, <1>e DEF RecordRemoval, At
<1> QED  BY <1>1, <1>2, <1>3, <1>4, <1>5, <1>6, <1>7, <1>8, <1>9, <1>10, <1>11, <1>12,
            <1>13 DEF MapStep, MappingStep


LEMMA TransactionsKept ==
    ASSUME TypeOK, Control, Transactions, Alone, RaceFree, [Next]_vars
    PROVE  Transactions' /\ Alone' /\ RaceFree'
<1>1. CASE PatchesOnly
  <2>1. UNCHANGED <<pc, job, secRole, rows, clock, tx, shared, raced>>
    BY <1>1 DEF PatchesOnly, adminVars, mappingVars
  <2> QED  BY <2>1 DEF Transactions, TransactionOf, Alone, AloneOf, RaceFree, Running,
                       IsMapping, OpenTxs, Wanted, Asked, Plain
<1>2. ASSUME NEW r \in Requests, Step(r)
      PROVE  Transactions' /\ Alone' /\ RaceFree'
  <2>1. CASE MapStep(r)
    BY <2>1, MappingKept
  <2>2. CASE ~MapStep(r)
    <3>1. OthersStay(r)
      BY <1>2, StepFlow DEF Flow
    <3>2. Rests(r)
      BY <1>2, <2>2, AdminRests, CreateRests, ActivationRests DEF Step
    <3> QED  BY <3>1, <3>2, RestsKeep
  <2> QED  BY <2>1, <2>2
<1> QED  BY <1>1, <1>2, Steps, NobodysStep
-----------------------------------------------------------------------------
\* The checks of an activation.  Whatever changes the assignments or the
\* outlets marks who has passed a check.
CoveredNow == open \subseteq {a.scope : a \in {b \in rows : b.role = "PC"}}

LEMMA CheckedFromOwn ==
    ASSUME TypeOK, Checked, NEW r \in Requests, OthersStay(r), CheckedOf(r)',
           secActive \subseteq secActive',
           \/ UNCHANGED <<rows, open>> /\ drifted \ {r} \subseteq drifted'
           \/ Activating \ {r} \subseteq drifted'
    PROVE  Checked'
<1>1. ASSUME NEW q \in Requests, q # r
      PROVE  CheckedOf(q)'
  <2>1. CheckedOf(q) /\ pc'[q] = pc[q] /\ seen'[q] = seen[q]
    BY <1>1 DEF Checked, OthersStay
  <2>2. CASE UNCHANGED <<rows, open>> /\ drifted \ {r} \subseteq drifted'
    BY <1>1, <2>1, <2>2 DEF CheckedOf
  <2>3. CASE Activating \ {r} \subseteq drifted'
    BY <1>1, <2>1, <2>3 DEF CheckedOf, Activating
  <2> QED  BY <2>2, <2>3
<1> QED  BY <1>1 DEF Checked

LEMMA CheckedKept ==
    ASSUME TypeOK, Control, Checked, [Next]_vars
    PROVE  Checked'
<1>1. CASE UNCHANGED vars \/ PatchStep
  <2>1. UNCHANGED <<pc, seen, rows, secActive, open, drifted>>
    BY <1>1 DEF vars, PatchStep, PatchProject, adminVars, mappingVars, activationVars
  <2> QED  BY <2>1 DEF Checked, CheckedOf
<1>2. ASSUME NEW o \in Outlets, PatchOutlet(o)
      PROVE  Checked'
  <2>1. UNCHANGED <<pc, seen, secActive>> /\ drifted' = Activating
    BY <1>2 DEF PatchOutlet, adminVars
  <2> QED  BY <2>1 DEF Checked, CheckedOf, Activating
<1>3. ASSUME NEW r \in Requests, Step(r)
      PROVE  Checked'
  <2>0. OthersStay(r) /\ ControlOf(r) /\ ControlOf(r)' /\ CheckedOf(r)
    BY <1>3, StepFlow DEF Flow, Control, Checked
  <2>a. ASSUME pc'[r] \notin ActivationSteps
        PROVE  CheckedOf(r)'
    BY <2>a DEF CheckedOf, ActivationSteps
  <2>1. CASE AdminStep(r) \/ LostStep(r)
    <3>1. UNCHANGED <<rows, open, secActive>> /\ drifted \ {r} \subseteq drifted'
      BY <2>1 DEF AdminStep, LostStep, mappingVars, activationVars
    <3>2. CASE LockLapses(r) /\ UNCHANGED activationVars
      <4>1. CheckedOf(r)'
        BY <2>0, <3>1, <3>2 DEF LockLapses, CheckedOf, activationVars
      <4> QED  BY <2>0, <3>1, <4>1, CheckedFromOwn
    <3>3. CASE ~(LockLapses(r) /\ UNCHANGED activationVars)
      <4>1. pc'[r] \in {"idle", "lock", "claim", "resume"}
        BY <2>1, <3>3, LeaveFacts
           DEF AdminStep, LostStep, Lost, TakeLock, Claim, Replay, Goto, Left, TypeOK
      <4>2. CheckedOf(r)'
        BY <2>a, <4>1 DEF ActivationSteps
      <4> QED  BY <2>0, <3>1, <4>2, CheckedFromOwn
    <3> QED  BY <3>2, <3>3
  <2>2. CASE CreateStep(r)
    <3>1. UNCHANGED <<rows, open, secActive, drifted>>
      BY <2>2 DEF CreateStep, mappingVars, activationVars
    <3>2. pc'[r] \notin ActivationSteps
      <4>1. job[r].kind # "ACTIVATE"
        <5>1. pc[r] \notin ActivationSteps
          BY <2>2 DEF CreateStep, ProvisionStep, Retry, Create, Arrive, Resume,
                 CreateTenant, SecurityFails, RecordTenant, EnsureProject, ProjectionFails,
                 RecordProject, EnsureDi, DiFails, Complete, At, ActivationSteps
        <5> QED  BY <2>0, <5>1 DEF TypeOK, ControlOf, NoJob, Saga, Mapping
      <4>2. UNCHANGED job \/ Leave(r) \/ pc'[r] = "lock"
        BY <2>2 DEF CreateStep, ProvisionStep, Retry, Create, Arrive, Resume,
               CreateTenant, SecurityFails, RecordTenant, EnsureProject, ProjectionFails,
               RecordProject, EnsureDi, DiFails, Complete, Recover, Goto, TypeOK
      <4> QED  BY <2>0, <4>1, <4>2, LeaveFacts DEF Left, TypeOK, ControlOf, ActivationSteps
    <3> QED  BY <2>0, <2>a, <3>1, <3>2, CheckedFromOwn
  <2>3. CASE MapStep(r)
    <3>1. /\ UNCHANGED <<open, secActive>>
          /\ \/ UNCHANGED rows /\ UNCHANGED drifted
             \/ drifted' = Activating
      BY <2>3 DEF MapStep
    <3>2. pc'[r] \notin ActivationSteps
      <4>1. \/ pc'[r] \in MappingSteps \union {"lock"}
            \/ Leave(r)
        BY <2>3 DEF MapStep, MappingStep, AskMapping, Arrive, StartMapping, First, SetRole,
               SetRoleFails, RecordRole, BeginTx, ReadRows, StartUpdate, FinishUpdate,
               CommitTx, TxFails, RecordRows, RemoveRole, RemoveRoleFails, RecordRemoval,
               EndAs, Done, Goto, MappingSteps, TypeOK
      <4> QED  BY <4>1, LeaveFacts DEF Left, TypeOK, ActivationSteps, MappingSteps
    <3> QED  BY <2>0, <2>a, <3>1, <3>2, CheckedFromOwn
  <2>4. CASE ActivateStep(r)
    <3>1. UNCHANGED <<rows, open>> /\ drifted \ {r} \subseteq drifted'
          /\ secActive \subseteq secActive'
      BY <2>4 DEF ActivateStep, Activate, CheckStructure, CheckCoverage, NotReady, Decline,
             ActivateTenant, ActivateProject, mappingVars, activationVars
    <3>2. CheckedOf(r)'
      <4>1. CASE pc'[r] = "idle" \/ pc'[r] = "structure"
        BY <4>1 DEF CheckedOf
      <4>2. CASE CheckStructure(r)
        BY <4>2 DEF CheckStructure, At, Goto, TypeOK, CheckedOf, activationVars
      <4>3. CASE CheckCoverage(r)
        <5>1. Covered(r) => CoveredNow
          BY DEF Covered, Visible, CoveredNow
        <5> QED  BY <2>0, <4>3, <5>1
                 DEF CheckCoverage, At, Goto, TypeOK, CheckedOf, CoveredNow, activationVars,
                     mappingVars
      <4>4. CASE ActivateTenant(r) /\ ~Decline(r)
        BY <2>0, <4>4 DEF ActivateTenant, GoesOn, At, Goto, TypeOK, CheckedOf, mappingVars
      <4>5. CASE Leave(r)
        BY <4>1, <4>5, LeaveFacts DEF Left, TypeOK
      <4>6. ASSUME NEW p \in projects, Activate(r, p)
            PROVE  CheckedOf(r)'
        BY <4>1, <4>6 DEF Activate, Goto, TypeOK
      <4> QED  BY <2>4, <4>2, <4>3, <4>4, <4>5, <4>6
               DEF ActivateStep, NotReady, Decline, ActivateProject
    <3> QED  BY <2>0, <3>1, <3>2, CheckedFromOwn
  <2> QED  BY <1>3, <2>1, <2>2, <2>3, <2>4 DEF Step
<1> QED  BY <1>1, <1>2, <1>3, Steps

-----------------------------------------------------------------------------
LEMMA InitIInv == Init => IInv
<1> SUFFICES ASSUME Init
             PROVE  IInv
  OBVIOUS
<1>. USE Constants
<1>1. PICK m \in Mappings \union {Removal} : InitMapped(m)
  BY DEF Init
<1>2. /\ pc = [r \in Requests |-> "idle"] /\ holder = [k \in Keys |-> NoOne]
      /\ job = [r \in Requests |-> NoJob] /\ seen = [r \in Requests |-> NoOperation]
      /\ secActive = {} /\ drifted = {} /\ lapsed = {}
      /\ open \subseteq Outlets /\ scenario \in Scenarios
  BY DEF Init
<1>3. /\ secRole = m.role /\ clock = 0 /\ tx = [r \in Requests |-> NoTx]
      /\ rows = {[from |-> 0, role |-> m.role, scope |-> s] : s \in m.scopes}
      /\ shared = {} /\ raced = FALSE
  BY <1>1 DEF InitMapped
<1>4. rows \subseteq Assignment
  <2>1. \A s \in m.scopes : s \in UNION {n.scopes : n \in Mappings}
    BY DEF Removal
  <2> QED  BY <1>3, <2>1 DEF Assignment
<1>5. \/ operation = [k \in Keys |-> NoOperation] /\ tenants = <<>> /\ projects = {}
            /\ diReady = {}
      \/ \E k \in ProvisionKeys, d \in Details :
            /\ operation = [x \in Keys |-> IF x = k THEN Provisioned(k, d) ELSE NoOperation]
            /\ tenants = <<k>> /\ diReady = {1} /\ projects = {NewProject(1, d)}
  BY DEF Init, InitProvision
<1>6. /\ operation \in [Keys -> Operation] /\ tenants \in Seq(Keys)
      /\ projects \subseteq Project /\ diReady \subseteq Nat /\ Truthful
  <2>1. CASE operation = [k \in Keys |-> NoOperation] /\ tenants = <<>> /\ projects = {}
             /\ diReady = {}
    BY <2>1 DEF Truthful, TruthfulOf, NoOperation
  <2>2. ASSUME NEW k \in ProvisionKeys, NEW d \in Details,
               operation = [x \in Keys |-> IF x = k THEN Provisioned(k, d) ELSE NoOperation],
               tenants = <<k>>, diReady = {1}, projects = {NewProject(1, d)}
        PROVE  /\ operation \in [Keys -> Operation] /\ tenants \in Seq(Keys)
               /\ projects \subseteq Project /\ diReady \subseteq Nat /\ Truthful
    <3>1. Provisioned(k, d) \in Operation /\ NewProject(1, d) \in Project
      BY DEF Provisioned, Operation, NewProject, Project, Receipts, OpStatuses, Payloads
    <3>2. /\ Provisioned(k, d).status = "COMPLETED" /\ Provisioned(k, d).tenant = 1
          /\ Provisioned(k, d).receipts = Receipts /\ NewProject(1, d).tenant = 1
      BY DEF Provisioned, NewProject, Receipts
    <3>3. DOMAIN tenants = {1} /\ tenants[1] = k /\ tenants \in Seq(Keys)
      BY <2>2
    <3>4. ASSUME NEW x \in Keys
          PROVE  TruthfulOf(x)
      <4>1. CASE x = k
        BY <2>2, <3>2, <3>3, <4>1
           DEF TruthfulOf, TenantsOf, ProjectOf, NoTenant, Receipts
      <4>2. CASE x # k
        BY <2>2, <4>2 DEF TruthfulOf, NoOperation
      <4> QED  BY <4>1, <4>2
    <3> QED  BY <2>2, <3>1, <3>3, <3>4 DEF Truthful
  <2> QED  BY <1>5, <2>1, <2>2
<1>7. TypeOK
  BY <1>2, <1>3, <1>4, <1>6 DEF TypeOK
<1>8. \A r \in Requests : pc[r] = "idle" /\ job[r] = NoJob /\ seen[r] = NoOperation
                          /\ tx[r] = NoTx
  BY <1>2, <1>3
<1>9. Control /\ Copied
  BY <1>8 DEF Control, ControlOf, Copied, CopiedOf, NoJob, Saga, Mapping, ProvisionSteps,
              MappingSteps, ActivationSteps
<1>10. Locked
  BY <1>2, <1>8 DEF Locked, LockedOf, HasKey
<1>11. Transactions
  BY <1>3, <1>8 DEF Transactions, TransactionOf, Assignment
<1>12. Alone
  BY <1>8 DEF Alone, AloneOf, Running, IsMapping, NoJob
<1>13. RaceFree
  BY <1>3, <1>8 DEF RaceFree, OpenTxs
<1>14. Checked
  BY <1>8 DEF Checked, CheckedOf
<1> QED  BY <1>6, <1>7, <1>9, <1>10, <1>11, <1>12, <1>13, <1>14 DEF IInv

LEMMA NextIInv == IInv /\ [Next]_vars => IInv'
<1> SUFFICES ASSUME IInv, [Next]_vars
             PROVE  IInv'
  OBVIOUS
<1> QED  BY TypesKept, ControlKept, LockedKept, TruthKept, TransactionsKept, CheckedKept
         DEF IInv

THEOREM Inductive == Spec => []IInv
BY InitIInv, NextIInv, PTL DEF Spec

LEMMA AtMostOne ==
    ASSUME NEW S, \A x, y \in S : x = y
    PROVE  Cardinality(S) <= 1
<1>1. CASE S = {}
  BY <1>1, FS_EmptySet
<1>2. CASE S # {}
  <2>1. PICK x \in S : S = {x}
    BY <1>2
  <2> QED  BY <2>1, FS_Singleton
<1> QED  BY <1>1, <1>2

(* A key of provisioning never has two tenants, and each receipt of its    *)
(* operation, and its completion, is the truth about the other systems.    *)
THEOREM ReadyAlways == Spec => []ReadyEverywhere
<1>1. IInv => ReadyEverywhere
  <2> SUFFICES ASSUME IInv, NEW k \in ProvisionKeys
               PROVE  /\ Cardinality(TenantsOf(k)) <= 1
                      /\ "SECURITY" \in operation[k].receipts =>
                            TenantsOf(k) = {operation[k].tenant}
                      /\ "AUDIT_CORE" \in operation[k].receipts =>
                            ProjectOf(operation[k].tenant) # {}
                      /\ "DI" \in operation[k].receipts => operation[k].tenant \in diReady
                      /\ operation[k].completed =>
                            operation[k].receipts = {"SECURITY", "AUDIT_CORE", "DI"}
    BY DEF ReadyEverywhere
  <2>1. \A t, u \in TenantsOf(k) : t = u
    BY DEF IInv, Truthful, TenantsOf
  <2>2. TruthfulOf(k)
    BY Constants DEF IInv, Truthful
  <2>3. Cardinality(TenantsOf(k)) <= 1
    BY <2>1, AtMostOne
  <2> QED  BY <2>1, <2>2, <2>3 DEF TruthfulOf, Receipts
<1> QED  BY <1>1, Inductive, PTL

(* The active assignments have two roles only after replacements of them   *)
(* overlapped, with no mapping alone since.                                *)
THEOREM TwoRolesRaced == Spec => []TwoRolesWereRaced
<1>1. IInv => TwoRolesWereRaced
  <2> SUFFICES ASSUME IInv, ~raced
               PROVE  ~(Cardinality(Roles) > 1)
    BY DEF TwoRolesWereRaced
  <2>1. \A x, y \in Roles : x = y
    BY DEF IInv, RaceFree, Roles
  <2>2. Roles = {} \/ \E x : Roles = {x}
    BY <2>1
  <2>3. Cardinality(Roles) \in {0, 1}
    BY <2>2, FS_EmptySet, FS_Singleton
  <2> QED  BY <2>3
<1> QED  BY <1>1, Inductive, PTL

(* Receipts, tenant and completion of an operation are never taken back;   *)
(* its status leaves COMPLETED only under a retry, or once its lock was    *)
(* lost to the timeout.                                                    *)
THEOREM ProgressKept == Spec => ProgressIsKept
<1> DEFINE A(k) ==
         /\ operation[k].receipts \subseteq operation'[k].receipts
         /\ operation[k].completed => operation'[k].completed
         /\ operation[k].tenant \in {NoTenant, operation'[k].tenant}
         /\ operation[k].status = "COMPLETED" /\ operation'[k].status # "COMPLETED"
              => \/ \E r \in Requests : holder[k] = r /\ job[r].kind = "RETRY"
                 \/ k \in lapsed
<1>1. IInv /\ [Next]_vars => [\A k \in Keys : A(k)]_operation
  <2> SUFFICES ASSUME IInv, [Next]_vars, NEW k \in Keys
               PROVE  A(k)
    OBVIOUS
  <2>1. Grows
    BY TruthKept DEF IInv
  <2>2. ASSUME operation[k].status = "COMPLETED", operation'[k].status # "COMPLETED",
               k \notin lapsed
        PROVE  \E r \in Requests : holder[k] = r /\ job[r].kind = "RETRY"
    <3>1. ~PatchesOnly
      BY <2>2 DEF PatchesOnly, adminVars
    <3>2. PICK r \in Requests : Step(r)
      BY <3>1, Steps, NobodysStep
    <3>3. Moves(r) /\ LockedOf(r) /\ ControlOf(r)
      BY <3>2, StepFlow DEF IInv, Flow, Locked, Control
    <3>4. ~(Claim(r) /\ ~Refuses(r))
      BY <2>2 DEF IInv, TypeOK, Claim, Claimed
    <3>5. Writes(r) /\ k = Key(r)
      BY <2>2, <3>3, <3>4 DEF Moves, Writes, TakeLock, LockLapses
    <3>6. HasKey(r)
      BY <3>3, <3>5 DEF Writes, HasKey, ControlOf, ProvisionSteps, MappingSteps, Saga, Mapping
    <3> QED  BY <2>2, <3>3, <3>5, <3>6
             DEF LockedOf, Writes, ProvisionSteps, MappingSteps
  <2> QED  BY <2>1, <2>2 DEF Grows
<1> HIDE DEF A
<1>2. Spec => [][\A k \in Keys : A(k)]_operation
  BY <1>1, Inductive, PTL DEF Spec
<1> QED  BY <1>2 DEF ProgressIsKept, A

(* A mapping that completes without having overlapped with another leaves  *)
(* what was asked for in Security and in the assignments.                  *)
THEOREM LoneMappingsHold == Spec => LoneMappingHolds
<1> DEFINE A == \A r \in Requests :
         (/\ \/ At(r, "rowsDone") /\ job[r].kind = "PUT"
             \/ At(r, "roleRemoved")
          /\ operation'[Key(r)].status = "COMPLETED" /\ pc'[r] = "idle"
          /\ r \notin shared)
         => /\ secRole' = Asked(r).role
            /\ {[role |-> a.role, scope |-> a.scope] : a \in rows'} = Wanted(r)
<1>1. IInv /\ [Next]_vars => [A]_<<operation, pc>>
  <2> SUFFICES ASSUME IInv, [Next]_vars, NEW r \in Requests,
                      \/ At(r, "rowsDone") /\ job[r].kind = "PUT"
                      \/ At(r, "roleRemoved"),
                      pc'[r] = "idle", r \notin shared
               PROVE  /\ secRole' = Asked(r).role
                      /\ {[role |-> a.role, scope |-> a.scope] : a \in rows'} = Wanted(r)
    OBVIOUS
  <2>1. AloneOf(r) /\ Running(r) /\ ControlOf(r)
    BY OpenRuns DEF IInv, Alone, Control, At, MappingSteps
  <2>2. secRole = Asked(r).role /\ Plain(rows) = Wanted(r)
    BY <2>1 DEF AloneOf, At, ControlOf, Asked, Removal
  <2>3. UNCHANGED <<secRole, rows>>
    <3>1. ~PatchesOnly
      BY DEF PatchesOnly, adminVars, At
    <3>2. PICK q \in Requests : Step(q)
      BY <3>1, Steps, NobodysStep
    <3>3. q = r
      BY <3>2, StepFlow DEF IInv, Flow, OthersStay, At
    <3>4. CASE MapStep(r)
      BY <3>4 DEF MapStep, MappingStep, AskMapping, Arrive, StartMapping, SetRole,
             SetRoleFails, RecordRole, BeginTx, ReadRows, StartUpdate, FinishUpdate,
             CommitTx, TxFails, RecordRows, RemoveRole, RemoveRoleFails, RecordRemoval,
             Done, At, mappingVars
    <3>5. CASE ~MapStep(r)
      BY <3>2, <3>3, <3>5, AdminRests, CreateRests, ActivationRests DEF IInv, Step, Rests
    <3> QED  BY <3>4, <3>5
  <2> QED  BY <2>2, <2>3 DEF Plain
<1> HIDE DEF A
<1>2. Spec => [][A]_<<operation, pc>>
  BY <1>1, Inductive, PTL DEF Spec
<1> QED  BY <1>2 DEF LoneMappingHolds, A

(* A project becomes ACTIVE only when its tenant is, and with every open   *)
(* outlet covered unless something changed after the check.                *)
THEOREM ActivatedAreReady == Spec => ActivatedWhenReady
<1> DEFINE A == \A p \in projects :
         (p.status # "ACTIVE" /\ [p EXCEPT !.status = "ACTIVE"] \in projects')
         => /\ p.tenant \in secActive
            /\ \E r \in Requests :
                 /\ At(r, "activated") /\ ~(At(r, "activated"))'
                 /\ \/ open # {} /\ open \subseteq
                                      {a.scope : a \in {b \in rows : b.role = "PC"}}
                    \/ r \in drifted
<1>1. IInv /\ [Next]_vars => [A]_projects
  <2> SUFFICES ASSUME IInv, [Next]_vars, NEW p \in projects, p.status # "ACTIVE",
                      [p EXCEPT !.status = "ACTIVE"] \in projects'
               PROVE  /\ p.tenant \in secActive
                      /\ \E r \in Requests :
                           /\ At(r, "activated") /\ ~(At(r, "activated"))'
                           /\ \/ open # {} /\ open \subseteq
                                      {a.scope : a \in {b \in rows : b.role = "PC"}}
                              \/ r \in drifted
    OBVIOUS
  <2> DEFINE active == [p EXCEPT !.status = "ACTIVE"]
  <2>1. p \in Project /\ active.status = "ACTIVE" /\ active.tenant = p.tenant
    BY DEF IInv, TypeOK, Project
  <2>2. ASSUME NEW q \in projects, q.tenant = p.tenant
        PROVE  q = p
    BY <2>2 DEF IInv, Truthful
  <2>3. active \notin projects
    BY <2>1, <2>2
  <2> HIDE DEF active
  <2>4. \E r \in Requests : ActivateProject(r) /\ seen[r].tenant = p.tenant
    <3>0. active \in projects'
      BY DEF active
    <3>1. CASE UNCHANGED projects
      BY <2>3, <3>0, <3>1
    <3>2. CASE PatchStep
      <4>1. PICK q \in projects, d \in Details : PatchProject(q, d)
        BY <3>2 DEF PatchStep
      <4>2. /\ projects' = (projects \ {q}) \union {[q EXCEPT !.details = d]}
            /\ [q EXCEPT !.details = d].tenant = q.tenant
            /\ [q EXCEPT !.details = d].status = q.status
        BY <4>1 DEF PatchProject, IInv, TypeOK, Project
      <4>3. active = [q EXCEPT !.details = d]
        BY <2>3, <3>0, <4>2
      <4> QED  BY <2>1, <2>2, <4>2, <4>3
    <3>3. ASSUME NEW r \in Requests, EnsureProject(r), ~UNCHANGED projects
          PROVE  FALSE
      <4>1. \E t, d : projects' = projects \union {NewProject(t, d)}
        BY <3>3 DEF EnsureProject
      <4> QED  BY <2>1, <2>3, <3>0, <4>1 DEF NewProject
    <3>4. ASSUME NEW r \in Requests, ActivateProject(r)
          PROVE  seen[r].tenant = p.tenant
      <4>1. PICK q \in projects :
                active = [q EXCEPT !.status = IF q.tenant = seen[r].tenant
                                              THEN "ACTIVE" ELSE @]
        BY <3>0, <3>4 DEF ActivateProject
      <4>2. q \in Project
        BY DEF IInv, TypeOK
      <4>3. q.tenant = p.tenant
        BY <2>1, <4>1, <4>2 DEF Project
      <4>4. q = p
        BY <2>2, <4>3
      <4> QED  BY <2>1, <4>1, <4>2, <4>4 DEF Project
    <3>5. ASSUME NEW r \in Requests, Step(r), ~UNCHANGED projects
          PROVE  EnsureProject(r) \/ ActivateProject(r)
      BY <3>5 DEF Step, AdminStep, LostStep, CreateStep, MapStep, ActivateStep,
             ProvisionStep, Retry, Create, Resume, CreateTenant, SecurityFails,
             RecordTenant, ProjectionFails, RecordProject, EnsureDi, DiFails, Complete,
             Activate, CheckStructure, CheckCoverage, NotReady, Decline, ActivateTenant,
             provisionVars
    <3> QED  BY <3>1, <3>2, <3>3, <3>4, <3>5, Steps DEF PatchOutlet, vars, provisionVars
  <2>5. PICK r \in Requests : ActivateProject(r) /\ seen[r].tenant = p.tenant
    BY <2>4
  <2>6. At(r, "activated") /\ ~(At(r, "activated"))'
    BY <2>5, LeaveFacts DEF ActivateProject, At, Left, IInv, TypeOK
  <2>7. CheckedOf(r)
    BY DEF IInv, Checked
  <2> QED  BY <2>5, <2>6, <2>7 DEF CheckedOf, At
<1> HIDE DEF A
<1>2. Spec => [][A]_projects
  BY <1>1, Inductive, PTL DEF Spec
<1> QED  BY <1>2 DEF ActivatedWhenReady, A
================================================================================
