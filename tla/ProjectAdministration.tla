------------------------- MODULE ProjectAdministration -------------------------
(***************************************************************************)
(* The administration of projects: provisioning, role mappings and the     *)
(* activation of a project, over one table of administrative operations.   *)
(*                                                                         *)
(* project_activation.py checks that the project is ready (readiness.py)   *)
(* and then activates it in Security and in Audit Core, all of it inside   *)
(* the one database transaction of the request.  The transaction is READ   *)
(* COMMITTED: what a check saw may be gone when the project is activated.  *)
(* The checks of masters and of DI are choices here: each may fail.        *)
(***************************************************************************)
EXTENDS Provisioning, RoleMappings

CONSTANTS
    Outlets,    \* dealer outlets of the project
    Scenarios   \* bound: the kinds of requests that occur in one behaviour, how
                \* many operations and assignment transactions there are at
                \* most, and whether locks lapse: [kinds, ops, txs, lapses]

\* An operation is found by its type and its key: a key of provisioning is none of
\* a mapping.
ASSUME OperationTypesAssumption == ProvisionKeys \intersect MapKeys = {}

VARIABLES
    scenario,   \* the scenario of this behaviour
    secActive,  \* tenants that are ACTIVE in Security
    open,       \* outlets that are ACTIVE
    drifted     \* history: requests whose first check may be outdated

vars == <<adminVars, lapsed, provisionVars, mappingVars, scenario, secActive, open, drifted>>
activationVars == <<scenario, secActive, open, drifted>>

Provisioned(k, d) ==
    [status |-> "COMPLETED", payload |-> d, tenant |-> 1,
     receipts |-> {"SECURITY", "AUDIT_CORE", "DI"}, completed |-> TRUE]

\* Nothing is there yet; or one project is provisioned, and the user is mapped
\* or not.
Init ==
    /\ scenario \in Scenarios
    /\ IF "ACTIVATE" \in scenario.kinds
       THEN \E m \in Mappings \union {Removal} : InitMapped(m)
       ELSE InitMapped(Removal)
    /\ pc = [r \in Requests |-> "idle"] /\ holder = [k \in Keys |-> NoOne]
    /\ job = [r \in Requests |-> NoJob]
    /\ seen = [r \in Requests |-> NoOperation]
    /\ secActive = {} /\ drifted = {} /\ lapsed = {}
    /\ open \in SUBSET {o \in Outlets : "ACTIVATE" \in scenario.kinds}
    /\ IF "CREATE" \in scenario.kinds
       THEN operation = [k \in Keys |-> NoOperation] /\ InitProvision
       ELSE \E k \in ProvisionKeys, d \in Details :
              /\ operation = [x \in Keys |-> IF x = k THEN Provisioned(k, d)
                                             ELSE NoOperation]
              /\ tenants = <<k>> /\ diReady = {1}
              /\ projects = {NewProject(1, d)}

-----------------------------------------------------------------------------
\* activate_project: the transaction begins; the project is found.
Activate(r, p) ==
    /\ At(r, "idle")
    /\ job' = [job EXCEPT ![r].kind = "ACTIVATE"]
    /\ seen' = [seen EXCEPT ![r].tenant = p.tenant]
    /\ tx' = [tx EXCEPT ![r].begun = clock]
    /\ Goto(r, "structure")
    /\ UNCHANGED <<operation, holder, secRole, rows, clock, shared, raced,
                   provisionVars, activationVars>>

\* The requests that have made their first check.
Activating == {r \in Requests : pc[r] \in {"coverage", "activate", "activated"}}

\* The request answers without having changed anything in Audit Core.
Decline(r) ==
    /\ Leave(r)
    /\ EndTx(r)
    /\ drifted' = drifted \ {r}
    /\ UNCHANGED <<operation, secRole, rows, clock, shared, raced,
                   provisionVars, scenario, open>>

CheckStructure(r) ==
    /\ At(r, "structure") /\ open # {}
    /\ Goto(r, "coverage")
    /\ UNCHANGED <<operation, holder, job, seen, provisionVars, mappingVars,
                   activationVars>>

MutCovered(r) == \E a \in Visible(r) : a.role = "PC"

\* Every active outlet has an assigned PC.
Covered(r) == open \subseteq {a.scope : a \in {b \in Visible(r) : b.role = "PC"}}

CheckCoverage(r) ==
    /\ At(r, "coverage") /\ Covered(r)
    /\ Goto(r, "activate")
    /\ UNCHANGED <<operation, holder, job, seen, provisionVars, mappingVars,
                   activationVars>>

\* A check fails: these two, or one of those left out.  All are evaluated, and
\* none changes anything.
NotReady(r) ==
    /\ pc[r] \in {"structure", "coverage", "activate"}
    /\ Decline(r) /\ UNCHANGED secActive

\* Whether activate_tenant answers, and the tenant is ACTIVE by its answer.
GoesOn(r) == seen[r].tenant \in secActive'

\* Security activates the tenant and says so; or it does not, or its answer is
\* lost, and the request ends.
ActivateTenant(r) ==
    /\ At(r, "activate") /\ SecurityOpens
    /\ secActive' \in {secActive, secActive \union {seen[r].tenant}}
    /\ \/ /\ GoesOn(r)
          /\ Goto(r, "activated")
          /\ UNCHANGED <<operation, holder, job, seen, provisionVars, mappingVars,
                         scenario, open, drifted>>
       \/ Decline(r)

\* The project becomes ACTIVE, and the transaction commits.
ActivateProject(r) ==
    /\ At(r, "activated")
    /\ projects' = {[p EXCEPT !.status = IF p.tenant = seen[r].tenant
                                         THEN "ACTIVE" ELSE @] : p \in projects}
    /\ Leave(r)
    /\ EndTx(r)
    /\ drifted' = drifted \ {r}
    /\ UNCHANGED <<operation, secRole, rows, clock, shared, raced,
                   tenants, diReady, scenario, secActive, open>>

\* patch_outlet: the status of an outlet changes.
PatchOutlet(o) ==
    /\ "ACTIVATE" \in scenario.kinds
    /\ open' = IF o \in open THEN open \ {o} ELSE open \union {o}
    /\ drifted' = Activating
    /\ UNCHANGED <<adminVars, lapsed, provisionVars, mappingVars, scenario,
                   secActive>>

-----------------------------------------------------------------------------
\* What the scenario allows.
Within(r) ==
    /\ clock' <= scenario.txs
    /\ lapsed' # {} => scenario.lapses
    /\ At(r, "idle") => job'[r].kind \in scenario.kinds
    /\ Cardinality({k \in Keys : operation'[k].status # "NONE"}) <= scenario.ops

\* A step of the operations' own, of provisioning, of a mapping.
AdminStep(r) ==
    /\ \/ LockLapses(r)
       \/ (TakeLock(r) \/ Claim(r) \/ Replay(r)) /\ UNCHANGED lapsed
    /\ UNCHANGED <<provisionVars, mappingVars, activationVars>>

LostStep(r) ==
    /\ Lost(r)
    /\ EndTx(r)
    /\ Ends(r)
    /\ drifted' = drifted \ {r}
    /\ UNCHANGED <<lapsed, secRole, rows, clock, raced, provisionVars, scenario,
                   secActive, open>>

CreateStep(r) ==
    /\ ProvisionStep(r)
    /\ UNCHANGED <<lapsed, mappingVars, activationVars>>

MapStep(r) ==
    /\ MappingStep(r)
    /\ drifted' = IF rows' = rows THEN drifted ELSE Activating
    /\ UNCHANGED <<lapsed, provisionVars, scenario, secActive, open>>

ActivateStep(r) ==
    /\ \/ \E p \in projects : Activate(r, p)
       \/ CheckStructure(r) \/ CheckCoverage(r) \/ NotReady(r)
       \/ ActivateTenant(r) \/ ActivateProject(r)
    /\ UNCHANGED lapsed

PatchStep ==
    /\ "CREATE" \in scenario.kinds
    /\ \E p \in projects, d \in Details : PatchProject(p, d)
    /\ UNCHANGED <<lapsed, mappingVars, activationVars>>

Step(r) ==
    /\ AdminStep(r) \/ LostStep(r) \/ CreateStep(r) \/ MapStep(r) \/ ActivateStep(r)
    /\ Within(r)

Next ==
    \/ \E r \in Requests : Step(r)
    \/ \E o \in Outlets : PatchOutlet(o)
    \/ PatchStep

Spec == Init /\ [][Next]_vars

-----------------------------------------------------------------------------
Payloads == Details \union Mappings \union {Removal, NoOne}
Receipts == {"SECURITY", "AUDIT_CORE", "DI"}
Operation == [status : OpStatuses, payload : Payloads, tenant : Nat,
              receipts : SUBSET Receipts, completed : BOOLEAN]
Job == [kind : {"-", "CREATE", "RETRY", "PUT", "DELETE", "ACTIVATE"},
        key : Keys \union {NoOne}, payload : Payloads]
Project == [tenant : Nat, details : Payloads, status : {"CONFIGURING", "ACTIVE"}]
RoleNames == {m.role : m \in Mappings \union {Removal}}
Assignment == [from : Nat, role : RoleNames,
               scope : UNION {m.scopes : m \in Mappings}]
Transaction == [begun : Nat, target : SUBSET Assignment, hit : SUBSET Assignment]
ProvisionSteps == {"tenant", "tenantKnown", "project", "projectKnown", "di", "ready"}
MappingSteps == {"setRole", "roleSet", "begin", "read", "update", "hit", "commit",
                 "rowsDone", "removeRole", "roleRemoved"}
ActivationSteps == {"structure", "coverage", "activate", "activated"}

TypeOK ==
    /\ operation \in [Keys -> Operation]
    /\ holder \in [Keys -> Requests \union {NoOne}] /\ lapsed \subseteq Keys
    /\ pc \in [Requests -> {"idle", "lock", "claim", "resume"} \union ProvisionSteps
                            \union MappingSteps \union ActivationSteps]
    /\ job \in [Requests -> Job] /\ seen \in [Requests -> Operation]
    /\ tenants \in Seq(Keys) /\ projects \subseteq Project /\ diReady \subseteq Nat
    /\ secRole \in RoleNames /\ rows \subseteq Assignment /\ clock \in Nat
    /\ tx \in [Requests -> Transaction]
    /\ shared \subseteq Requests /\ raced \in BOOLEAN
    /\ scenario \in Scenarios /\ secActive \subseteq Nat
    /\ open \subseteq Outlets /\ drifted \subseteq Requests

(* A project is ACTIVE in Audit Core only if its tenant is in Security,    *)
(* and becomes ACTIVE with an outlet without a PC only if assignments or   *)
(* outlets changed after the request's first check of them.               *)
ActivatedWhenReady ==
    [][\A p \in projects :
         (p.status # "ACTIVE" /\ [p EXCEPT !.status = "ACTIVE"] \in projects')
         => /\ p.tenant \in secActive
            /\ \E r \in Requests :
                 /\ At(r, "activated") /\ ~(At(r, "activated"))'
                 /\ \/ open # {} /\ open \subseteq
                                      {a.scope : a \in {b \in rows : b.role = "PC"}}
                    \/ r \in drifted
      ]_projects

(* A request that the handlers have answered for leaves its operation      *)
(* finished or marked for recovery, never RUNNING.                         *)
EndsInRecovery ==
    \A k \in Keys : operation[k].status = "RUNNING" =>
        \E r \in Requests : job[r].key = k /\ pc[r] # "lock"
================================================================================
