----------------------------- MODULE RoleMappings ------------------------------
(***************************************************************************)
(* role_mappings.py: what one user may do in one project.  A mapping is    *)
(* kept in two places: the operating role in Security, and the business    *)
(* assignments (role and scope) in Audit Core.  PUT sets Security first,   *)
(* DELETE clears it last; each is an administrative operation of its own   *)
(* key, so two mappings of one user hold different locks.                  *)
(*                                                                         *)
(* The assignments are replaced in one READ COMMITTED transaction, whose   *)
(* statements see what is committed when each of them starts, and whose    *)
(* now() is the time it began.  Time is the count of transactions begun.   *)
(*                                                                         *)
(* The policy of role_mapping_policy.py, which replaces _resolve_scope, is *)
(* in the constant Mappings: a role with the scopes it takes.              *)
(***************************************************************************)
EXTENDS AdminOperations

CONSTANTS
    MapKeys,   \* the keys of role-mapping operations
    Mappings   \* what is asked for: [role, scopes]; Removal asks for none

Removal == [role |-> "NONE", scopes |-> {}]

ASSUME MapKeysAssumption == MapKeys \subseteq Keys /\ Removal \notin Mappings

VARIABLES
    secRole,  \* the user's operating role in Security
    rows,     \* the user's ACTIVE business_assignments: [from, role, scope]
    clock,    \* transactions begun
    tx,       \* tx[r]: the open transaction of r
    shared,   \* history: running mappings that overlapped with another
    raced     \* history: transactions overlapped since a mapping was alone

mappingVars == <<secRole, rows, clock, tx, shared, raced>>

NoTx == [begun |-> 0, target |-> {}, hit |-> {}]

InitMapped(m) ==
    /\ secRole = m.role
    /\ rows = {[from |-> 0, role |-> m.role, scope |-> s] : s \in m.scopes}
    /\ clock = 0
    /\ tx = [r \in Requests |-> NoTx]
    /\ shared = {} /\ raced = FALSE

Asked(r) == job[r].payload
IsMapping(r) == job[r].kind \in {"PUT", "DELETE"}
Running(r) == IsMapping(r) /\ pc[r] \notin {"lock", "claim", "resume"}
EndTx(r) == tx' = [tx EXCEPT ![r] = NoTx]

-----------------------------------------------------------------------------
\* put_role_mapping and delete_role_mapping.
AskMapping(r, k, m) ==
    /\ Arrive(r, IF m = Removal THEN "DELETE" ELSE "PUT", k, m)
    /\ UNCHANGED <<operation, holder, seen, mappingVars>>

MutFirst(r) ==
    IF job[r].kind = "DELETE" \/ "SECURITY" \in seen[r].receipts
    THEN "begin" ELSE "setRole"

\* Where the saga starts, and starts again: receipts are not looked at.
First(r) == IF job[r].kind = "DELETE" THEN "begin" ELSE "setRole"

StartMapping(r) ==
    LET others == {q \in Requests \ {r} : Running(q)} IN
    /\ At(r, "resume") /\ IsMapping(r)
    /\ seen[r].status # "COMPLETED"
    /\ Report(r, "RUNNING", {})
    /\ Goto(r, First(r))
    /\ seen' = [seen EXCEPT ![r] = NoOperation]  \* not looked at again
    /\ shared' = IF others = {} THEN shared ELSE shared \union others \union {r}
    /\ UNCHANGED <<holder, job, secRole, rows, clock, tx, raced>>

\* The request ends with the status it reports.
Ends(r) == shared' = shared \ {r}

EndAs(r, status) ==
    /\ Report(r, status, {})
    /\ Leave(r)
    /\ Ends(r)

SetRole(r) ==
    /\ At(r, "setRole") /\ SecurityOpens
    /\ secRole' = Asked(r).role
    /\ \/ Goto(r, "roleSet") /\ UNCHANGED <<operation, holder, job, seen, shared>>
       \/ EndAs(r, "RECOVERY_REQUIRED")  \* no or another answer
    /\ UNCHANGED <<rows, clock, tx, raced>>

\* _handle_security_put_failure: unavailable, or refused (4xx).
SetRoleFails(r) ==
    /\ At(r, "setRole") /\ SecurityOpens
    /\ \E status \in {"RECOVERY_REQUIRED", "FAILED"} : EndAs(r, status)
    /\ UNCHANGED <<secRole, rows, clock, tx, raced>>

RecordRole(r) ==
    /\ At(r, "roleSet")
    /\ Report(r, "RUNNING", {"SECURITY"})
    /\ Goto(r, "begin")
    /\ UNCHANGED <<holder, job, seen, mappingVars>>

-----------------------------------------------------------------------------
\* _replace_assignments and _deactivate_assignments, a statement at a time.
OpenTxs == {r \in Requests : IsMapping(r) /\ tx[r] # NoTx}

BeginTx(r) ==
    /\ At(r, "begin")
    /\ clock' = clock + 1
    /\ tx' = [tx EXCEPT ![r].begun = clock + 1]
    /\ raced' = (raced \/ OpenTxs # {})
    /\ Goto(r, IF job[r].kind = "DELETE" THEN "update" ELSE "read")
    /\ UNCHANGED <<operation, holder, job, seen, secRole, rows, shared>>

Wanted(r) == {[role |-> Asked(r).role, scope |-> s] : s \in Asked(r).scopes}
NewRows(r) == {[from |-> tx[r].begun, role |-> Asked(r).role, scope |-> s] :
                   s \in Asked(r).scopes}

\* _active_assignment_rows: assignments of a later transaction are not yet
\* effective for this one.
Visible(r) == {a \in rows : a.from <= tx[r].begun}

AsAsked(r) ==
    /\ Cardinality(Visible(r)) = Cardinality(Wanted(r))
    /\ {[role |-> a.role, scope |-> a.scope] : a \in Visible(r)} = Wanted(r)

ReadRows(r) ==
    /\ At(r, "read")
    /\ IF AsAsked(r)
       THEN Goto(r, "rowsDone") /\ EndTx(r)
       ELSE Goto(r, "update") /\ UNCHANGED tx
    /\ UNCHANGED <<operation, holder, job, seen, secRole, rows, clock, shared, raced>>

MutTargets(r) == {a \in rows : a.scope \in Asked(r).scopes}

\* What the UPDATE finds when it starts.
Targets(r) == rows

StartUpdate(r) ==
    /\ At(r, "update")
    /\ tx' = [tx EXCEPT ![r].target = Targets(r)]
    /\ Goto(r, "hit")
    /\ UNCHANGED <<operation, holder, job, seen, secRole, rows, clock, shared, raced>>

\* The UPDATE waits for rows another transaction holds, and then takes those
\* that are still active.  One that begins later than this transaction would
\* end before it began: the CHECK on effective_to refuses the statement.
FinishUpdate(r) ==
    LET hit == tx[r].target \intersect rows IN
    /\ At(r, "hit")
    /\ \A q \in Requests \ {r} : tx[q].hit \intersect hit = {}
    /\ IF \E a \in hit : a.from > tx[r].begun
       THEN EndAs(r, "RECOVERY_REQUIRED") /\ EndTx(r)
       ELSE /\ tx' = [tx EXCEPT ![r].hit = hit]
            /\ Goto(r, "commit")
            /\ UNCHANGED <<operation, holder, job, seen, shared>>
    /\ UNCHANGED <<secRole, rows, clock, raced>>

\* The new rows are inserted, and the transaction commits.
CommitTx(r) ==
    /\ At(r, "commit")
    /\ rows' = (rows \ tx[r].hit) \union NewRows(r)
    /\ EndTx(r)
    /\ Goto(r, "rowsDone")
    /\ UNCHANGED <<operation, holder, job, seen, secRole, clock, shared, raced>>

TxFails(r) ==
    /\ pc[r] \in {"begin", "read", "update", "hit", "commit"}
    /\ EndAs(r, "RECOVERY_REQUIRED")
    /\ EndTx(r)
    /\ UNCHANGED <<secRole, rows, clock, raced>>

-----------------------------------------------------------------------------
\* The mapping is done; the history variables restart if it was alone.
Done(r, receipt) ==
    /\ Report(r, "COMPLETED", {receipt})
    /\ Leave(r)
    /\ Ends(r)
    /\ raced' = (raced /\ r \in shared)
    /\ UNCHANGED <<secRole, rows, clock, tx>>

RecordRows(r) ==
    /\ At(r, "rowsDone")
    /\ IF job[r].kind = "PUT"
       THEN Done(r, "AUDIT_CORE")
       ELSE /\ Report(r, "RUNNING", {"AUDIT_CORE"})
            /\ Goto(r, "removeRole")
            /\ UNCHANGED <<holder, job, seen, mappingVars>>

RemoveRole(r) ==
    /\ At(r, "removeRole") /\ SecurityOpens
    /\ secRole' = "NONE"
    /\ \/ Goto(r, "roleRemoved") /\ UNCHANGED <<operation, holder, job, seen, shared>>
       \/ EndAs(r, "RECOVERY_REQUIRED")
    /\ UNCHANGED <<rows, clock, tx, raced>>

RemoveRoleFails(r) ==
    /\ At(r, "removeRole") /\ SecurityOpens
    /\ EndAs(r, "RECOVERY_REQUIRED")
    /\ UNCHANGED <<secRole, rows, clock, tx, raced>>

RecordRemoval(r) == At(r, "roleRemoved") /\ Done(r, "SECURITY")

MappingStep(r) ==
    \/ \E k \in MapKeys, m \in Mappings \union {Removal} : AskMapping(r, k, m)
    \/ StartMapping(r)
    \/ SetRole(r) \/ SetRoleFails(r) \/ RecordRole(r)
    \/ BeginTx(r) \/ ReadRows(r) \/ StartUpdate(r) \/ FinishUpdate(r)
    \/ CommitTx(r) \/ TxFails(r) \/ RecordRows(r)
    \/ RemoveRole(r) \/ RemoveRoleFails(r) \/ RecordRemoval(r)

-----------------------------------------------------------------------------
Roles == {a.role : a \in rows}

(* A mapping that completes, and overlapped with no other mapping of the   *)
(* user, leaves exactly what was asked for in both places, whatever        *)
(* earlier mappings failed half-way and whatever receipts its own earlier  *)
(* attempts left: that is why put_role_mapping starts again at Security.   *)
LoneMappingHolds ==
    [][\A r \in Requests :
         (/\ \/ At(r, "rowsDone") /\ job[r].kind = "PUT"
             \/ At(r, "roleRemoved")
          /\ operation'[Key(r)].status = "COMPLETED" /\ pc'[r] = "idle"
          /\ r \notin shared)
         => /\ secRole' = Asked(r).role
            /\ {[role |-> a.role, scope |-> a.scope] : a \in rows'} = Wanted(r)
      ]_<<operation, pc>>

(* A user has active assignments of two roles, which every later read of   *)
(* the mapping refuses, only if two replacements of the user's assignments *)
(* overlapped, and no mapping has been alone since.                        *)
TwoRolesWereRaced == Cardinality(Roles) > 1 => raced
================================================================================
