---------------------------- MODULE WorkflowTasks ----------------------------
(***************************************************************************)
(* The durable task engine: rows of workflow_tasks with their attempts,    *)
(* dead letters and history, driven by the functions of workflow.py and    *)
(* workflow_reliability.py and by the four command routes of tasks_api.py. *)
(*                                                                         *)
(* Each function runs in one READ COMMITTED transaction and changes its    *)
(* task by one conditional UPDATE (or under FOR UPDATE), so it is one      *)
(* action; cancel_workflow_task reads the status first and is two.         *)
(*                                                                         *)
(* Time.  now() is the time a transaction STARTED, so it may trail the     *)
(* clock; each action picks a lag d, at most MaxLag ticks.  Deadlines are  *)
(* kept as the ticks left until they pass: "deadline <= now()" reads       *)
(* "left <= -d", and a deadline set n seconds ahead is left = n - d.  A    *)
(* deadline further back than MaxLag has passed for everybody, so the      *)
(* count stops there.                                                      *)
(*                                                                         *)
(* A worker that crashes is a worker that takes no further step.           *)
(***************************************************************************)
EXTENDS Integers, FiniteSets

CONSTANTS
    Tasks,        \* rows of workflow_tasks
    Workers,      \* worker ids, as stored in lease_owner
    Humans,       \* concurrent cancel requests
    Keys,         \* Idempotency-Key header values
    MaxAttempts,  \* workflow_tasks.max_attempts (5 in the schema)
    LeaseLen,     \* lease_seconds
    RetryDelays,  \* values of retry_after_seconds
    MaxLag,       \* how far a transaction's now() may trail the clock
    RecoverLimit, \* limit of recover_stale_worker_tasks
    NoOne         \* lease_owner IS NULL

ASSUME AttemptsAssumption == MaxAttempts \in Nat \ {0}
ASSUME TimeAssumption ==
    /\ LeaseLen \in Nat \ {0}
    /\ MaxLag \in Nat
    /\ RetryDelays \subseteq Nat
ASSUME LimitAssumption == RecoverLimit \in Nat \ {0}
ASSUME NoOneAssumption == NoOne \notin Workers

VARIABLES
    status,    \* task_status, "NONE" before the row exists
    attempts,  \* attempt_count
    owner,     \* lease_owner
    lease,     \* ticks left until lease_expires_at_utc
    avail,     \* ticks left until available_at_utc
    wait,      \* ticks left until next_attempt_at_utc
    ledger,    \* workflow_task_attempts: ledger[t][attempt_no]
    dead,      \* number of workflow_dead_letters rows of the task
    history,   \* workflow_task_events: how many rows name each to_status
    receipts,  \* idempotency_records of task.complete and task.cancel
    seen       \* what a running cancel request has read: at most one record

vars == <<status, attempts, owner, lease, avail, wait, ledger, dead,
          history, receipts, seen>>

Open     == {"READY", "RETRY_WAIT"}
Held     == {"CLAIMED", "IN_PROGRESS"}
Terminal == {"COMPLETED", "CANCELLED", "DEAD_LETTER"}
Statuses == {"NONE"} \union Open \union Held \union Terminal
Lags     == 0 .. MaxLag
Timer    == {n \in Int : n >= -MaxLag}
Attempt  == [worker : Workers \union {NoOne},
             result : {"NONE", "OPEN", "RETRYABLE_FAILURE", "LEASE_LOST"}]
NoAttempt == [worker |-> NoOne, result |-> "NONE"]

RowsOK ==
    /\ status   \in [Tasks -> Statuses]
    /\ attempts \in [Tasks -> 0 .. MaxAttempts]
    /\ owner    \in [Tasks -> Workers \union {NoOne}]
    /\ lease    \in [Tasks -> Timer]
    /\ avail    \in [Tasks -> Timer]
    /\ wait     \in [Tasks -> Timer]
    /\ ledger   \in [Tasks -> [1 .. MaxAttempts -> Attempt]]
    /\ dead     \in [Tasks -> Nat]
    /\ receipts \subseteq [op : {"COMPLETED", "CANCELLED"}, task : Tasks,
                           key : Keys]
    /\ seen     \in [Humans -> SUBSET [task : Tasks, status : Statuses,
                                       key : Keys]]

HistoryOK == history \in [Tasks -> [Statuses -> Nat]]

\* Every column holds values of its type, and no task has more attempts than
\* its budget.
TypeOK == RowsOK /\ HistoryOK

Init ==
    /\ status   = [t \in Tasks |-> "NONE"]
    /\ attempts = [t \in Tasks |-> 0]
    /\ owner    = [t \in Tasks |-> NoOne]
    /\ lease    = [t \in Tasks |-> -MaxLag]
    /\ avail    = [t \in Tasks |-> -MaxLag]
    /\ wait     = [t \in Tasks |-> -MaxLag]
    /\ ledger   = [t \in Tasks |-> [n \in 1 .. MaxAttempts |-> NoAttempt]]
    /\ dead     = [t \in Tasks |-> 0]
    /\ history  = [t \in Tasks |-> [s \in Statuses |-> 0]]
    /\ receipts = {}
    /\ seen     = [h \in Humans |-> {}]

-----------------------------------------------------------------------------
MutEventOnce(S, to) ==
    history' = [t \in Tasks |->
        IF t \in S THEN [history[t] EXCEPT ![to] = 1] ELSE history[t]]

\* _append_task_event for each task of S.  The rows are counted, not listed:
\* they are read in the order of occurred_at_utc, when their transaction
\* began, which need not be the order in which they came about.
Event(S, to) ==
    history' = [t \in Tasks |->
        IF t \in S THEN [history[t] EXCEPT ![to] = @ + 1] ELSE history[t]]

\* The lease columns are cleared together.
Released(S) ==
    /\ owner' = [t \in Tasks |-> IF t \in S THEN NoOne ELSE owner[t]]
    /\ lease' = [t \in Tasks |-> IF t \in S THEN -MaxLag ELSE lease[t]]

MutEndedAll(S, result) ==
    ledger' = [t \in Tasks |->
        [n \in 1 .. MaxAttempts |->
            IF t \in S /\ n <= attempts[t]
            THEN [worker |-> ledger[t][n].worker, result |-> result]
            ELSE ledger[t][n]]]

MutEndedWrongRow(S, result) ==
    ledger' = [t \in Tasks |->
        [n \in 1 .. MaxAttempts |->
            IF t \in S /\ n = attempts[t] + 1 /\ ledger[t][n].result = "OPEN"
            THEN [worker |-> ledger[t][n].worker, result |-> result]
            ELSE ledger[t][n]]]

\* UPDATE workflow_task_attempts ... WHERE attempt_no = attempt_count
\* AND ended_at_utc IS NULL
Ended(S, result) ==
    ledger' = [t \in Tasks |->
        IF t \in S
        THEN [n \in 1 .. MaxAttempts |->
                IF n = attempts[t] /\ ledger[t][n].result = "OPEN"
                THEN [worker |-> ledger[t][n].worker, result |-> result]
                ELSE ledger[t][n]]
        ELSE ledger[t]]

\* create_workflow_task: available_at_utc defaults to the creator's now().
Create(t, d) ==
    /\ status[t] = "NONE"
    /\ status' = [status EXCEPT ![t] = "READY"]
    /\ avail' = [avail EXCEPT ![t] = -d]
    /\ Event({t}, "READY")
    /\ UNCHANGED <<attempts, owner, lease, wait, ledger, dead, receipts, seen>>

-----------------------------------------------------------------------------
(***************************************************************************)
(* Workers                                                                 *)
(***************************************************************************)
MutClaimableLapsed(t, d) ==
    \/ status[t] \in Open
    \/ status[t] \in Held /\ owner[t] # NoOne /\ lease[t] <= -d

\* The WHERE clause of claim_worker_task.
Claimable(t, d) ==
    /\ status[t] \in Open
    /\ avail[t] <= -d
    /\ status[t] = "READY" \/ wait[t] <= -d
    /\ attempts[t] < MaxAttempts

ClaimWorker(t, w, d) ==
    /\ Claimable(t, d)
    /\ status' = [status EXCEPT ![t] = "CLAIMED"]
    /\ attempts' = [attempts EXCEPT ![t] = @ + 1]
    /\ owner' = [owner EXCEPT ![t] = w]
    /\ lease' = [lease EXCEPT ![t] = LeaseLen - d]
    /\ wait' = [wait EXCEPT ![t] = -MaxLag]
    /\ ledger' = [ledger EXCEPT ![t][attempts[t] + 1] =
                                [worker |-> w, result |-> "OPEN"]]
    /\ Event({t}, "CLAIMED")
    /\ UNCHANGED <<avail, dead, receipts, seen>>

\* The lease check of start and heartbeat: still the owner, not yet expired.
LeaseValid(t, w, d) == owner[t] = w /\ lease[t] > -d

StartWorker(t, w, d) ==
    /\ status[t] = "CLAIMED"
    /\ LeaseValid(t, w, d)
    /\ status' = [status EXCEPT ![t] = "IN_PROGRESS"]
    /\ lease' = [lease EXCEPT ![t] = LeaseLen - d]
    /\ Event({t}, "IN_PROGRESS")
    /\ UNCHANGED <<attempts, owner, avail, wait, ledger, dead, receipts, seen>>

Heartbeat(t, w, d) ==
    /\ status[t] \in Held
    /\ LeaseValid(t, w, d)
    /\ lease' = [lease EXCEPT ![t] = LeaseLen - d]
    /\ UNCHANGED <<status, attempts, owner, avail, wait, ledger, dead,
                   history, receipts, seen>>

MutMayFailClosed(t, w) == owner[t] = w

\* fail_worker_task looks at the owner, not at the expiry.
MayFail(t, w) == status[t] \in Held /\ owner[t] = w

\* fail_worker_task with attempts left, and schedule_worker_retry itself.
FailAndRetry(t, w, d, r) ==
    /\ MayFail(t, w)
    /\ attempts[t] < MaxAttempts
    /\ status' = [status EXCEPT ![t] = "RETRY_WAIT"]
    /\ wait' = [wait EXCEPT ![t] = r - d]
    /\ Released({t})
    /\ Ended({t}, "RETRYABLE_FAILURE")
    /\ Event({t}, "RETRY_WAIT")
    /\ UNCHANGED <<attempts, avail, dead, receipts, seen>>

MutExhaustedEarly(t) == attempts[t] < MaxAttempts

\* The budget check of fail_worker_task.
Exhausted(t) == ~(attempts[t] < MaxAttempts)

\* fail_worker_task with no attempt left.
FailForGood(t, w) ==
    /\ MayFail(t, w)
    /\ Exhausted(t)
    /\ status' = [status EXCEPT ![t] = "DEAD_LETTER"]
    /\ wait' = [wait EXCEPT ![t] = -MaxLag]
    /\ dead' = [dead EXCEPT ![t] = @ + 1]
    /\ Released({t})
    /\ Ended({t}, "RETRYABLE_FAILURE")
    /\ Event({t}, "DEAD_LETTER")
    /\ UNCHANGED <<attempts, avail, receipts, seen>>

MutStaleAnyAttempt(t, d) ==
    status[t] \in Held /\ owner[t] # NoOne /\ lease[t] <= -d

MutStaleEarly(t, d) ==
    /\ status[t] \in Held /\ owner[t] # NoOne
    /\ lease[t] <= d
    /\ attempts[t] < MaxAttempts

MutStaleStartedOnly(t, d) ==
    /\ status[t] = "IN_PROGRESS" /\ owner[t] # NoOne
    /\ lease[t] <= -d
    /\ attempts[t] < MaxAttempts

\* A row the reaper's query selects.  Rows a human claimed have no lease.
Stale(t, d) ==
    /\ status[t] \in Held
    /\ owner[t] # NoOne
    /\ lease[t] <= -d
    /\ attempts[t] < MaxAttempts

\* recover_stale_worker_tasks: SKIP LOCKED may leave out any stale row.
Recover(S, d) ==
    /\ S # {}
    /\ Cardinality(S) <= RecoverLimit
    /\ \A t \in S : Stale(t, d)
    /\ status' = [t \in Tasks |-> IF t \in S THEN "READY" ELSE status[t]]
    /\ wait' = [t \in Tasks |-> IF t \in S THEN -MaxLag ELSE wait[t]]
    /\ Released(S)
    /\ Ended(S, "LEASE_LOST")
    /\ Event(S, "READY")
    /\ UNCHANGED <<attempts, avail, dead, receipts, seen>>

-----------------------------------------------------------------------------
(***************************************************************************)
(* People, through the task routes.  No route asks who holds the task.     *)
(***************************************************************************)
MutTransitionUnchecked(t, expected, next) ==
    /\ status[t] # "NONE"
    /\ status' = [status EXCEPT ![t] = next]
    /\ Event({t}, next)
    /\ UNCHANGED <<attempts, owner, lease, avail, wait, ledger, dead>>

\* _transition_task: WHERE task_status = :expected_status
Transition(t, expected, next) ==
    /\ status[t] = expected
    /\ status' = [status EXCEPT ![t] = next]
    /\ Event({t}, next)
    /\ UNCHANGED <<attempts, owner, lease, avail, wait, ledger, dead>>

HumanClaim(t) == Transition(t, "READY", "CLAIMED") /\ UNCHANGED <<receipts, seen>>

HumanStart(t) ==
    Transition(t, "CLAIMED", "IN_PROGRESS") /\ UNCHANGED <<receipts, seen>>

\* execute_idempotent_json_command: a key that has a receipt is replayed and
\* changes nothing; otherwise the command and its receipt commit together.
Fresh(op, t, k) == [op |-> op, task |-> t, key |-> k] \notin receipts

Receipt(op, t, k) ==
    receipts' = receipts \union {[op |-> op, task |-> t, key |-> k]}

\* Also how a worker's finished work would be recorded: there is no other
\* completion in the code, and this one asks for no lease.
Complete(t, k) ==
    /\ Fresh("COMPLETED", t, k)
    /\ Transition(t, "IN_PROGRESS", "COMPLETED")
    /\ Receipt("COMPLETED", t, k)
    /\ UNCHANGED seen

\* cancel_workflow_task reads the status without a lock ...
CancelRead(h, t, k) ==
    /\ seen[h] = {}
    /\ Fresh("CANCELLED", t, k)
    /\ \A g \in Humans : \A s \in seen[g] : ~(s.task = t /\ s.key = k)
    /\ status[t] \in Open \union Held
    /\ seen' = [seen EXCEPT ![h] =
                  {[task |-> t, status |-> status[t], key |-> k]}]
    /\ UNCHANGED <<status, attempts, owner, lease, avail, wait, ledger, dead,
                   history, receipts>>

\* ... and transitions from the status it read.
CancelWrite(h) ==
    \E s \in seen[h] :
        /\ Transition(s.task, s.status, "CANCELLED")
        /\ Receipt("CANCELLED", s.task, s.key)
        /\ seen' = [seen EXCEPT ![h] = {}]

\* The status moved in between: 409 and the transaction rolls back.
CancelConflict(h) ==
    /\ \E s \in seen[h] : status[s.task] # s.status
    /\ seen' = [seen EXCEPT ![h] = {}]
    /\ UNCHANGED <<status, attempts, owner, lease, avail, wait, ledger, dead,
                   history, receipts>>

-----------------------------------------------------------------------------
Older(timer) ==
    [t \in Tasks |-> IF timer[t] > -MaxLag THEN timer[t] - 1 ELSE timer[t]]

\* A second passes.
Tick ==
    /\ lease' = Older(lease)
    /\ avail' = Older(avail)
    /\ wait' = Older(wait)
    /\ UNCHANGED <<status, attempts, owner, ledger, dead, history, receipts,
                   seen>>

WorkerNext ==
    \E t \in Tasks, w \in Workers, d \in Lags :
        \/ ClaimWorker(t, w, d)
        \/ StartWorker(t, w, d)
        \/ Heartbeat(t, w, d)
        \/ \E r \in RetryDelays : FailAndRetry(t, w, d, r)
        \/ FailForGood(t, w)

HumanNext ==
    \/ \E t \in Tasks : HumanClaim(t) \/ HumanStart(t)
    \/ \E t \in Tasks, k \in Keys : Complete(t, k)
    \/ \E h \in Humans, t \in Tasks, k \in Keys : CancelRead(h, t, k)
    \/ \E h \in Humans : CancelWrite(h) \/ CancelConflict(h)

Next ==
    \/ \E t \in Tasks, d \in Lags : Create(t, d)
    \/ WorkerNext
    \/ \E S \in SUBSET Tasks, d \in Lags : Recover(S, d)
    \/ HumanNext
    \/ Tick

Spec == Init /\ [][Next]_vars

\* Time passes and the reaper is run again and again; nothing is assumed of
\* workers and people, who may crash or go home.
RecoverTask(t) == \E S \in SUBSET Tasks, d \in Lags : t \in S /\ Recover(S, d)
FairSpec ==
    /\ Spec
    /\ WF_vars(Tick)
    /\ \A t \in Tasks : WF_vars(RecoverTask(t))
-----------------------------------------------------------------------------
(***************************************************************************)
(* Properties                                                              *)
(***************************************************************************)
\* A task in the queue can really be taken: no lease is left on it, no
\* attempt is left open and at least one attempt remains (otherwise
\* claim_worker_task would refuse it for ever, with nobody told).
QueuedIsClaimable ==
    \A t \in Tasks : status[t] \in Open =>
        /\ owner[t] = NoOne
        /\ attempts[t] < MaxAttempts

\* The attempt ledger agrees with the task row: exactly the attempts
\* 1 .. attempt_count exist, all but the last are closed, and the last one is
\* open exactly while a worker is the lease owner, and is that worker's.
LedgerMatchesLease ==
    \A t \in Tasks, n \in 1 .. MaxAttempts :
        /\ (ledger[t][n].result = "NONE") <=> (n > attempts[t])
        /\ ledger[t][n].result = "OPEN" =>
              /\ n = attempts[t]
              /\ owner[t] = ledger[t][n].worker
              /\ owner[t] # NoOne
        /\ n = attempts[t] /\ owner[t] # NoOne => ledger[t][n].result = "OPEN"

\* A task is dead-lettered exactly when it has one dead-letter row, and only
\* after the whole attempt budget was spent.
DeadLetterExact ==
    \A t \in Tasks :
        /\ dead[t] = (IF status[t] = "DEAD_LETTER" THEN 1 ELSE 0)
        /\ status[t] = "DEAD_LETTER" => attempts[t] = MaxAttempts

\* What the ledger says each attempt ended with.
EndedWith(t, result) == {n \in 1 .. MaxAttempts : ledger[t][n].result = result}

\* A person holds the task: it is held, and not on a lease.
HeldByPerson(t) == status[t] \in Held /\ owner[t] = NoOne

\* The history tells the same as the row and the ledger, in whatever order its
\* rows are read: a task became ready when it was created and whenever a lease
\* was lost, it waited or was buried once for every failure, it reached its
\* end once, and it was claimed once for every attempt, and by the person who
\* holds it.
HistoryAddsUp ==
    \A t \in Tasks :
        /\ history[t]["READY"] = (IF status[t] = "NONE" THEN 0 ELSE 1)
                                  + Cardinality(EndedWith(t, "LEASE_LOST"))
        /\ history[t]["RETRY_WAIT"] + history[t]["DEAD_LETTER"]
              = Cardinality(EndedWith(t, "RETRYABLE_FAILURE"))
        /\ \A s \in Terminal : history[t][s] = (IF status[t] = s THEN 1 ELSE 0)
        /\ status[t] \notin Terminal =>
              history[t]["CLAIMED"] =
                  attempts[t] + (IF HeldByPerson(t) THEN 1 ELSE 0)

\* A stored success response of complete or cancel is still true, whatever
\* happened since, and no task was completed or cancelled under two keys.
ReceiptsTruthful ==
    /\ \A r \in receipts : status[r.task] = r.op
    /\ \A r, s \in receipts : r.task = s.task => r = s

\* A worker loses its lease in one of two ways: it reports a failure itself,
\* or the reaper found the lease expired by the real clock.
EvictedOnlyAfterExpiry ==
    [][\A t \in Tasks : owner[t] # NoOne /\ owner'[t] # owner[t] =>
          \/ lease[t] <= 0
          \/ ledger'[t][attempts[t]].result = "RETRYABLE_FAILURE"]_vars

\* What an attempt ended with is never rewritten, and an attempt number is
\* never used again, by however slow a worker.
LedgerIsAppendOnly ==
    [][\A t \in Tasks, n \in 1 .. MaxAttempts :
          ledger[t][n].result \notin {"NONE", "OPEN"} =>
              ledger'[t][n] = ledger[t][n]]_vars

\* The lease has run out for every transaction that can still be open.
LeaseRanOut(t) ==
    status[t] \in Held /\ owner[t] # NoOne /\ lease[t] = -MaxLag

\* Work of a crashed worker comes back while attempts remain.
StaleLeaseIsRecovered ==
    \A t \in Tasks :
        LeaseRanOut(t) /\ attempts[t] < MaxAttempts ~> ~LeaseRanOut(t)

\* "Retry state is persisted; exhausted work moves to a visible dead-letter/
\* failed state": also when the worker of the last attempt crashed.
ExhaustedIsDeadLettered ==
    \A t \in Tasks :
        LeaseRanOut(t) /\ attempts[t] = MaxAttempts ~> status[t] \in Terminal

-----------------------------------------------------------------------------
(***************************************************************************)
(* The task engine keeps the promise of TaskPromise.                       *)
(***************************************************************************)
PhaseOf(s) ==
    CASE s = "NONE"      -> "absent"
      [] s \in Open     -> "open"
      [] s \in Held     -> "held"
      [] s \in Terminal -> "closed"

phase == [t \in Tasks |-> PhaseOf(status[t])]

Promise == INSTANCE TaskPromise WITH tries <- attempts
PromiseKept == Promise!PromiseSpec
=============================================================================
