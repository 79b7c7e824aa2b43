----------------------------- MODULE AuditReview -----------------------------
(***************************************************************************)
(* The audit of one journey: the commands start_audit, submit_audit and    *)
(* create_review_decision of audit_review.py, run by concurrent requests,  *)
(* with execute_idempotent_json_command (idempotency.py) around the last   *)
(* two and append_audit_event (audit_events.py) inside all three.          *)
(*                                                                         *)
(* A request is one READ COMMITTED transaction.  It takes three locks in   *)
(* turn and keeps them until it ends: the advisory lock of its key, the    *)
(* journey row (by the UPDATE) and the chain head (SELECT ... FOR UPDATE). *)
(* What it writes becomes visible when it commits; a request may be lost   *)
(* at any step (crash, statement_timeout, failed insert) and leaves        *)
(* nothing.  A client repeats a command by beginning again with its key.   *)
(***************************************************************************)
EXTENDS Integers, FiniteSets

CONSTANTS
    Requests,   \* transactions that may run at the same time
    Keys,       \* Idempotency-Key header values
    Decisions,  \* values of ReviewDecisionInput.decision
    MaxEvents   \* bound of the model: commands begun on the journey

ASSUME DecisionsAssumption ==
    Decisions \subseteq {"BREACH", "NO_BREACH", "SEND_BACK"}
ASSUME BoundAssumption == MaxEvents \in Nat

VARIABLES
    state,     \* journeys.audit_state
    outcome,   \* journeys.audit_outcome
    events,    \* audit_events of the journey
    head,      \* audit_chain_heads row: last_sequence_no, last_event_hash
    outbox,    \* number of outbox_events rows
    tasks,     \* number of workflow tasks created, by task_type
    decided,   \* number of review_decisions rows
    receipts,  \* idempotency_records, with the request they were stored for
    pc,        \* pc[r]: the statement request r runs next
    cmd,       \* cmd[r]: the command of request r
    link       \* link[r]: the chain head request r read under its lock

vars == <<state, outcome, events, head, outbox, tasks, decided, receipts, pc,
          cmd, link>>
committed == <<state, outcome, events, head, outbox, tasks, decided, receipts>>

\* A command: "-" stands for the decision or the key a command has not.
Commands ==
    [op : {"START"}, decision : {"-"}, key : {"-"}]
        \union [op : {"SUBMIT"}, decision : {"-"}, key : Keys]
        \union [op : {"DECIDE"}, decision : Decisions, key : Keys]
NoCommand == [op |-> "NONE", decision |-> "-", key |-> "-"]
Idempotent(c) == c.op # "START"
SameScope(c, d) == c.op = d.op /\ c.key = d.key

\* SHA-256 over the previous hash and the payload, taken to be injective.
NoHash == <<>>
NoLink == [seq |-> 0, hash |-> NoHash]
Hash(previous, payload) == <<previous, payload>>

States == {"NOT_STARTED", "IN_PROGRESS", "PC_SUBMITTED", "SENT_BACK",
           "REVIEW_COMPLETE"}
Steps  == {"idle", "locking", "reading", "writing", "logging", "committing"}

-----------------------------------------------------------------------------
\* The states each handler accepts ...  (TL_REVIEW and PM_REVIEW are accepted
\* too, but no code writes them.)
Accepts(c) ==
    CASE c.op = "START"  -> {"NOT_STARTED", "IN_PROGRESS"}
      [] c.op = "SUBMIT" -> {"IN_PROGRESS", "SENT_BACK"}
      [] c.op = "DECIDE" -> {"PC_SUBMITTED"}

\* ... and the state, outcome and task its UPDATE and INSERTs write.
Target(c) ==
    CASE c.op = "START"             -> "IN_PROGRESS"
      [] c.op = "SUBMIT"            -> "PC_SUBMITTED"
      [] c.decision = "SEND_BACK"   -> "SENT_BACK"
      [] OTHER                      -> "REVIEW_COMPLETE"

MutOutcome(c) ==
    CASE c.op = "START"  -> outcome
      [] c.op = "SUBMIT" -> "PENDING"
      [] c.op = "DECIDE" -> c.decision

Outcome(c) ==
    CASE c.op = "START"             -> outcome
      [] c.op = "SUBMIT"            -> "PENDING"
      [] c.decision = "SEND_BACK"   -> "PENDING"
      [] OTHER                      -> c.decision

MutTasksAfter(c) ==
    [tasks EXCEPT !["TL_REVIEW"] = @ + (IF c.op = "SUBMIT" THEN 1 ELSE 0)]

TasksAfter(c) ==
    [tasks EXCEPT
        !["TL_REVIEW"] = @ + (IF c.op = "SUBMIT" THEN 1 ELSE 0),
        !["PC_CORRECTION"] = @ + (IF c.decision = "SEND_BACK" THEN 1 ELSE 0)]

-----------------------------------------------------------------------------
Init ==
    /\ state = "NOT_STARTED"
    /\ outcome = "PENDING"
    /\ events = {}
    /\ head = NoLink
    /\ outbox = 0
    /\ tasks = [k \in {"TL_REVIEW", "PC_CORRECTION"} |-> 0]
    /\ decided = 0
    /\ receipts = {}
    /\ pc = [r \in Requests |-> "idle"]
    /\ cmd = [r \in Requests |-> NoCommand]
    /\ link = [r \in Requests |-> NoLink]

\* Locks, read off how far each request has got.
HasKeyLock(r) ==
    Idempotent(cmd[r]) /\ pc[r] \in {"reading", "writing", "logging", "committing"}
HasRowLock(r)  == pc[r] \in {"logging", "committing"}
HasHeadLock(r) == pc[r] = "committing"

Goto(r, step) == pc' = [pc EXCEPT ![r] = step] /\ UNCHANGED cmd

\* The transaction is over: its locks and what it had read are gone.
End(r) ==
    /\ pc' = [pc EXCEPT ![r] = "idle"]
    /\ cmd' = [cmd EXCEPT ![r] = NoCommand]
    /\ link' = [link EXCEPT ![r] = NoLink]

\* A request arrives.  The bound counts the requests that may still commit.
Begin(r, c) ==
    /\ pc[r] = "idle"
    /\ Cardinality(events) + Cardinality({q \in Requests : pc[q] # "idle"})
          < MaxEvents
    /\ cmd' = [cmd EXCEPT ![r] = c]
    /\ pc' = [pc EXCEPT ![r] = IF Idempotent(c) THEN "locking" ELSE "reading"]
    /\ UNCHANGED <<committed, link>>

MutStored(r) == {d \in receipts : d = cmd[r]}

\* The stored record a request finds once it has the lock of its key.
Stored(r) == {d \in receipts : SameScope(d, cmd[r])}

\* pg_advisory_xact_lock(tenant:operation:key)
KeyLockFree(r) ==
    \A q \in Requests \ {r} : ~(HasKeyLock(q) /\ SameScope(cmd[q], cmd[r]))

TakeKeyLock(r) ==
    /\ pc[r] = "locking"
    /\ KeyLockFree(r)
    /\ Stored(r) = {}
    /\ Goto(r, "reading")
    /\ UNCHANGED <<committed, link>>

\* Known key: the stored response is replayed, or the request differs and is
\* refused (VAC-CONFLICT-003).  Either way the request ends here.
Replay(r) ==
    /\ pc[r] = "locking"
    /\ KeyLockFree(r)
    /\ Stored(r) # {}
    /\ End(r)
    /\ UNCHANGED committed

\* The handler reads the state, without a lock, and decides on it.
ReadState(r) ==
    /\ pc[r] = "reading"
    /\ \/ state \in Accepts(cmd[r]) /\ Goto(r, "writing") /\ UNCHANGED link
       \/ state \notin Accepts(cmd[r]) /\ End(r)
    /\ UNCHANGED committed

\* UPDATE auditcore.journeys: waits for the row, but has no state in its WHERE.
WriteJourney(r) ==
    /\ pc[r] = "writing"
    /\ \A q \in Requests \ {r} : ~HasRowLock(q)
    /\ Goto(r, "logging")
    /\ UNCHANGED <<committed, link>>

\* append_audit_event: the head is read under its lock.
LockHead(r) ==
    /\ pc[r] = "logging"
    /\ \A q \in Requests \ {r} : ~HasHeadLock(q)
    /\ link' = [link EXCEPT ![r] = head]
    /\ Goto(r, "committing")
    /\ UNCHANGED committed

\* The audit_events row: "key" is not a column, it says whose effect it is.
NewEvent(r) ==
    [seq  |-> link[r].seq + 1,
     cmd  |-> cmd[r],
     to   |-> Target(cmd[r]),
     prev |-> link[r].hash,
     hash |-> Hash(link[r].hash, <<link[r].seq + 1, Target(cmd[r])>>)]

MutNewHead(r) == head

\* UPDATE auditcore.audit_chain_heads
NewHead(r) == [seq |-> NewEvent(r).seq, hash |-> NewEvent(r).hash]

\* INSERT INTO idempotency_records, in the same transaction as the effect.
NewReceipts(c) == IF Idempotent(c) THEN receipts \union {c} ELSE receipts

Commit(r) ==
    /\ pc[r] = "committing"
    /\ state' = Target(cmd[r])
    /\ outcome' = Outcome(cmd[r])
    /\ decided' = decided + (IF cmd[r].op = "DECIDE" THEN 1 ELSE 0)
    /\ tasks' = TasksAfter(cmd[r])
    /\ events' = events \union {NewEvent(r)}
    /\ head' = NewHead(r)
    /\ outbox' = outbox + 1
    /\ receipts' = NewReceipts(cmd[r])
    /\ End(r)

\* Lost before the commit: the transaction rolls back and its locks are freed.
Abort(r) ==
    /\ pc[r] # "idle"
    /\ End(r)
    /\ UNCHANGED committed

Next ==
    \E r \in Requests :
        \/ \E c \in Commands : Begin(r, c)
        \/ TakeKeyLock(r)
        \/ Replay(r)
        \/ ReadState(r)
        \/ WriteJourney(r)
        \/ LockHead(r)
        \/ Commit(r)
        \/ Abort(r)

Spec == Init /\ [][Next]_vars
-----------------------------------------------------------------------------
TypeOK ==
    /\ state \in States
    /\ outcome \in {"PENDING", "BREACH", "NO_BREACH"}
    /\ \A e \in events : /\ e.seq \in Nat \ {0}
                         /\ e.cmd \in Commands
                         /\ e.to \in States
    /\ head.seq \in Nat
    /\ outbox \in Nat
    /\ tasks \in [{"TL_REVIEW", "PC_CORRECTION"} -> Nat]
    /\ decided \in Nat
    /\ receipts \subseteq Commands
    /\ pc \in [Requests -> Steps]
    /\ \A r \in Requests :
          /\ cmd[r] \in (IF pc[r] = "idle" THEN {NoCommand} ELSE Commands)
          /\ link[r].seq \in Nat

\* The audit trail of the journey is one unbroken hash chain: sequence numbers
\* 1 .. last_sequence_no, each once, every event sealing the one before it,
\* and the head pointing at the last.  Concurrent writers never fork it.
ChainIntact ==
    /\ {e.seq : e \in events} = 1 .. head.seq
    /\ \A e, f \in events : e.seq = f.seq => e = f
    /\ \A e \in events : e.hash = Hash(e.prev, <<e.seq, e.to>>)
    /\ \A e \in events : e.seq = 1 => e.prev = NoHash
    /\ \A e, f \in events : f.seq = e.seq + 1 => f.prev = e.hash
    /\ \A e \in events : e.seq = head.seq => e.hash = head.hash
    /\ head.seq = 0 => head.hash = NoHash

\* An Idempotency-Key has at most one effect, however often and however
\* concurrently the command is repeated, and a stored response always stands
\* for an effect that is in the trail.
OneEffectPerKey ==
    /\ \A e, f \in events :
          Idempotent(e.cmd) /\ SameScope(e.cmd, f.cmd) => e = f
    /\ receipts = {e.cmd : e \in {f \in events : Idempotent(f.cmd)}}

\* The journey row, the trail, the outbox, the tasks and the decisions tell
\* the same story: every event has its outbox row, its task and its decision,
\* and the state is the one the last event announced.
TrailTellsEverything ==
    /\ outbox = Cardinality(events)
    /\ decided = Cardinality({e \in events : e.cmd.op = "DECIDE"})
    /\ tasks["TL_REVIEW"] = Cardinality({e \in events : e.cmd.op = "SUBMIT"})
    /\ tasks["PC_CORRECTION"] =
          Cardinality({e \in events : e.to = "SENT_BACK"})
    /\ \A e \in events : e.seq = head.seq => state = e.to

\* "Review decision requires submitted or active review work": a completed
\* review is not decided, sent back or restarted again.
CompletedReviewIsFinal ==
    [][state = "REVIEW_COMPLETE" => UNCHANGED <<state, outcome>>]_vars
=============================================================================
