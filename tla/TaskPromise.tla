----------------------------- MODULE TaskPromise -----------------------------
(***************************************************************************)
(* What the durable task engine promises to the rest of Audit Core, with   *)
(* no leases, clocks, workers or history: a task that was created stays    *)
(* until somebody closes it, is taken only from the queue and so by one    *)
(* party at a time (a person may close it whoever has it), goes back to    *)
(* the queue only while it has tries left, never exceeds its budget of     *)
(* tries, and is never reopened.                                           *)
(***************************************************************************)
EXTENDS Naturals

CONSTANTS
    Tasks,       \* rows of workflow_tasks
    MaxAttempts  \* workflow_tasks.max_attempts

VARIABLES
    phase,  \* phase[t]: "absent", "open", "held" or "closed"
    tries   \* tries[t]: how many worker executions were begun

promiseVars == <<phase, tries>>

PromiseInit ==
    /\ phase = [t \in Tasks |-> "absent"]
    /\ tries = [t \in Tasks |-> 0]

Appear(t) ==
    /\ phase[t] = "absent"
    /\ phase' = [phase EXCEPT ![t] = "open"]
    /\ UNCHANGED tries

\* A worker takes a task and spends a try.
TakeByWorker(t) ==
    /\ phase[t] = "open"
    /\ tries[t] < MaxAttempts
    /\ phase' = [phase EXCEPT ![t] = "held"]
    /\ tries' = [tries EXCEPT ![t] = @ + 1]

\* A person takes a task: no try is spent.
TakeByHuman(t) ==
    /\ phase[t] = "open"
    /\ phase' = [phase EXCEPT ![t] = "held"]
    /\ UNCHANGED tries

\* Held tasks go back to the queue, several at once when a reaper does it,
\* and only while they have tries left.
GiveBack(S) ==
    /\ \A t \in S : phase[t] = "held" /\ tries[t] < MaxAttempts
    /\ phase' = [t \in Tasks |-> IF t \in S THEN "open" ELSE phase[t]]
    /\ UNCHANGED tries

Close(t) ==
    /\ phase[t] \in {"open", "held"}
    /\ phase' = [phase EXCEPT ![t] = "closed"]
    /\ UNCHANGED tries

PromiseNext ==
    \/ \E t \in Tasks :
        Appear(t) \/ TakeByWorker(t) \/ TakeByHuman(t) \/ Close(t)
    \/ \E S \in SUBSET Tasks : GiveBack(S)

PromiseSpec == PromiseInit /\ [][PromiseNext]_promiseVars
=============================================================================
