---------------------------- MODULE WhatsAppOutbox -----------------------------
(***************************************************************************)
(* channel_whatsapp/wa/outbox.py: the replies of the WhatsApp channel.     *)
(*                                                                         *)
(* A reply is enqueued once per dedup key, as long as one is pending.  A   *)
(* sender claims what is due, sends it through Meta and reports the        *)
(* outcome.  A claim only counts an attempt: the row stays pending and     *)
(* due, and no lock is held while the message is sent, so the next poll    *)
(* may claim it too; and the reports name the row, not the claim.          *)
(*                                                                         *)
(* The callers (worker.py) and Meta are external: any writer may enqueue,  *)
(* any sender may poll at any time and may die; Meta accepts a message or  *)
(* not, and its answer may be lost, or come in a shape that client.py does *)
(* not read and takes for a refusal.                                       *)
(***************************************************************************)
EXTENDS Integers, Sequences, FiniteSets

CONSTANTS
    Senders,   \* processes that poll the outbox
    Writers,   \* processes that enqueue replies
    DedupKeys, \* session, kind and dedup_key of a reply
    MaxAttempts, \* _MAX_ATTEMPTS, 3 in the code
    MaxRows    \* bound: rows of the outbox

ASSUME AttemptsAssumption == MaxAttempts \in Nat

VARIABLES
    outbox,    \* wa.outbox: [key, state, attempts, age]
    sender,    \* sender[s]: the rows it has claimed, the answer it has
    writer,    \* writer[w]: the key it has found no pending reply of
    accepted,  \* Meta: how often it accepted the message of a row
    twice,     \* history: rows claimed while a claim of them was not reported
    lost,      \* history: rows whose sender never learnt of the acceptance
    revived,   \* history: rows a report made pending that were not any more
    twins      \* history: keys two writers enqueued at once

outboxVars == <<outbox, sender, writer, accepted, twice, lost, revived, twins>>

NoKey == "none"
Rows == DOMAIN outbox
Ages == {"later", "due", "old"}  \* send_after: to come, past, 23 hours past
NoSender == [todo |-> {}, row |-> 0, answer |-> "none"]

InitOutbox ==
    /\ outbox = <<>> /\ accepted = <<>>
    /\ sender = [s \in Senders |-> NoSender]
    /\ writer = [w \in Writers |-> NoKey]
    /\ twice = {} /\ lost = {} /\ revived = {} /\ twins = {}

Claims(s) == sender[s].todo \union ({sender[s].row} \ {0})
HeldBy(S) == UNION {Claims(s) : s \in S}

-----------------------------------------------------------------------------
PendingOf(k) == {i \in Rows : outbox[i].key = k /\ outbox[i].state = "pending"}

MutFound(k) == {i \in PendingOf(k) : outbox[i].attempts = 0}

\* The replies enqueue_reply finds, and returns instead of a new one.
Found(k) == PendingOf(k)

\* enqueue_reply: the SELECT and the INSERT.
LookUp(w, k) ==
    /\ writer[w] = NoKey /\ Found(k) = {}
    /\ writer' = [writer EXCEPT ![w] = k]
    /\ UNCHANGED <<outbox, sender, accepted, twice, lost, revived, twins>>

Enqueue(w) ==
    LET k == writer[w] IN
    /\ k # NoKey /\ Len(outbox) < MaxRows
    /\ \E age \in {"later", "due"} :
         outbox' = Append(outbox, [key |-> k, state |-> "pending", attempts |-> 0,
                                   age |-> age])
    /\ accepted' = Append(accepted, 0)
    /\ writer' = [writer EXCEPT ![w] = NoKey]
    /\ twins' = twins \union {x \in {k} : \E v \in Writers \ {w} : writer[v] = x}
    /\ UNCHANGED <<sender, twice, lost, revived>>

\* The writer's transaction is rolled back.
GiveUp(w) ==
    /\ writer[w] # NoKey
    /\ writer' = [writer EXCEPT ![w] = NoKey]
    /\ UNCHANGED <<outbox, sender, accepted, twice, lost, revived, twins>>

Tick(i) ==
    /\ outbox[i].age # "old"
    /\ outbox' = [outbox EXCEPT ![i].age = IF @ = "later" THEN "due" ELSE "old"]
    /\ UNCHANGED <<sender, writer, accepted, twice, lost, revived, twins>>

MutOutOfWindow(i) == outbox[i].age = "old"

OutOfWindow(i) == outbox[i].state = "pending" /\ outbox[i].age = "old"

Claimable ==
    {i \in Rows : /\ outbox[i].state = "pending" /\ outbox[i].age = "due"
                  /\ outbox[i].attempts < MaxAttempts}

\* claim_pending: what is too old is skipped, all that is due is claimed.
ClaimPending(s) ==
    /\ sender[s] = NoSender
    /\ Claimable # {} \/ \E i \in Rows : OutOfWindow(i)
    /\ outbox' = [i \in Rows |->
         IF OutOfWindow(i) THEN [outbox[i] EXCEPT !.state = "skipped_window"]
         ELSE IF i \in Claimable THEN [outbox[i] EXCEPT !.attempts = @ + 1]
         ELSE outbox[i]]
    /\ sender' = [sender EXCEPT ![s].todo = Claimable]
    /\ twice' = twice \union (Claimable \intersect HeldBy(Senders \ {s}))
    /\ UNCHANGED <<writer, accepted, lost, revived, twins>>

\* What Meta accepted: "unread" is a 200 whose body does not parse.
Accepting == {"sent", "lost", "unread"}
Answers == Accepting \union {"refused", "permanent"}

\* The sender hands a message to Meta.
Send(s, i, answer) ==
    /\ i \in sender[s].todo /\ sender[s].row = 0
    /\ sender' = [sender EXCEPT ![s] = [todo |-> @.todo \ {i}, row |-> i,
                                        answer |-> answer]]
    /\ accepted' = [accepted EXCEPT ![i] = IF answer \in Accepting
                                           THEN @ + 1 ELSE @]
    /\ lost' = IF answer \in {"lost", "unread"} THEN lost \union {i} ELSE lost
    /\ UNCHANGED <<outbox, writer, twice, revived, twins>>

Reported(s) == sender' = [sender EXCEPT ![s] = [NoSender EXCEPT !.todo = sender[s].todo]]

MutMarkSent(s) ==
    /\ sender[s].answer = "sent"
    /\ Reported(s)
    /\ UNCHANGED <<outbox, writer, accepted, twice, lost, revived, twins>>

\* mark_sent and mark_failed, whatever the row has become since the claim.
MarkSent(s) ==
    /\ sender[s].answer = "sent"
    /\ outbox' = [outbox EXCEPT ![sender[s].row].state = "sent"]
    /\ Reported(s)
    /\ UNCHANGED <<writer, accepted, twice, lost, revived, twins>>

MarkFailed(s) ==
    /\ sender[s].answer \in Answers \ {"sent"}
    /\ outbox' = [outbox EXCEPT ![sender[s].row] =
         IF sender[s].answer \in {"permanent", "unread"} THEN [@ EXCEPT !.state = "failed"]
         ELSE [@ EXCEPT !.state = "pending", !.age = "later"]]
    /\ revived' = revived \union {i \in {sender[s].row} :
                      outbox[i].state # "pending" /\ outbox'[i].state = "pending"}
    /\ Reported(s)
    /\ UNCHANGED <<writer, accepted, twice, lost, twins>>

\* The sender dies, and with it what it knew of its claims.
Die(s) ==
    /\ sender[s] # NoSender
    /\ lost' = lost \union {i \in {sender[s].row} : sender[s].answer = "sent"}
    /\ sender' = [sender EXCEPT ![s] = NoSender]
    /\ UNCHANGED <<outbox, writer, accepted, twice, revived, twins>>

OutboxNext ==
    \/ \E w \in Writers : (\E k \in DedupKeys : LookUp(w, k)) \/ Enqueue(w) \/ GiveUp(w)
    \/ \E i \in Rows : Tick(i)
    \/ \E s \in Senders :
         \/ ClaimPending(s) \/ MarkSent(s) \/ MarkFailed(s) \/ Die(s)
         \/ \E i \in Rows, answer \in Answers : Send(s, i, answer)

-----------------------------------------------------------------------------
(* A user gets a reply twice only if two senders had claimed it at the     *)
(* same time, or a sender never learnt that Meta had accepted it.          *)
SentTwiceWasRaced ==
    \A i \in Rows : accepted[i] > 1 => i \in twice \union lost

(* Between claims the state of a row tells what became of the reply: it is *)
(* sent exactly if Meta accepted it.  Only a race of two claims or a lost  *)
(* answer breaks that, by the late report of a claim made before.          *)
OutcomeIsKept ==
    \A i \in Rows \ (twice \union lost) :
        i \notin HeldBy(Senders) => (outbox[i].state = "sent" <=> accepted[i] > 0)

(* Two replies of one dedup key are pending only if two writers enqueued   *)
(* it at once, or a late report made a reply pending again.                *)
PendingTwinsWereRaced ==
    \A k \in DedupKeys \ twins :
        Cardinality(PendingOf(k)) > 1 => PendingOf(k) \intersect revived # {}
================================================================================
