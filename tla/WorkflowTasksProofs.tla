------------------------- MODULE WorkflowTasksProofs -------------------------
(***************************************************************************)
(* Proofs about WorkflowTasks for any number of tasks, workers, people and *)
(* attempts, any lease length and any lag.                                 *)
(***************************************************************************)
EXTENDS WorkflowTasks, TLAPS, FiniteSetTheorems

\* A row that does not exist yet has spent no attempt, and a task that spent
\* no attempt is leased to nobody.
FreshIsFree ==
    \A t \in Tasks :
        /\ status[t] = "NONE" => attempts[t] = 0
        /\ attempts[t] = 0 => owner[t] = NoOne

\* A cancel only goes ahead with a status it may be cancelled from.
SeenCancellable ==
    \A h \in Humans : \A s \in seen[h] : s.status \in Open \union Held

\* One row of history for each task of a step.
LEMMA EventCounts ==
    ASSUME TypeOK, NEW S \in SUBSET Tasks, NEW to \in Statuses, Event(S, to)
    PROVE  /\ \A t \in S : /\ history'[t][to] = history[t][to] + 1
                           /\ \A s \in Statuses \ {to} : history'[t][s] = history[t][s]
           /\ \A t \in Tasks \ S : history'[t] = history[t]
           /\ history' \in [Tasks -> [Statuses -> Nat]]
<1> USE DEF Event
<1>1. \A t \in Tasks : history[t] \in [Statuses -> Nat]
  BY DEF TypeOK, HistoryOK
<1>2. \A t \in S : history'[t] = [history[t] EXCEPT ![to] = history[t][to] + 1]
  OBVIOUS
<1>3. \A t \in Tasks \ S : history'[t] = history[t]
  OBVIOUS
<1>4. ASSUME NEW t \in S
      PROVE  history'[t] \in [Statuses -> Nat]
  <2>1. history[t] \in [Statuses -> Nat] /\ history[t][to] + 1 \in Nat
    BY <1>1
  <2> HIDE DEF Event, Statuses
  <2> QED  BY <1>2, <2>1
<1>5. history' \in [Tasks -> [Statuses -> Nat]]
  <2>1. \A t \in Tasks : history'[t] \in [Statuses -> Nat]
    BY <1>1, <1>3, <1>4
  <2>2. history' = [t \in Tasks |-> history'[t]]
    OBVIOUS
  <2> HIDE DEF Event
  <2> QED  BY <2>1, <2>2
<1> QED  BY <1>1, <1>2, <1>3, <1>5

\* The same for the step of one task.
LEMMA EventCountsOne ==
    ASSUME TypeOK, NEW t \in Tasks, NEW to \in Statuses, Event({t}, to)
    PROVE  /\ history'[t][to] = history[t][to] + 1
           /\ \A s \in Statuses \ {to} : history'[t][s] = history[t][s]
           /\ \A u \in Tasks \ {t} : history'[u] = history[u]
           /\ history' \in [Tasks -> [Statuses -> Nat]]
<1>1. {t} \in SUBSET Tasks
  OBVIOUS
<1> QED  BY <1>1, EventCounts

\* Every step keeps the types of the columns.
LEMMA RowsOKStep ==
    ASSUME RowsOK, [Next]_vars
    PROVE  RowsOK'
<1> USE AttemptsAssumption, TimeAssumption, NoOneAssumption
    DEF RowsOK, Statuses, Open, Held, Terminal, Lags, Timer, Attempt,
        NoAttempt
<1>1. ASSUME NEW t \in Tasks, NEW d \in Lags, Create(t, d)
      PROVE  RowsOK'
  BY <1>1 DEF Create
<1>2. ASSUME NEW t \in Tasks, NEW w \in Workers, NEW d \in Lags,
             ClaimWorker(t, w, d)
      PROVE  RowsOK'
  BY <1>2, SMTT(30) DEF ClaimWorker, Claimable
<1>3. ASSUME NEW t \in Tasks, NEW w \in Workers, NEW d \in Lags,
             StartWorker(t, w, d)
      PROVE  RowsOK'
  BY <1>3 DEF StartWorker, LeaseValid
<1>4. ASSUME NEW t \in Tasks, NEW w \in Workers, NEW d \in Lags,
             Heartbeat(t, w, d)
      PROVE  RowsOK'
  BY <1>4 DEF Heartbeat, LeaseValid
<1>5. ASSUME NEW t \in Tasks, NEW w \in Workers, NEW d \in Lags,
             NEW r \in RetryDelays, FailAndRetry(t, w, d, r)
      PROVE  RowsOK'
  BY <1>5, SMTT(30) DEF FailAndRetry, MayFail, Released, Ended
<1>6. ASSUME NEW t \in Tasks, NEW w \in Workers, FailForGood(t, w)
      PROVE  RowsOK'
  BY <1>6, SMTT(30)
  DEF FailForGood, MayFail, Exhausted, Released, Ended
<1>7. ASSUME NEW S \in SUBSET Tasks, NEW d \in Lags, Recover(S, d)
      PROVE  RowsOK'
  <2>1. ledger' \in [Tasks -> [1 .. MaxAttempts -> Attempt]]
    BY <1>7, SMTT(30) DEF Recover, Ended
  <2>2. /\ status' \in [Tasks -> Statuses] /\ wait' \in [Tasks -> Timer]
        /\ owner' \in [Tasks -> Workers \union {NoOne}] /\ lease' \in [Tasks -> Timer]
    BY <1>7 DEF Recover, Released
  <2> QED  BY <1>7, <2>1, <2>2 DEF Recover
<1>8. ASSUME NEW t \in Tasks, HumanClaim(t)
      PROVE  RowsOK'
  BY <1>8 DEF HumanClaim, Transition
<1>9. ASSUME NEW t \in Tasks, HumanStart(t)
      PROVE  RowsOK'
  BY <1>9 DEF HumanStart, Transition
<1>10. ASSUME NEW t \in Tasks, NEW k \in Keys, Complete(t, k)
      PROVE  RowsOK'
  BY <1>10 DEF Complete, Transition, Receipt
<1>11. ASSUME NEW h \in Humans, NEW t \in Tasks, NEW k \in Keys,
             CancelRead(h, t, k)
      PROVE  RowsOK'
  <2>1. [task |-> t, status |-> status[t], key |-> k]
          \in [task : Tasks, status : Statuses, key : Keys]
    BY <1>11
  <2>2. seen' \in [Humans -> SUBSET [task : Tasks, status : Statuses,
                                    key : Keys]]
    BY <1>11, <2>1 DEF CancelRead
  <2>3. QED  BY <1>11, <2>2 DEF CancelRead
<1>12. ASSUME NEW h \in Humans, CancelWrite(h)
      PROVE  RowsOK'
  BY <1>12 DEF CancelWrite, Transition, Receipt
<1>13. ASSUME NEW h \in Humans, CancelConflict(h)
      PROVE  RowsOK'
  BY <1>13 DEF CancelConflict
<1>14. ASSUME Tick
      PROVE  RowsOK'
  <2>1. ASSUME NEW timer \in [Tasks -> Timer]
        PROVE  Older(timer) \in [Tasks -> Timer]
    BY DEF Older
  <2>2. lease' \in [Tasks -> Timer]
    BY <1>14, <2>1 DEF Tick
  <2>3. avail' \in [Tasks -> Timer]
    BY <1>14, <2>1 DEF Tick
  <2>4. wait' \in [Tasks -> Timer]
    BY <1>14, <2>1 DEF Tick
  <2>5. QED  BY <1>14, <2>2, <2>3, <2>4 DEF Tick
<1>15. ASSUME UNCHANGED vars
      PROVE  RowsOK'
  BY <1>15 DEF vars
<1>16. QED
  BY <1>1, <1>2, <1>3, <1>4, <1>5, <1>6, <1>7, <1>8, <1>9, <1>10, <1>11,
     <1>12, <1>13, <1>14, <1>15
  DEF Next, WorkerNext, HumanNext

\* The history only gets rows of statuses.
LEMMA HistoryOKStep ==
    ASSUME TypeOK, [Next]_vars
    PROVE  HistoryOK'
<1>1. ASSUME NEW t \in Tasks, NEW to \in Statuses, Event({t}, to)
      PROVE  HistoryOK'
  BY <1>1, EventCountsOne DEF HistoryOK
<1>2. /\ \A s \in Open \union Held \union Terminal : s \in Statuses
      /\ {"READY", "RETRY_WAIT"} \subseteq Statuses
      /\ {"CLAIMED", "IN_PROGRESS"} \subseteq Statuses
      /\ {"COMPLETED", "CANCELLED", "DEAD_LETTER"} \subseteq Statuses
  BY DEF Statuses, Open, Held, Terminal
<1>3. ASSUME NEW t \in Tasks, NEW w \in Workers, NEW d \in Lags,
             \/ ClaimWorker(t, w, d) \/ StartWorker(t, w, d)
             \/ \E r \in RetryDelays : FailAndRetry(t, w, d, r)
             \/ FailForGood(t, w)
      PROVE  HistoryOK'
  <2>1. \E to \in Statuses : Event({t}, to)
    BY <1>2, <1>3 DEF ClaimWorker, StartWorker, FailAndRetry, FailForGood
  <2> QED  BY <1>1, <2>1
<1>4. ASSUME NEW S \in SUBSET Tasks, NEW d \in Lags, Recover(S, d)
      PROVE  HistoryOK'
  <2>1. Event(S, "READY") /\ "READY" \in Statuses
    BY <1>2, <1>4 DEF Recover
  <2> QED  BY <2>1, EventCounts DEF HistoryOK
<1>5. ASSUME NEW t \in Tasks,
             \/ HumanClaim(t) \/ HumanStart(t) \/ \E k \in Keys : Complete(t, k)
      PROVE  HistoryOK'
  <2>1. \E to \in Statuses : Event({t}, to)
    BY <1>2, <1>5 DEF HumanClaim, HumanStart, Complete, Transition
  <2> QED  BY <1>1, <2>1
<1>6. ASSUME NEW h \in Humans, CancelWrite(h)
      PROVE  HistoryOK'
  <2>1. PICK s \in seen[h] : Event({s.task}, "CANCELLED")
    BY <1>6 DEF CancelWrite, Transition
  <2>2. s.task \in Tasks
    BY DEF TypeOK, RowsOK
  <2> QED  BY <1>1, <1>2, <2>1, <2>2
<1>7. ASSUME NEW t \in Tasks, NEW d \in Lags, Create(t, d)
      PROVE  HistoryOK'
  BY <1>1, <1>2, <1>7 DEF Create
<1>8. ASSUME UNCHANGED history
      PROVE  HistoryOK'
  BY <1>8 DEF TypeOK, HistoryOK
<1> QED
  BY <1>3, <1>4, <1>5, <1>6, <1>7, <1>8
  DEF Next, WorkerNext, HumanNext, Heartbeat, CancelRead, CancelConflict, Tick, vars

\* Every step keeps the types.
LEMMA TypeOKStep ==
    ASSUME TypeOK, [Next]_vars
    PROVE  TypeOK'
  BY RowsOKStep, HistoryOKStep DEF TypeOK

\* No step gives an absent row an owner or an attempt.
LEMMA FreshIsFreeStep ==
    ASSUME TypeOK, FreshIsFree, [Next]_vars
    PROVE  FreshIsFree'
<1> USE AttemptsAssumption, TimeAssumption, NoOneAssumption
    DEF TypeOK, RowsOK, FreshIsFree, Statuses, Open, Held, Terminal
<1>1. ASSUME NEW t \in Tasks, NEW d \in Lags, Create(t, d)
      PROVE  FreshIsFree'
  BY <1>1 DEF Create
<1>2. ASSUME NEW t \in Tasks, NEW w \in Workers, NEW d \in Lags,
             ClaimWorker(t, w, d)
      PROVE  FreshIsFree'
  BY <1>2 DEF ClaimWorker, Claimable
<1>3. ASSUME NEW t \in Tasks, NEW w \in Workers, NEW d \in Lags,
             StartWorker(t, w, d)
      PROVE  FreshIsFree'
  BY <1>3 DEF StartWorker, LeaseValid
<1>4. ASSUME NEW t \in Tasks, NEW w \in Workers, NEW d \in Lags,
             Heartbeat(t, w, d)
      PROVE  FreshIsFree'
  BY <1>4 DEF Heartbeat, LeaseValid
<1>5. ASSUME NEW t \in Tasks, NEW w \in Workers, NEW d \in Lags,
             NEW r \in RetryDelays, FailAndRetry(t, w, d, r)
      PROVE  FreshIsFree'
  BY <1>5 DEF FailAndRetry, MayFail, Released, Ended
<1>6. ASSUME NEW t \in Tasks, NEW w \in Workers, FailForGood(t, w)
      PROVE  FreshIsFree'
  BY <1>6 DEF FailForGood, MayFail, Exhausted, Released, Ended
<1>7. ASSUME NEW S \in SUBSET Tasks, NEW d \in Lags, Recover(S, d)
      PROVE  FreshIsFree'
  BY <1>7 DEF Recover, Stale, Released, Ended
<1>8. ASSUME NEW t \in Tasks, HumanClaim(t)
      PROVE  FreshIsFree'
  BY <1>8 DEF HumanClaim, Transition
<1>9. ASSUME NEW t \in Tasks, HumanStart(t)
      PROVE  FreshIsFree'
  BY <1>9 DEF HumanStart, Transition
<1>10. ASSUME NEW t \in Tasks, NEW k \in Keys, Complete(t, k)
      PROVE  FreshIsFree'
  BY <1>10 DEF Complete, Transition, Receipt
<1>11. ASSUME NEW h \in Humans, NEW t \in Tasks, NEW k \in Keys,
             CancelRead(h, t, k)
      PROVE  FreshIsFree'
  BY <1>11 DEF CancelRead
<1>12. ASSUME NEW h \in Humans, CancelWrite(h)
      PROVE  FreshIsFree'
  BY <1>12 DEF CancelWrite, Transition, Receipt
<1>13. ASSUME NEW h \in Humans, CancelConflict(h)
      PROVE  FreshIsFree'
  BY <1>13 DEF CancelConflict
<1>14. ASSUME Tick
      PROVE  FreshIsFree'
  BY <1>14 DEF Tick, Older
<1>15. ASSUME UNCHANGED vars
      PROVE  FreshIsFree'
  BY <1>15 DEF vars
<1>16. QED
  BY <1>1, <1>2, <1>3, <1>4, <1>5, <1>6, <1>7, <1>8, <1>9, <1>10, <1>11,
     <1>12, <1>13, <1>14, <1>15
  DEF Next, WorkerNext, HumanNext

\* A cancel request only remembers a status it may cancel from.
LEMMA SeenCancellableStep ==
    ASSUME TypeOK, SeenCancellable, [Next]_vars
    PROVE  SeenCancellable'
<1> USE DEF TypeOK, RowsOK, SeenCancellable, Statuses, Open, Held, Terminal
<1>1. ASSUME NEW t \in Tasks, NEW d \in Lags, Create(t, d)
      PROVE  SeenCancellable'
  BY <1>1 DEF Create
<1>2. ASSUME NEW t \in Tasks, NEW w \in Workers, NEW d \in Lags,
             ClaimWorker(t, w, d)
      PROVE  SeenCancellable'
  BY <1>2 DEF ClaimWorker, Claimable
<1>3. ASSUME NEW t \in Tasks, NEW w \in Workers, NEW d \in Lags,
             StartWorker(t, w, d)
      PROVE  SeenCancellable'
  BY <1>3 DEF StartWorker, LeaseValid
<1>4. ASSUME NEW t \in Tasks, NEW w \in Workers, NEW d \in Lags,
             Heartbeat(t, w, d)
      PROVE  SeenCancellable'
  BY <1>4 DEF Heartbeat, LeaseValid
<1>5. ASSUME NEW t \in Tasks, NEW w \in Workers, NEW d \in Lags,
             NEW r \in RetryDelays, FailAndRetry(t, w, d, r)
      PROVE  SeenCancellable'
  BY <1>5 DEF FailAndRetry, MayFail, Released, Ended
<1>6. ASSUME NEW t \in Tasks, NEW w \in Workers, FailForGood(t, w)
      PROVE  SeenCancellable'
  BY <1>6 DEF FailForGood, MayFail, Exhausted, Released, Ended
<1>7. ASSUME NEW S \in SUBSET Tasks, NEW d \in Lags, Recover(S, d)
      PROVE  SeenCancellable'
  BY <1>7 DEF Recover, Stale, Released, Ended
<1>8. ASSUME NEW t \in Tasks, HumanClaim(t)
      PROVE  SeenCancellable'
  BY <1>8 DEF HumanClaim, Transition
<1>9. ASSUME NEW t \in Tasks, HumanStart(t)
      PROVE  SeenCancellable'
  BY <1>9 DEF HumanStart, Transition
<1>10. ASSUME NEW t \in Tasks, NEW k \in Keys, Complete(t, k)
      PROVE  SeenCancellable'
  BY <1>10 DEF Complete, Transition, Receipt
<1>11. ASSUME NEW h \in Humans, NEW t \in Tasks, NEW k \in Keys,
             CancelRead(h, t, k)
      PROVE  SeenCancellable'
  BY <1>11 DEF CancelRead
<1>12. ASSUME NEW h \in Humans, CancelWrite(h)
      PROVE  SeenCancellable'
  BY <1>12 DEF CancelWrite, Transition, Receipt
<1>13. ASSUME NEW h \in Humans, CancelConflict(h)
      PROVE  SeenCancellable'
  BY <1>13 DEF CancelConflict
<1>14. ASSUME Tick
      PROVE  SeenCancellable'
  BY <1>14 DEF Tick, Older
<1>15. ASSUME UNCHANGED vars
      PROVE  SeenCancellable'
  BY <1>15 DEF vars
<1>16. QED
  BY <1>1, <1>2, <1>3, <1>4, <1>5, <1>6, <1>7, <1>8, <1>9, <1>10, <1>11,
     <1>12, <1>13, <1>14, <1>15
  DEF Next, WorkerNext, HumanNext

\* A task re-enters the queue only without a lease and with attempts left.
LEMMA QueuedIsClaimableStep ==
    ASSUME TypeOK, FreshIsFree, SeenCancellable, QueuedIsClaimable, [Next]_vars
    PROVE  QueuedIsClaimable'
<1> USE AttemptsAssumption, TimeAssumption, NoOneAssumption
    DEF TypeOK, RowsOK, FreshIsFree, SeenCancellable, QueuedIsClaimable, Statuses,
        Open, Held, Terminal
<1>1. ASSUME NEW t \in Tasks, NEW d \in Lags, Create(t, d)
      PROVE  QueuedIsClaimable'
  BY <1>1 DEF Create
<1>2. ASSUME NEW t \in Tasks, NEW w \in Workers, NEW d \in Lags,
             ClaimWorker(t, w, d)
      PROVE  QueuedIsClaimable'
  BY <1>2 DEF ClaimWorker, Claimable
<1>3. ASSUME NEW t \in Tasks, NEW w \in Workers, NEW d \in Lags,
             StartWorker(t, w, d)
      PROVE  QueuedIsClaimable'
  BY <1>3 DEF StartWorker, LeaseValid
<1>4. ASSUME NEW t \in Tasks, NEW w \in Workers, NEW d \in Lags,
             Heartbeat(t, w, d)
      PROVE  QueuedIsClaimable'
  BY <1>4 DEF Heartbeat, LeaseValid
<1>5. ASSUME NEW t \in Tasks, NEW w \in Workers, NEW d \in Lags,
             NEW r \in RetryDelays, FailAndRetry(t, w, d, r)
      PROVE  QueuedIsClaimable'
  BY <1>5 DEF FailAndRetry, MayFail, Released, Ended
<1>6. ASSUME NEW t \in Tasks, NEW w \in Workers, FailForGood(t, w)
      PROVE  QueuedIsClaimable'
  BY <1>6 DEF FailForGood, MayFail, Exhausted, Released, Ended
<1>7. ASSUME NEW S \in SUBSET Tasks, NEW d \in Lags, Recover(S, d)
      PROVE  QueuedIsClaimable'
  BY <1>7 DEF Recover, Stale, Released, Ended
<1>8. ASSUME NEW t \in Tasks, HumanClaim(t)
      PROVE  QueuedIsClaimable'
  BY <1>8 DEF HumanClaim, Transition
<1>9. ASSUME NEW t \in Tasks, HumanStart(t)
      PROVE  QueuedIsClaimable'
  BY <1>9 DEF HumanStart, Transition
<1>10. ASSUME NEW t \in Tasks, NEW k \in Keys, Complete(t, k)
      PROVE  QueuedIsClaimable'
  BY <1>10 DEF Complete, Transition, Receipt
<1>11. ASSUME NEW h \in Humans, NEW t \in Tasks, NEW k \in Keys,
             CancelRead(h, t, k)
      PROVE  QueuedIsClaimable'
  BY <1>11 DEF CancelRead
<1>12. ASSUME NEW h \in Humans, CancelWrite(h)
      PROVE  QueuedIsClaimable'
  BY <1>12 DEF CancelWrite, Transition, Receipt
<1>13. ASSUME NEW h \in Humans, CancelConflict(h)
      PROVE  QueuedIsClaimable'
  BY <1>13 DEF CancelConflict
<1>14. ASSUME Tick
      PROVE  QueuedIsClaimable'
  BY <1>14 DEF Tick, Older
<1>15. ASSUME UNCHANGED vars
      PROVE  QueuedIsClaimable'
  BY <1>15 DEF vars
<1>16. QED
  BY <1>1, <1>2, <1>3, <1>4, <1>5, <1>6, <1>7, <1>8, <1>9, <1>10, <1>11,
     <1>12, <1>13, <1>14, <1>15
  DEF Next, WorkerNext, HumanNext

\* Opening and closing attempts goes with taking and losing the lease.
LEMMA LedgerMatchesLeaseStep ==
    ASSUME TypeOK, QueuedIsClaimable, LedgerMatchesLease, [Next]_vars
    PROVE  LedgerMatchesLease'
<1> USE AttemptsAssumption, TimeAssumption, NoOneAssumption
    DEF TypeOK, RowsOK, QueuedIsClaimable, LedgerMatchesLease, Statuses, Open, Held,
        Terminal, Attempt
<1>1. ASSUME NEW t \in Tasks, NEW d \in Lags, Create(t, d)
      PROVE  LedgerMatchesLease'
  BY <1>1 DEF Create
<1>2. ASSUME NEW t \in Tasks, NEW w \in Workers, NEW d \in Lags,
             ClaimWorker(t, w, d)
      PROVE  LedgerMatchesLease'
  <2>1. /\ attempts[t] \in 0 .. MaxAttempts /\ attempts[t] + 1 \in 1 .. MaxAttempts
        /\ attempts'[t] = attempts[t] + 1 /\ owner'[t] = w
        /\ owner[t] = NoOne
    BY <1>2 DEF ClaimWorker, Claimable
  <2>2. /\ ledger'[t][attempts[t] + 1] = [worker |-> w, result |-> "OPEN"]
        /\ \A n \in 1 .. MaxAttempts :
              n # attempts[t] + 1 => ledger'[t][n] = ledger[t][n]
    BY <1>2, <2>1 DEF ClaimWorker
  <2>3. \A n \in 1 .. MaxAttempts : ledger[t][n].result # "OPEN"
    BY <1>2, <2>1
  <2>4. \A u \in Tasks : u # t =>
          /\ ledger'[u] = ledger[u] /\ owner'[u] = owner[u]
          /\ attempts'[u] = attempts[u]
    BY <1>2 DEF ClaimWorker
  <2>5. SUFFICES ASSUME NEW u \in Tasks, NEW n \in 1 .. MaxAttempts
                 PROVE  /\ (ledger'[u][n].result = "NONE") <=> (n > attempts'[u])
                        /\ ledger'[u][n].result = "OPEN" =>
                              /\ n = attempts'[u]
                              /\ owner'[u] = ledger'[u][n].worker
                              /\ owner'[u] # NoOne
                        /\ n = attempts'[u] /\ owner'[u] # NoOne =>
                              ledger'[u][n].result = "OPEN"
    OBVIOUS
  <2>6. CASE u # t
    BY <2>4, <2>6
  <2>7. CASE u = t /\ n = attempts[t] + 1
    BY <2>1, <2>2, <2>7
  <2>8. CASE u = t /\ n # attempts[t] + 1
    <3>1. ledger'[t][n] = ledger[t][n]
      BY <2>2, <2>8
    <3>2. ledger[t][n].result # "OPEN" /\ n # attempts'[t]
      BY <2>1, <2>3, <2>8
    <3>3. (ledger[t][n].result = "NONE") <=> (n > attempts[t])
      OBVIOUS
    <3>4. QED  BY <2>1, <2>8, <3>1, <3>2, <3>3
  <2>9. QED  BY <2>6, <2>7, <2>8
<1>3. ASSUME NEW t \in Tasks, NEW w \in Workers, NEW d \in Lags,
             StartWorker(t, w, d)
      PROVE  LedgerMatchesLease'
  BY <1>3 DEF StartWorker, LeaseValid
<1>4. ASSUME NEW t \in Tasks, NEW w \in Workers, NEW d \in Lags,
             Heartbeat(t, w, d)
      PROVE  LedgerMatchesLease'
  BY <1>4 DEF Heartbeat, LeaseValid
<1>5. ASSUME NEW t \in Tasks, NEW w \in Workers, NEW d \in Lags,
             NEW r \in RetryDelays, FailAndRetry(t, w, d, r)
      PROVE  LedgerMatchesLease'
  BY <1>5 DEF FailAndRetry, MayFail, Released, Ended
<1>6. ASSUME NEW t \in Tasks, NEW w \in Workers, FailForGood(t, w)
      PROVE  LedgerMatchesLease'
  BY <1>6 DEF FailForGood, MayFail, Exhausted, Released, Ended
<1>7. ASSUME NEW S \in SUBSET Tasks, NEW d \in Lags, Recover(S, d)
      PROVE  LedgerMatchesLease'
  BY <1>7 DEF Recover, Stale, Released, Ended
<1>8. ASSUME NEW t \in Tasks, HumanClaim(t)
      PROVE  LedgerMatchesLease'
  BY <1>8 DEF HumanClaim, Transition
<1>9. ASSUME NEW t \in Tasks, HumanStart(t)
      PROVE  LedgerMatchesLease'
  BY <1>9 DEF HumanStart, Transition
<1>10. ASSUME NEW t \in Tasks, NEW k \in Keys, Complete(t, k)
      PROVE  LedgerMatchesLease'
  BY <1>10 DEF Complete, Transition, Receipt
<1>11. ASSUME NEW h \in Humans, NEW t \in Tasks, NEW k \in Keys,
             CancelRead(h, t, k)
      PROVE  LedgerMatchesLease'
  BY <1>11 DEF CancelRead
<1>12. ASSUME NEW h \in Humans, CancelWrite(h)
      PROVE  LedgerMatchesLease'
  BY <1>12 DEF CancelWrite, Transition, Receipt
<1>13. ASSUME NEW h \in Humans, CancelConflict(h)
      PROVE  LedgerMatchesLease'
  BY <1>13 DEF CancelConflict
<1>14. ASSUME Tick
      PROVE  LedgerMatchesLease'
  BY <1>14 DEF Tick, Older
<1>15. ASSUME UNCHANGED vars
      PROVE  LedgerMatchesLease'
  BY <1>15 DEF vars
<1>16. QED
  BY <1>1, <1>2, <1>3, <1>4, <1>5, <1>6, <1>7, <1>8, <1>9, <1>10, <1>11,
     <1>12, <1>13, <1>14, <1>15
  DEF Next, WorkerNext, HumanNext

\* The dead-letter row is written once, with the status, and at the budget.
LEMMA DeadLetterExactStep ==
    ASSUME TypeOK, SeenCancellable, DeadLetterExact, [Next]_vars
    PROVE  DeadLetterExact'
<1> USE AttemptsAssumption, TimeAssumption, NoOneAssumption
    DEF TypeOK, RowsOK, SeenCancellable, DeadLetterExact, Statuses, Open, Held,
        Terminal
<1>1. ASSUME NEW t \in Tasks, NEW d \in Lags, Create(t, d)
      PROVE  DeadLetterExact'
  BY <1>1 DEF Create
<1>2. ASSUME NEW t \in Tasks, NEW w \in Workers, NEW d \in Lags,
             ClaimWorker(t, w, d)
      PROVE  DeadLetterExact'
  BY <1>2 DEF ClaimWorker, Claimable
<1>3. ASSUME NEW t \in Tasks, NEW w \in Workers, NEW d \in Lags,
             StartWorker(t, w, d)
      PROVE  DeadLetterExact'
  BY <1>3 DEF StartWorker, LeaseValid
<1>4. ASSUME NEW t \in Tasks, NEW w \in Workers, NEW d \in Lags,
             Heartbeat(t, w, d)
      PROVE  DeadLetterExact'
  BY <1>4 DEF Heartbeat, LeaseValid
<1>5. ASSUME NEW t \in Tasks, NEW w \in Workers, NEW d \in Lags,
             NEW r \in RetryDelays, FailAndRetry(t, w, d, r)
      PROVE  DeadLetterExact'
  BY <1>5 DEF FailAndRetry, MayFail, Released, Ended
<1>6. ASSUME NEW t \in Tasks, NEW w \in Workers, FailForGood(t, w)
      PROVE  DeadLetterExact'
  BY <1>6 DEF FailForGood, MayFail, Exhausted, Released, Ended
<1>7. ASSUME NEW S \in SUBSET Tasks, NEW d \in Lags, Recover(S, d)
      PROVE  DeadLetterExact'
  BY <1>7 DEF Recover, Stale, Released, Ended
<1>8. ASSUME NEW t \in Tasks, HumanClaim(t)
      PROVE  DeadLetterExact'
  BY <1>8 DEF HumanClaim, Transition
<1>9. ASSUME NEW t \in Tasks, HumanStart(t)
      PROVE  DeadLetterExact'
  BY <1>9 DEF HumanStart, Transition
<1>10. ASSUME NEW t \in Tasks, NEW k \in Keys, Complete(t, k)
      PROVE  DeadLetterExact'
  BY <1>10 DEF Complete, Transition, Receipt
<1>11. ASSUME NEW h \in Humans, NEW t \in Tasks, NEW k \in Keys,
             CancelRead(h, t, k)
      PROVE  DeadLetterExact'
  BY <1>11 DEF CancelRead
<1>12. ASSUME NEW h \in Humans, CancelWrite(h)
      PROVE  DeadLetterExact'
  BY <1>12, ZenonT(60) DEF CancelWrite, Transition, Receipt
<1>13. ASSUME NEW h \in Humans, CancelConflict(h)
      PROVE  DeadLetterExact'
  BY <1>13 DEF CancelConflict
<1>14. ASSUME Tick
      PROVE  DeadLetterExact'
  BY <1>14 DEF Tick, Older
<1>15. ASSUME UNCHANGED vars
      PROVE  DeadLetterExact'
  BY <1>15 DEF vars
<1>16. QED
  BY <1>1, <1>2, <1>3, <1>4, <1>5, <1>6, <1>7, <1>8, <1>9, <1>10, <1>11,
     <1>12, <1>13, <1>14, <1>15
  DEF Next, WorkerNext, HumanNext

\* What HistoryAddsUp says of one task.
AddsUp(t) ==
    /\ history[t]["READY"] = (IF status[t] = "NONE" THEN 0 ELSE 1)
                              + Cardinality(EndedWith(t, "LEASE_LOST"))
    /\ history[t]["RETRY_WAIT"] + history[t]["DEAD_LETTER"]
          = Cardinality(EndedWith(t, "RETRYABLE_FAILURE"))
    /\ \A s \in Terminal : history[t][s] = (IF status[t] = s THEN 1 ELSE 0)
    /\ status[t] \notin Terminal =>
          history[t]["CLAIMED"] =
              attempts[t] + (IF HeldByPerson(t) THEN 1 ELSE 0)

\* The attempts a task has are finitely many.
LEMMA EndedIsFinite ==
    ASSUME NEW t, NEW result
    PROVE  /\ IsFiniteSet(EndedWith(t, result))
           /\ Cardinality(EndedWith(t, result)) \in Nat
<1>1. MaxAttempts \in Int
  BY AttemptsAssumption
<1>2. IsFiniteSet(1 .. MaxAttempts)
  BY <1>1, FS_Interval
<1>3. EndedWith(t, result) \in SUBSET (1 .. MaxAttempts)
  BY DEF EndedWith
<1>4. IsFiniteSet(EndedWith(t, result))
  BY <1>2, <1>3, FS_Subset
<1> QED  BY <1>4, FS_CardinalityType

\* A step that ends the open attempt of a leased task adds that one attempt to
\* those that ended so.
LEMMA EndedCountsOne ==
    ASSUME TypeOK, FreshIsFree, LedgerMatchesLease,
           NEW S \in SUBSET Tasks, NEW t \in S, owner[t] # NoOne,
           NEW result \in {"RETRYABLE_FAILURE", "LEASE_LOST"}, Ended(S, result)
    PROVE  /\ Cardinality(EndedWith(t, result)') = Cardinality(EndedWith(t, result)) + 1
           /\ \A other \in {"RETRYABLE_FAILURE", "LEASE_LOST"} \ {result} :
                 EndedWith(t, other)' = EndedWith(t, other)
<1>1. attempts[t] \in 1 .. MaxAttempts
  <2>1. attempts[t] # 0 /\ attempts[t] \in 0 .. MaxAttempts
    BY DEF TypeOK, RowsOK, FreshIsFree
  <2> QED  BY <2>1, AttemptsAssumption
<1>2. ledger[t][attempts[t]].result = "OPEN"
  BY <1>1 DEF LedgerMatchesLease
<1>3. /\ ledger'[t][attempts[t]].result = result
      /\ \A n \in 1 .. MaxAttempts : n # attempts[t] => ledger'[t][n] = ledger[t][n]
  BY <1>1, <1>2 DEF Ended
<1>4. /\ EndedWith(t, result)' = EndedWith(t, result) \union {attempts[t]}
      /\ attempts[t] \notin EndedWith(t, result)
  BY <1>1, <1>2, <1>3 DEF EndedWith
<1>5. Cardinality(EndedWith(t, result) \union {attempts[t]})
        = Cardinality(EndedWith(t, result)) + 1
  <2>1. IsFiniteSet(EndedWith(t, result))
    BY EndedIsFinite
  <2> QED  BY <1>4, <2>1, FS_AddElement
<1>6. \A other \in {"RETRYABLE_FAILURE", "LEASE_LOST"} \ {result} :
          EndedWith(t, other)' = EndedWith(t, other)
  BY <1>1, <1>2, <1>3 DEF EndedWith
<1> QED  BY <1>4, <1>5, <1>6

\* A step of one task that leaves its attempts ended as they were.
LEMMA EndedAsBefore ==
    ASSUME NEW t, ledger'[t] = ledger[t], NEW result
    PROVE  EndedWith(t, result)' = EndedWith(t, result)
  BY DEF EndedWith

\* A new attempt has not ended.
LEMMA OpenedHasNotEnded ==
    ASSUME TypeOK, LedgerMatchesLease, NEW t \in Tasks, NEW w \in Workers,
           NEW d \in Lags, ClaimWorker(t, w, d),
           NEW result \in {"RETRYABLE_FAILURE", "LEASE_LOST"}
    PROVE  EndedWith(t, result)' = EndedWith(t, result)
<1>1. attempts[t] + 1 \in 1 .. MaxAttempts /\ attempts[t] \in Nat
  BY AttemptsAssumption DEF TypeOK, RowsOK, ClaimWorker, Claimable
<1>2. ledger[t][attempts[t] + 1].result = "NONE"
  BY <1>1 DEF LedgerMatchesLease
<1>3. /\ ledger'[t][attempts[t] + 1].result = "OPEN"
      /\ \A n \in 1 .. MaxAttempts :
            n # attempts[t] + 1 => ledger'[t][n] = ledger[t][n]
  BY <1>1 DEF TypeOK, RowsOK, ClaimWorker
<1> QED  BY <1>1, <1>2, <1>3 DEF EndedWith

\* Every step counts for one task what it does to it.
LEMMA AddsUpStep ==
    ASSUME TypeOK, FreshIsFree, SeenCancellable, QueuedIsClaimable, LedgerMatchesLease,
           [Next]_vars, NEW t \in Tasks, AddsUp(t)
    PROVE  AddsUp(t)'
<1>0. /\ attempts[t] \in Nat /\ status[t] \in Statuses
      /\ \A s \in Statuses : history[t][s] \in Nat
  BY AttemptsAssumption DEF TypeOK, RowsOK, HistoryOK
<1>1. ASSUME UNCHANGED <<status[t], attempts[t], owner[t], ledger[t], history[t]>>
      PROVE  AddsUp(t)'
  BY <1>1, EndedAsBefore DEF AddsUp, HeldByPerson
<1>2. ASSUME NEW u \in Tasks, u # t, NEW expected, NEW next \in Statuses,
             Transition(u, expected, next)
      PROVE  AddsUp(t)'
  <2>1. history'[t] = history[t]
    BY <1>2, EventCountsOne DEF Transition
  <2> QED  BY <1>1, <1>2, <2>1 DEF Transition, TypeOK, RowsOK
<1>3. ASSUME NEW next \in {"CLAIMED", "IN_PROGRESS", "COMPLETED", "CANCELLED"},
             Transition(t, status[t], next), status[t] \in Open \union Held,
             next = "CLAIMED" => status[t] = "READY",
             next = "IN_PROGRESS" => status[t] = "CLAIMED"
      PROVE  AddsUp(t)'
  <2>1. status'[t] = next /\ UNCHANGED <<attempts[t], owner[t], ledger[t]>>
    BY <1>3 DEF Transition, TypeOK, RowsOK
  <2>2. /\ history'[t][next] = history[t][next] + 1
        /\ \A s \in Statuses \ {next} : history'[t][s] = history[t][s]
    <3>1. next \in Statuses /\ Event({t}, next)
      BY <1>3 DEF Transition, Statuses, Held, Terminal
    <3> QED  BY <3>1, EventCountsOne
  <2>3. \A result : EndedWith(t, result)' = EndedWith(t, result)
    BY <2>1, EndedAsBefore
  <2> QED
    BY <1>0, <1>3, <2>1, <2>2, <2>3, EndedIsFinite
    DEF AddsUp, HeldByPerson, QueuedIsClaimable, Statuses, Open, Held, Terminal
<1>4. ASSUME NEW d \in Lags, Create(t, d)
      PROVE  AddsUp(t)'
  <2>1. /\ status[t] = "NONE" /\ status'[t] = "READY"
        /\ attempts[t] = 0 /\ owner[t] = NoOne
        /\ UNCHANGED <<attempts[t], owner[t], ledger[t]>>
    BY <1>4 DEF Create, TypeOK, RowsOK, FreshIsFree
  <2>2. /\ history'[t]["READY"] = history[t]["READY"] + 1
        /\ \A s \in Statuses \ {"READY"} : history'[t][s] = history[t][s]
    <3>1. "READY" \in Statuses /\ Event({t}, "READY")
      BY <1>4 DEF Create, Statuses, Open, Held
    <3> QED  BY <3>1, EventCountsOne
  <2>3. \A result : EndedWith(t, result)' = EndedWith(t, result)
    BY <2>1, EndedAsBefore
  <2> QED
    BY <1>0, <2>1, <2>2, <2>3, EndedIsFinite
    DEF AddsUp, HeldByPerson, Statuses, Open, Held, Terminal
<1>5. ASSUME NEW w \in Workers, NEW d \in Lags, ClaimWorker(t, w, d)
      PROVE  AddsUp(t)'
  <2>1. /\ status[t] \in Open /\ status'[t] = "CLAIMED"
        /\ attempts'[t] = attempts[t] + 1 /\ owner'[t] = w
    BY <1>5 DEF ClaimWorker, Claimable, TypeOK, RowsOK
  <2>2. /\ history'[t]["CLAIMED"] = history[t]["CLAIMED"] + 1
        /\ \A s \in Statuses \ {"CLAIMED"} : history'[t][s] = history[t][s]
    <3>1. "CLAIMED" \in Statuses /\ Event({t}, "CLAIMED")
      BY <1>5 DEF ClaimWorker, Statuses, Open, Held
    <3> QED  BY <3>1, EventCountsOne
  <2>3. \A result \in {"RETRYABLE_FAILURE", "LEASE_LOST"} :
            EndedWith(t, result)' = EndedWith(t, result)
    BY <1>5, OpenedHasNotEnded
  <2> QED
    BY <1>0, <2>1, <2>2, <2>3, EndedIsFinite, NoOneAssumption
    DEF AddsUp, HeldByPerson, Statuses, Open, Held, Terminal
<1>6. ASSUME NEW w \in Workers, NEW d \in Lags, StartWorker(t, w, d)
      PROVE  AddsUp(t)'
  <2>1. /\ status[t] = "CLAIMED" /\ status'[t] = "IN_PROGRESS"
        /\ UNCHANGED <<attempts[t], owner[t], ledger[t]>>
    BY <1>6 DEF StartWorker, TypeOK, RowsOK
  <2>2. \A s \in Statuses \ {"IN_PROGRESS"} : history'[t][s] = history[t][s]
    <3>1. "IN_PROGRESS" \in Statuses /\ Event({t}, "IN_PROGRESS")
      BY <1>6 DEF StartWorker, Statuses, Open, Held
    <3> QED  BY <3>1, EventCountsOne
  <2>3. \A result : EndedWith(t, result)' = EndedWith(t, result)
    BY <2>1, EndedAsBefore
  <2> QED
    BY <1>0, <2>1, <2>2, <2>3, EndedIsFinite
    DEF AddsUp, HeldByPerson, Statuses, Open, Held, Terminal
<1>7. ASSUME NEW S \in SUBSET Tasks, t \in S, NEW to \in {"RETRY_WAIT", "DEAD_LETTER"},
             status[t] \in Held, status'[t] = to, owner[t] # NoOne,
             owner'[t] = NoOne, attempts'[t] = attempts[t],
             Ended(S, "RETRYABLE_FAILURE"), Event(S, to)
      PROVE  AddsUp(t)'
  <2>1. /\ history'[t][to] = history[t][to] + 1
        /\ \A s \in Statuses \ {to} : history'[t][s] = history[t][s]
    <3>1. to \in Statuses
      BY DEF Statuses, Open, Terminal
    <3> QED  BY <1>7, <3>1, EventCounts
  <2>2. /\ Cardinality(EndedWith(t, "RETRYABLE_FAILURE")')
             = Cardinality(EndedWith(t, "RETRYABLE_FAILURE")) + 1
        /\ EndedWith(t, "LEASE_LOST")' = EndedWith(t, "LEASE_LOST")
    BY <1>7, EndedCountsOne
  <2> QED
    BY <1>0, <1>7, <2>1, <2>2, EndedIsFinite
    DEF AddsUp, HeldByPerson, Statuses, Open, Held, Terminal
<1>8. ASSUME NEW w \in Workers, NEW d \in Lags,
             \/ \E r \in RetryDelays : FailAndRetry(t, w, d, r)
             \/ FailForGood(t, w)
      PROVE  AddsUp(t)'
  <2>1. /\ status[t] \in Held /\ owner[t] # NoOne /\ owner'[t] = NoOne
        /\ attempts'[t] = attempts[t] /\ Ended({t}, "RETRYABLE_FAILURE")
    BY <1>8, NoOneAssumption DEF FailAndRetry, FailForGood, MayFail, Released
  <2>2. \E to \in {"RETRY_WAIT", "DEAD_LETTER"} :
            status'[t] = to /\ Event({t}, to)
    BY <1>8 DEF FailAndRetry, FailForGood, TypeOK, RowsOK
  <2> QED  BY <1>7, <2>1, <2>2
<1>9. ASSUME NEW S \in SUBSET Tasks, NEW d \in Lags, Recover(S, d), t \in S
      PROVE  AddsUp(t)'
  <2>1. /\ status[t] \in Held /\ owner[t] # NoOne
        /\ status'[t] = "READY" /\ owner'[t] = NoOne
        /\ attempts'[t] = attempts[t]
    BY <1>9 DEF Recover, Stale, Released
  <2>2. /\ history'[t]["READY"] = history[t]["READY"] + 1
        /\ \A s \in Statuses \ {"READY"} : history'[t][s] = history[t][s]
    <3>1. "READY" \in Statuses /\ Event(S, "READY")
      BY <1>9 DEF Recover, Statuses, Open, Held
    <3> QED  BY <1>9, <3>1, EventCounts
  <2>3. /\ Cardinality(EndedWith(t, "LEASE_LOST")')
             = Cardinality(EndedWith(t, "LEASE_LOST")) + 1
        /\ EndedWith(t, "RETRYABLE_FAILURE")' = EndedWith(t, "RETRYABLE_FAILURE")
    BY <1>9, <2>1, EndedCountsOne DEF Recover
  <2> QED
    BY <1>0, <2>1, <2>2, <2>3, EndedIsFinite
    DEF AddsUp, HeldByPerson, Statuses, Open, Held, Terminal
<1>10. ASSUME NEW S \in SUBSET Tasks, NEW d \in Lags, Recover(S, d), t \notin S
       PROVE  AddsUp(t)'
  BY <1>1, <1>10 DEF Recover, Released, Ended, Event
<1>11. ASSUME NEW u \in Tasks, u # t, NEW w \in Workers, NEW d \in Lags,
              \/ ClaimWorker(u, w, d) \/ StartWorker(u, w, d)
              \/ \E r \in RetryDelays : FailAndRetry(u, w, d, r)
              \/ FailForGood(u, w)
       PROVE  AddsUp(t)'
  BY <1>1, <1>11
  DEF ClaimWorker, StartWorker, FailAndRetry, FailForGood, Released, Ended, Event,
      TypeOK, RowsOK
<1>12. ASSUME NEW h \in Humans, CancelWrite(h)
       PROVE  AddsUp(t)'
  <2>1. PICK s \in seen[h] : Transition(s.task, s.status, "CANCELLED")
    BY <1>12 DEF CancelWrite
  <2>2. s.task \in Tasks /\ s.status \in Open \union Held
    BY <2>1 DEF TypeOK, RowsOK, SeenCancellable
  <2>3. status[s.task] = s.status
    BY <2>1 DEF Transition
  <2>4. CASE s.task = t
    <3>1. Transition(t, status[t], "CANCELLED") /\ status[t] \in Open \union Held
      BY <2>1, <2>2, <2>3, <2>4
    <3> QED  BY <1>3, <3>1
  <2>5. CASE s.task # t
    BY <1>2, <2>1, <2>2, <2>5 DEF Statuses, Terminal
  <2> QED  BY <2>4, <2>5
<1>13. ASSUME NEW u \in Tasks,
              \/ HumanClaim(u) \/ HumanStart(u) \/ \E k \in Keys : Complete(u, k)
       PROVE  AddsUp(t)'
  <2>1. PICK next \in {"CLAIMED", "IN_PROGRESS", "COMPLETED", "CANCELLED"} :
           /\ Transition(u, status[u], next) /\ status[u] \in Open \union Held
           /\ next = "CLAIMED" => status[u] = "READY"
           /\ next = "IN_PROGRESS" => status[u] = "CLAIMED"
    <3>1. \/ Transition(u, "READY", "CLAIMED")
          \/ Transition(u, "CLAIMED", "IN_PROGRESS")
          \/ Transition(u, "IN_PROGRESS", "COMPLETED")
      BY <1>13 DEF HumanClaim, HumanStart, Complete
    <3> QED  BY <3>1 DEF Transition, Open, Held
  <2>2. next \in Statuses
    BY DEF Statuses, Held, Terminal
  <2>3. CASE u = t
    BY <1>3, <2>1, <2>3
  <2>4. CASE u # t
    BY <1>2, <2>1, <2>2, <2>4
  <2> QED  BY <2>3, <2>4
<1>14. ASSUME NEW u \in Tasks, u # t, NEW d \in Lags, Create(u, d)
       PROVE  AddsUp(t)'
  BY <1>1, <1>14 DEF Create, Event, TypeOK, RowsOK
<1>15. ASSUME UNCHANGED <<status, attempts, owner, ledger, history>>
       PROVE  AddsUp(t)'
  BY <1>1, <1>15
<1> QED
  BY <1>4, <1>5, <1>6, <1>8, <1>9, <1>10, <1>11, <1>12, <1>13, <1>14, <1>15
  DEF Next, WorkerNext, HumanNext, Heartbeat, CancelRead, CancelConflict, Tick, vars

\* No transition goes unrecorded, and none is recorded twice.
LEMMA HistoryAddsUpStep ==
    ASSUME TypeOK, FreshIsFree, SeenCancellable, QueuedIsClaimable, LedgerMatchesLease,
           HistoryAddsUp, [Next]_vars
    PROVE  HistoryAddsUp'
<1>1. \A t \in Tasks : AddsUp(t)
  BY DEF HistoryAddsUp, AddsUp
<1>2. \A t \in Tasks : AddsUp(t)'
  BY <1>1, AddsUpStep
<1> QED  BY <1>2 DEF HistoryAddsUp, AddsUp

\* A receipt is written with a first terminal status, which nothing changes.
LEMMA ReceiptsTruthfulStep ==
    ASSUME TypeOK, SeenCancellable, ReceiptsTruthful, [Next]_vars
    PROVE  ReceiptsTruthful'
<1> USE DEF TypeOK, RowsOK, SeenCancellable, ReceiptsTruthful, Statuses, Open, Held,
            Terminal
<1>1. ASSUME NEW t \in Tasks, NEW d \in Lags, Create(t, d)
      PROVE  ReceiptsTruthful'
  BY <1>1 DEF Create
<1>2. ASSUME NEW t \in Tasks, NEW w \in Workers, NEW d \in Lags,
             ClaimWorker(t, w, d)
      PROVE  ReceiptsTruthful'
  BY <1>2 DEF ClaimWorker, Claimable
<1>3. ASSUME NEW t \in Tasks, NEW w \in Workers, NEW d \in Lags,
             StartWorker(t, w, d)
      PROVE  ReceiptsTruthful'
  BY <1>3 DEF StartWorker, LeaseValid
<1>4. ASSUME NEW t \in Tasks, NEW w \in Workers, NEW d \in Lags,
             Heartbeat(t, w, d)
      PROVE  ReceiptsTruthful'
  BY <1>4 DEF Heartbeat, LeaseValid
<1>5. ASSUME NEW t \in Tasks, NEW w \in Workers, NEW d \in Lags,
             NEW r \in RetryDelays, FailAndRetry(t, w, d, r)
      PROVE  ReceiptsTruthful'
  BY <1>5 DEF FailAndRetry, MayFail, Released, Ended
<1>6. ASSUME NEW t \in Tasks, NEW w \in Workers, FailForGood(t, w)
      PROVE  ReceiptsTruthful'
  BY <1>6 DEF FailForGood, MayFail, Exhausted, Released, Ended
<1>7. ASSUME NEW S \in SUBSET Tasks, NEW d \in Lags, Recover(S, d)
      PROVE  ReceiptsTruthful'
  BY <1>7 DEF Recover, Stale, Released, Ended
<1>8. ASSUME NEW t \in Tasks, HumanClaim(t)
      PROVE  ReceiptsTruthful'
  BY <1>8 DEF HumanClaim, Transition
<1>9. ASSUME NEW t \in Tasks, HumanStart(t)
      PROVE  ReceiptsTruthful'
  BY <1>9 DEF HumanStart, Transition
<1>10. ASSUME NEW t \in Tasks, NEW k \in Keys, Complete(t, k)
      PROVE  ReceiptsTruthful'
  BY <1>10 DEF Complete, Transition, Receipt
<1>11. ASSUME NEW h \in Humans, NEW t \in Tasks, NEW k \in Keys,
             CancelRead(h, t, k)
      PROVE  ReceiptsTruthful'
  BY <1>11 DEF CancelRead
<1>12. ASSUME NEW h \in Humans, CancelWrite(h)
      PROVE  ReceiptsTruthful'
  <2>1. PICK s \in seen[h] : /\ Transition(s.task, s.status, "CANCELLED")
                             /\ Receipt("CANCELLED", s.task, s.key)
    BY <1>12 DEF CancelWrite
  <2>2. s.task \in Tasks /\ s.status \in Open \union Held
    BY <2>1
  <2>3. /\ status[s.task] = s.status
        /\ status' = [status EXCEPT ![s.task] = "CANCELLED"]
        /\ receipts' = receipts \union
                         {[op |-> "CANCELLED", task |-> s.task, key |-> s.key]}
    BY <2>1 DEF Transition, Receipt
  <2>4. \A r \in receipts : r.task # s.task
    BY <2>2, <2>3, ZenonT(60)
  <2>5. QED  BY <2>2, <2>3, <2>4
<1>13. ASSUME NEW h \in Humans, CancelConflict(h)
      PROVE  ReceiptsTruthful'
  BY <1>13 DEF CancelConflict
<1>14. ASSUME Tick
      PROVE  ReceiptsTruthful'
  BY <1>14 DEF Tick, Older
<1>15. ASSUME UNCHANGED vars
      PROVE  ReceiptsTruthful'
  BY <1>15 DEF vars
<1>16. QED
  BY <1>1, <1>2, <1>3, <1>4, <1>5, <1>6, <1>7, <1>8, <1>9, <1>10, <1>11,
     <1>12, <1>13, <1>14, <1>15
  DEF Next, WorkerNext, HumanNext
-----------------------------------------------------------------------------
\* The invariant the proofs run on.  FreshIsFree is there for the step that
\* creates a row, SeenCancellable for the cancel whose read is old.
IInv ==
    /\ TypeOK
    /\ FreshIsFree
    /\ SeenCancellable
    /\ QueuedIsClaimable
    /\ LedgerMatchesLease
    /\ DeadLetterExact
    /\ HistoryAddsUp
    /\ ReceiptsTruthful

\* The initial state, with no row at all, satisfies the invariant.
LEMMA InitIInv == Init => IInv
<1> SUFFICES ASSUME Init PROVE IInv
  OBVIOUS
<1> USE AttemptsAssumption, TimeAssumption, NoOneAssumption
    DEF Init, Statuses, Open, Held, Terminal
<1>1. TypeOK
  BY DEF TypeOK, RowsOK, HistoryOK, Timer, Attempt, NoAttempt
<1>2. FreshIsFree /\ SeenCancellable /\ QueuedIsClaimable
  BY DEF FreshIsFree, SeenCancellable, QueuedIsClaimable
<1>3. LedgerMatchesLease
  BY DEF LedgerMatchesLease, NoAttempt
<1>4. DeadLetterExact /\ ReceiptsTruthful
  BY DEF DeadLetterExact, ReceiptsTruthful
<1>5. HistoryAddsUp
  <2>1. \A t \in Tasks, result \in {"RETRYABLE_FAILURE", "LEASE_LOST"} :
            EndedWith(t, result) = {}
    BY DEF EndedWith, NoAttempt
  <2>2. \A t \in Tasks, result \in {"RETRYABLE_FAILURE", "LEASE_LOST"} :
            Cardinality(EndedWith(t, result)) = 0
    BY <2>1, FS_EmptySet
  <2>3. \A t \in Tasks : /\ status[t] = "NONE" /\ attempts[t] = 0
                         /\ \A s \in Statuses : history[t][s] = 0
    OBVIOUS
  <2> QED  BY <2>2, <2>3 DEF HistoryAddsUp, HeldByPerson
<1>6. QED  BY <1>1, <1>2, <1>3, <1>4, <1>5 DEF IInv

\* Every step, or stutter, preserves the invariant.
LEMMA IInvStep == IInv /\ [Next]_vars => IInv'
  BY TypeOKStep, FreshIsFreeStep, SeenCancellableStep, QueuedIsClaimableStep,
     LedgerMatchesLeaseStep, DeadLetterExactStep, HistoryAddsUpStep,
     ReceiptsTruthfulStep
  DEF IInv

\* IInv holds throughout, for every instance: the lemma the theorems cite.
LEMMA IInvHolds == Spec => []IInv
<1>1. QED  BY InitIInv, IInvStep, PTL DEF Spec

-----------------------------------------------------------------------------
\* Types: in particular a task never has more attempts than its budget.
THEOREM TypeCorrect == Spec => []TypeOK
<1>1. IInv => TypeOK  BY DEF IInv
<1>2. QED  BY <1>1, IInvHolds, PTL

\* No task is left in the queue that claim_worker_task would refuse for ever.
THEOREM QueueAlwaysClaimable == Spec => []QueuedIsClaimable
<1>1. IInv => QueuedIsClaimable  BY DEF IInv
<1>2. QED  BY <1>1, IInvHolds, PTL

\* The attempt ledger and the lease columns never disagree.
THEOREM LedgerAlwaysMatches == Spec => []LedgerMatchesLease
<1>1. IInv => LedgerMatchesLease  BY DEF IInv
<1>2. QED  BY <1>1, IInvHolds, PTL

\* Dead letters are exact: one row, and only after the last attempt.
THEOREM DeadLettersAlwaysExact == Spec => []DeadLetterExact
<1>1. IInv => DeadLetterExact  BY DEF IInv
<1>2. QED  BY <1>1, IInvHolds, PTL

\* A stored answer to complete or cancel stays true for ever.
THEOREM ReceiptsAlwaysTruthful == Spec => []ReceiptsTruthful
<1>1. IInv => ReceiptsTruthful  BY DEF IInv
<1>2. QED  BY <1>1, IInvHolds, PTL

\* Whatever interleaves, the history counts what the row and the ledger tell.
THEOREM HistoryAlwaysAddsUp == Spec => []HistoryAddsUp
<1>1. IInv => HistoryAddsUp  BY DEF IInv
<1>2. QED  BY <1>1, IInvHolds, PTL

\* The outcome of an attempt is written once, and attempt numbers are not
\* reused: closing needs an open attempt, claiming a fresh number.
THEOREM LedgerNeverRewritten == Spec => LedgerIsAppendOnly
<1> DEFINE Kept == \A t \in Tasks, n \in 1 .. MaxAttempts :
                      ledger[t][n].result \notin {"NONE", "OPEN"} =>
                          ledger'[t][n] = ledger[t][n]
<1>1. ASSUME IInv, [Next]_vars PROVE Kept
  <2> USE <1>1 DEF IInv, TypeOK, RowsOK
  <2>1. ASSUME NEW t \in Tasks, NEW w \in Workers, NEW d \in Lags,
               ClaimWorker(t, w, d)
        PROVE  Kept
    <3>1. ledger[t][attempts[t] + 1].result = "NONE"
      BY <2>1, AttemptsAssumption DEF ClaimWorker, Claimable, LedgerMatchesLease
    <3>2. \A u \in Tasks, n \in 1 .. MaxAttempts :
            u # t \/ n # attempts[t] + 1 => ledger'[u][n] = ledger[u][n]
      BY <2>1 DEF ClaimWorker
    <3>3. QED  BY <3>1, <3>2
  <2>2. ASSUME NEW S \in SUBSET Tasks, NEW result, Ended(S, result) PROVE Kept
    BY <2>2 DEF Ended
  <2>3. ASSUME NEW t \in Tasks, NEW w \in Workers,
               \/ \E d \in Lags, r \in RetryDelays : FailAndRetry(t, w, d, r)
               \/ FailForGood(t, w)
        PROVE  Kept
    BY <2>2, <2>3, ZenonT(60) DEF FailAndRetry, FailForGood
  <2>4. ASSUME NEW S \in SUBSET Tasks, NEW d \in Lags, Recover(S, d) PROVE Kept
    BY <2>2, <2>4 DEF Recover
  <2>5. CASE UNCHANGED ledger
    BY <2>5
  <2>6. QED
    BY <2>1, <2>3, <2>4, <2>5
    DEF Next, WorkerNext, HumanNext, Create, StartWorker, Heartbeat, HumanClaim,
        HumanStart, Complete, CancelRead, CancelWrite, CancelConflict,
        Transition, Tick, vars
<1>2. QED  BY <1>1, IInvHolds, PTL DEF Spec, LedgerIsAppendOnly

\* Nobody takes a running lease away from a worker.
THEOREM LeaseNeverStolen == Spec => EvictedOnlyAfterExpiry
<1> DEFINE Fair(t) == owner[t] # NoOne /\ owner'[t] # owner[t] =>
                        \/ lease[t] <= 0
                        \/ ledger'[t][attempts[t]].result = "RETRYABLE_FAILURE"
<1>1. ASSUME IInv, [Next]_vars, NEW t \in Tasks PROVE Fair(t)
  <2> USE <1>1 DEF IInv, TypeOK, RowsOK
  <2>1. ASSUME NEW u \in Tasks, NEW w \in Workers, NEW d \in Lags,
               ClaimWorker(u, w, d)
        PROVE  Fair(t)
    BY <2>1 DEF ClaimWorker, Claimable, QueuedIsClaimable
  <2>2. ASSUME NEW u \in Tasks, NEW w \in Workers, MayFail(u, w),
               Released({u}), Ended({u}, "RETRYABLE_FAILURE")
        PROVE  Fair(t)
    <3>1. CASE t = u
      <4>1. owner[t] # NoOne
        BY <2>2, <3>1, NoOneAssumption DEF MayFail
      <4>2. attempts[t] \in 1 .. MaxAttempts
        <5>1. attempts[t] # 0
          BY <2>2, <3>1, NoOneAssumption DEF MayFail, FreshIsFree
        <5>2. attempts[t] \in 0 .. MaxAttempts
          OBVIOUS
        <5>3. QED  BY <5>1, <5>2, AttemptsAssumption
      <4>3. ledger[t][attempts[t]].result = "OPEN"
        BY <4>1, <4>2 DEF LedgerMatchesLease
      <4>4. QED  BY <2>2, <3>1, <4>2, <4>3 DEF Ended
    <3>2. CASE t # u
      BY <2>2, <3>2 DEF Released
    <3>3. QED  BY <3>1, <3>2
  <2>3. ASSUME NEW S \in SUBSET Tasks, NEW d \in Lags, Recover(S, d) PROVE Fair(t)
    <3>1. CASE t \in S
      <4>1. lease[t] <= -d /\ d \in Nat /\ lease[t] \in Int
        BY <2>3, <3>1, TimeAssumption DEF Recover, Stale, Lags, Timer
      <4>2. QED  BY <4>1
    <3>2. CASE t \notin S
      BY <2>3, <3>2 DEF Recover, Released
    <3>3. QED  BY <3>1, <3>2
  <2>4. CASE UNCHANGED owner
    BY <2>4
  <2>5. QED
    BY <2>1, <2>2, <2>3, <2>4, ZenonT(60)
    DEF Next, WorkerNext, HumanNext, Create, StartWorker, Heartbeat, FailAndRetry,
        FailForGood, HumanClaim, HumanStart, Complete, CancelRead, CancelWrite,
        CancelConflict, Transition, Tick, vars
<1>2. IInv /\ [Next]_vars => \A t \in Tasks : Fair(t)
  BY <1>1
<1>3. QED  BY <1>2, IInvHolds, PTL DEF Spec, EvictedOnlyAfterExpiry

-----------------------------------------------------------------------------
(***************************************************************************)
(* Refinement: every step is a step of TaskPromise or leaves its variables *)
(* alone.                                                                  *)
(***************************************************************************)
\* A status and the phase it stands for.
LEMMA PhaseOfStatus ==
    ASSUME NEW s \in Statuses
    PROVE  /\ (PhaseOf(s) = "absent") <=> (s = "NONE")
           /\ (PhaseOf(s) = "open")   <=> (s \in Open)
           /\ (PhaseOf(s) = "held")   <=> (s \in Held)
           /\ (PhaseOf(s) = "closed") <=> (s \in Terminal)
  BY DEF PhaseOf, Statuses, Open, Held, Terminal

\* The task engine keeps the promise of the abstract specification: no task
\* is taken while it is held, requeued without tries, or reopened.
THEOREM EngineKeepsPromise == Spec => PromiseKept
<1>1. Init => Promise!PromiseInit
  <2>1. PhaseOf("NONE") = "absent"
    BY PhaseOfStatus DEF Statuses
  <2>2. QED  BY <2>1 DEF Init, Promise!PromiseInit, phase
<1>2. ASSUME IInv, IInv', [Next]_vars
      PROVE  [Promise!PromiseNext]_(Promise!promiseVars)
  <2>1. /\ phase = [t \in Tasks |-> PhaseOf(status[t])]
        /\ phase' = [t \in Tasks |-> PhaseOf(status'[t])]
        /\ TypeOK /\ TypeOK'
    BY <1>2 DEF phase, IInv
  <2>3. \A t \in Tasks :
          /\ phase[t] = PhaseOf(status[t]) /\ phase'[t] = PhaseOf(status'[t])
          /\ status[t] \in Statuses /\ status'[t] \in Statuses
    BY <2>1 DEF TypeOK, RowsOK
  <2> DEFINE Names == /\ PhaseOf("READY") = "open"
                      /\ PhaseOf("RETRY_WAIT") = "open"
                      /\ PhaseOf("CLAIMED") = "held"
                      /\ PhaseOf("IN_PROGRESS") = "held"
                      /\ PhaseOf("COMPLETED") = "closed"
                      /\ PhaseOf("CANCELLED") = "closed"
                      /\ PhaseOf("DEAD_LETTER") = "closed"
  <2>2. Names
    BY PhaseOfStatus DEF Statuses, Open, Held, Terminal
  <2>0. \A t \in Tasks :
           /\ status[t] = "NONE" => phase[t] = "absent"
           /\ status[t] \in Open => phase[t] = "open"
           /\ status[t] \in Held => phase[t] = "held"
    BY <2>3, PhaseOfStatus
  <2>4. ASSUME NEW t \in Tasks, NEW d \in Lags, Create(t, d)
        PROVE  Promise!Appear(t)
    <3>1. status' = [status EXCEPT ![t] = "READY"] /\ status[t] = "NONE"
      BY <2>4 DEF Create
    <3>2. phase' = [phase EXCEPT ![t] = "open"]
      BY <2>1, <2>2, <3>1 DEF TypeOK, RowsOK
    <3>3. phase[t] = "absent"
      BY <2>0, <3>1 DEF Open, Held
    <3>4. QED  BY <2>4, <3>1, <3>2, <3>3 DEF Create, Promise!Appear
  <2>5. ASSUME NEW t \in Tasks, NEW w \in Workers, NEW d \in Lags,
               ClaimWorker(t, w, d)
        PROVE  Promise!TakeByWorker(t)
    <3>1. status' = [status EXCEPT ![t] = "CLAIMED"] /\ status[t] \in Open
      BY <2>5 DEF ClaimWorker, Claimable
    <3>2. phase' = [phase EXCEPT ![t] = "held"]
      BY <2>1, <2>2, <3>1 DEF TypeOK, RowsOK
    <3>3. phase[t] = "open"
      BY <2>0, <3>1 DEF Open, Held
    <3>4. QED  BY <2>5, <3>1, <3>2, <3>3 DEF ClaimWorker, Claimable, Promise!TakeByWorker
  <2>6. ASSUME NEW t \in Tasks, NEW w \in Workers, NEW d \in Lags,
               StartWorker(t, w, d)
        PROVE  UNCHANGED Promise!promiseVars
    <3>1. \A u \in Tasks : phase'[u] = phase[u]
      BY <2>1, <2>2, <2>6 DEF StartWorker, TypeOK, RowsOK
    <3>2. QED  BY <2>1, <2>6, <3>1 DEF StartWorker, Promise!promiseVars
  <2>7. ASSUME NEW t \in Tasks, NEW w \in Workers, NEW d \in Lags,
               NEW r \in RetryDelays, FailAndRetry(t, w, d, r)
        PROVE  Promise!GiveBack({t})
    <3>1. status' = [status EXCEPT ![t] = "RETRY_WAIT"] /\ status[t] \in Held
      BY <2>7 DEF FailAndRetry, MayFail
    <3>2. phase' = [phase EXCEPT ![t] = "open"]
      BY <2>1, <2>2, <3>1 DEF TypeOK, RowsOK
    <3>3. phase[t] = "held"
      BY <2>0, <3>1 DEF Open, Held
    <3>4. QED  BY <2>1, <2>7, <3>1, <3>2, <3>3 DEF FailAndRetry, Promise!GiveBack
  <2>8. ASSUME NEW t \in Tasks, NEW w \in Workers, FailForGood(t, w)
        PROVE  Promise!Close(t)
    <3>1. status' = [status EXCEPT ![t] = "DEAD_LETTER"] /\ status[t] \in Held
      BY <2>8 DEF FailForGood, MayFail
    <3>2. phase' = [phase EXCEPT ![t] = "closed"]
      BY <2>1, <2>2, <3>1 DEF TypeOK, RowsOK
    <3>3. phase[t] = "held"
      BY <2>0, <3>1 DEF Open, Held
    <3>4. QED  BY <2>8, <3>1, <3>2, <3>3 DEF FailForGood, Promise!Close
  <2>9. ASSUME NEW S \in SUBSET Tasks, NEW d \in Lags, Recover(S, d)
        PROVE  Promise!GiveBack(S)
    <3>1. \A u \in Tasks \ S : phase'[u] = phase[u]
      BY <2>1, <2>9 DEF Recover
    <3>2. \A u \in S : phase[u] = "held" /\ phase'[u] = "open"
      BY <2>0, <2>2, <2>3, <2>9 DEF Recover, Stale
    <3>3. QED  BY <2>1, <2>9, <3>1, <3>2 DEF Recover, Stale, Promise!GiveBack
  <2>10. ASSUME NEW t \in Tasks, HumanClaim(t)
        PROVE  Promise!TakeByHuman(t)
    <3>1. status' = [status EXCEPT ![t] = "CLAIMED"] /\ status[t] = "READY"
      BY <2>10 DEF HumanClaim, Transition
    <3>2. phase' = [phase EXCEPT ![t] = "held"]
      BY <2>1, <2>2, <3>1 DEF TypeOK, RowsOK
    <3>3. phase[t] = "open"
      BY <2>0, <3>1 DEF Open, Held
    <3>4. QED  BY <2>10, <3>1, <3>2, <3>3 DEF HumanClaim, Transition, Promise!TakeByHuman
  <2>11. ASSUME NEW t \in Tasks, HumanStart(t)
         PROVE  UNCHANGED Promise!promiseVars
    <3>1. \A u \in Tasks : phase'[u] = phase[u]
      BY <2>1, <2>2, <2>11 DEF HumanStart, Transition, TypeOK, RowsOK
    <3>2. QED  BY <2>1, <2>11, <3>1 DEF HumanStart, Transition, Promise!promiseVars
  <2>12. ASSUME NEW t \in Tasks, NEW k \in Keys, Complete(t, k)
        PROVE  Promise!Close(t)
    <3>1. status' = [status EXCEPT ![t] = "COMPLETED"] /\ status[t] = "IN_PROGRESS"
      BY <2>12 DEF Complete, Transition
    <3>2. phase' = [phase EXCEPT ![t] = "closed"]
      BY <2>1, <2>2, <3>1 DEF TypeOK, RowsOK
    <3>3. phase[t] = "held"
      BY <2>0, <3>1 DEF Open, Held
    <3>4. QED  BY <2>12, <3>1, <3>2, <3>3 DEF Complete, Transition, Promise!Close
  <2>13. ASSUME NEW h \in Humans, CancelWrite(h)
         PROVE  \E t \in Tasks : Promise!Close(t)
    <3>1. PICK s \in seen[h] : Transition(s.task, s.status, "CANCELLED")
      BY <2>13 DEF CancelWrite
    <3>2. /\ s.task \in Tasks /\ s.status \in Open \union Held
          /\ status[s.task] = s.status
          /\ status' = [status EXCEPT ![s.task] = "CANCELLED"]
          /\ attempts' = attempts
      BY <1>2, <3>1 DEF IInv, TypeOK, RowsOK, SeenCancellable, Transition
    <3>3. phase' = [phase EXCEPT ![s.task] = "closed"]
      BY <2>1, <2>2, <3>2 DEF TypeOK, RowsOK
    <3>4. phase[s.task] \in {"open", "held"}
      BY <2>0, <3>2
    <3>5. Promise!Close(s.task)
      BY <3>2, <3>3, <3>4 DEF Promise!Close
    <3>6. QED  BY <3>2, <3>5
  <2>14. CASE UNCHANGED <<status, attempts>>
    BY <2>14 DEF phase, Promise!promiseVars
  <2>15. QED
    BY <1>2, <2>4, <2>5, <2>6, <2>7, <2>8, <2>9, <2>10, <2>11, <2>12, <2>13, <2>14
    DEF Next, WorkerNext, HumanNext, Promise!PromiseNext, Heartbeat, CancelRead,
        CancelConflict, Tick, vars
<1>3. QED
  BY <1>1, <1>2, IInvHolds, PTL DEF Spec, PromiseKept, Promise!PromiseSpec
=============================================================================
