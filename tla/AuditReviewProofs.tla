-------------------------- MODULE AuditReviewProofs --------------------------
(***************************************************************************)
(* Proofs about AuditReview for any number of concurrent requests, any     *)
(* keys, any bound on the commands and with requests lost at any step.     *)
(***************************************************************************)
EXTENDS AuditReview, TLAPS, FiniteSetTheorems

\* What a running request is: it has a command, and only the end clears it.
RequestOK ==
    /\ pc \in [Requests -> Steps]
    /\ cmd \in [Requests -> Commands \union {NoCommand}]
    /\ \A r \in Requests : pc[r] # "idle" => cmd[r] \in Commands
    /\ link = [r \in Requests |-> link[r]]

\* No two requests hold the lock of the same key, the journey row or the head.
LocksExclusive ==
    \A q, r \in Requests : q # r =>
        /\ ~(HasKeyLock(q) /\ HasKeyLock(r) /\ SameScope(cmd[q], cmd[r]))
        /\ ~(HasRowLock(q) /\ HasRowLock(r))

\* While a request holds the lock of its key, nobody has used the key.
KeyStillFresh ==
    \A r \in Requests : HasKeyLock(r) => Stored(r) = {}

\* While a request holds the lock of the head, what it read is still the head.
LinkStillCurrent ==
    \A r \in Requests : HasHeadLock(r) => link[r] = head

IInv ==
    /\ RequestOK
    /\ head.seq \in Nat
    /\ LocksExclusive
    /\ KeyStillFresh
    /\ LinkStillCurrent
    /\ ChainIntact
    /\ OneEffectPerKey

\* With no request running and an empty trail, the invariant holds.
LEMMA InitIInv == Init => IInv
<1> SUFFICES ASSUME Init PROVE IInv
  OBVIOUS
<1> USE DEF Init
<1>1. RequestOK
  BY DEF RequestOK, Steps
<1>2. LocksExclusive /\ KeyStillFresh /\ LinkStillCurrent
  BY DEF LocksExclusive, KeyStillFresh, LinkStillCurrent, HasKeyLock,
         HasRowLock, HasHeadLock
<1>3. head.seq \in Nat /\ ChainIntact
  BY DEF ChainIntact, NoLink
<1>4. OneEffectPerKey
  BY DEF OneEffectPerKey
<1>5. QED  BY <1>1, <1>2, <1>3, <1>4 DEF IInv

\* The commands of the requests are kept in order by every step.
LEMMA RequestOKStep == RequestOK /\ [Next]_vars => RequestOK'
<1> SUFFICES ASSUME RequestOK, [Next]_vars PROVE RequestOK'
  OBVIOUS
<1> USE DEF RequestOK, Steps
<1>1. CASE UNCHANGED vars
  BY <1>1 DEF vars
<1>2. ASSUME NEW r \in Requests, NEW c \in Commands, Begin(r, c)
      PROVE  RequestOK'
  BY <1>2 DEF Begin
<1>3. ASSUME NEW r \in Requests, End(r) PROVE RequestOK'
  BY <1>3 DEF End
<1>4. ASSUME NEW r \in Requests, NEW step \in Steps \ {"idle"}, pc[r] # "idle",
             Goto(r, step), link' = link \/ link' = [link EXCEPT ![r] = head]
      PROVE  RequestOK'
  BY <1>4 DEF Goto
<1>5. QED
  BY <1>1, <1>2, <1>3, <1>4
  DEF Next, TakeKeyLock, Replay, ReadState, WriteJourney, LockHead, Commit, Abort

\* A lock is taken only when it is free, and is otherwise only given up.
LEMMA LocksExclusiveStep ==
    RequestOK /\ LocksExclusive /\ [Next]_vars => LocksExclusive'
<1> SUFFICES ASSUME RequestOK, LocksExclusive, [Next]_vars
             PROVE  LocksExclusive'
  OBVIOUS
<1> USE DEF RequestOK, LocksExclusive, HasKeyLock, HasRowLock
<1>1. CASE UNCHANGED vars
  BY <1>1 DEF vars
<1>2. ASSUME NEW r \in Requests, NEW c \in Commands, Begin(r, c)
      PROVE  LocksExclusive'
  BY <1>2 DEF Begin, Idempotent, SameScope
<1>3. ASSUME NEW r \in Requests, End(r) PROVE LocksExclusive'
  BY <1>3 DEF End
<1>4. ASSUME NEW r \in Requests, TakeKeyLock(r) PROVE LocksExclusive'
  BY <1>4 DEF TakeKeyLock, KeyLockFree, Goto, SameScope
<1>5. ASSUME NEW r \in Requests, pc[r] = "reading", Goto(r, "writing")
      PROVE  LocksExclusive'
  BY <1>5 DEF Goto
<1>6. ASSUME NEW r \in Requests, WriteJourney(r) PROVE LocksExclusive'
  BY <1>6 DEF WriteJourney, Goto
<1>7. ASSUME NEW r \in Requests, LockHead(r) PROVE LocksExclusive'
  BY <1>7 DEF LockHead, Goto
<1>8. QED
  BY <1>1, <1>2, <1>3, <1>4, <1>5, <1>6, <1>7
  DEF Next, Replay, ReadState, Commit, Abort

-----------------------------------------------------------------------------
\* Everything committed changes in Commit only.
LEMMA OnlyCommitWrites ==
    ASSUME [Next]_vars
    PROVE  UNCHANGED committed \/ \E r \in Requests : Commit(r)
  BY DEF Next, Begin, TakeKeyLock, Replay, ReadState, WriteJourney, LockHead,
         Abort, vars, committed

\* A request that has a lock after a step had it before, or just took it.
LEMMA KeyStillFreshStep ==
    IInv /\ [Next]_vars => KeyStillFresh'
<1> SUFFICES ASSUME IInv, [Next]_vars PROVE KeyStillFresh'
  OBVIOUS
<1> USE DEF IInv, RequestOK, KeyStillFresh, Stored
<1>1. ASSUME NEW r \in Requests, Commit(r) PROVE KeyStillFresh'
  <2> SUFFICES ASSUME NEW q \in Requests, HasKeyLock(q)' PROVE Stored(q)' = {}
    OBVIOUS
  <2>1. q # r /\ HasKeyLock(q) /\ cmd'[q] = cmd[q]
    BY <1>1 DEF Commit, End, HasKeyLock
  <2>2. CASE Idempotent(cmd[r])
    <3>1. HasKeyLock(r)
      BY <1>1, <2>2 DEF Commit, HasKeyLock
    <3>2. ~SameScope(cmd[q], cmd[r])
      BY <2>1, <3>1 DEF LocksExclusive
    <3>3. receipts' = receipts \union {cmd[r]}
      BY <1>1, <2>2 DEF Commit, NewReceipts
    <3>4. QED  BY <2>1, <3>2, <3>3 DEF SameScope
  <2>3. CASE ~Idempotent(cmd[r])
    <3>1. receipts' = receipts
      BY <1>1, <2>3 DEF Commit, NewReceipts
    <3>2. QED  BY <2>1, <3>1
  <2>4. QED  BY <2>2, <2>3
<1>2. CASE UNCHANGED committed
  <2> SUFFICES ASSUME NEW q \in Requests, HasKeyLock(q)' PROVE Stored(q)' = {}
    OBVIOUS
  <2>1. receipts' = receipts
    BY <1>2 DEF committed
  <2>2. CASE HasKeyLock(q) /\ cmd'[q] = cmd[q]
    BY <2>1, <2>2
  <2>3. CASE TakeKeyLock(q)
    BY <2>1, <2>3 DEF TakeKeyLock, Goto
  <2>4. (HasKeyLock(q) /\ cmd'[q] = cmd[q]) \/ TakeKeyLock(q)
    BY ZenonT(60)
    DEF Next, Begin, TakeKeyLock, Replay, ReadState, WriteJourney, LockHead,
        Commit, Abort, Goto, End, vars, HasKeyLock, Idempotent
  <2>5. QED  BY <2>2, <2>3, <2>4
<1>3. QED  BY <1>1, <1>2, OnlyCommitWrites

\* Only the holder of the row writes the head, so nobody else's read of it
\* can have gone stale.
LEMMA LinkStillCurrentStep ==
    IInv /\ [Next]_vars => LinkStillCurrent'
<1> SUFFICES ASSUME IInv, [Next]_vars, NEW q \in Requests, HasHeadLock(q)'
             PROVE  link'[q] = head'
  BY DEF LinkStillCurrent
<1> USE DEF IInv, RequestOK, HasHeadLock
<1>1. ASSUME NEW r \in Requests, Commit(r) PROVE FALSE
  BY <1>1 DEF Commit, End, LocksExclusive, HasRowLock
<1>2. CASE UNCHANGED committed
  <2>1. head' = head
    BY <1>2 DEF committed
  <2>2. CASE LockHead(q)
    BY <2>1, <2>2 DEF LockHead, LinkStillCurrent
  <2>3. (HasHeadLock(q) /\ link'[q] = link[q]) \/ LockHead(q)
    BY ZenonT(60)
    DEF Next, Begin, TakeKeyLock, Replay, ReadState, WriteJourney, LockHead,
        Commit, Abort, Goto, End, vars, committed
  <2>4. QED  BY <2>1, <2>2, <2>3 DEF LinkStillCurrent
<1>3. QED  BY <1>1, <1>2, OnlyCommitWrites

-----------------------------------------------------------------------------
\* The event a request appends seals the event at the head of the trail.
LEMMA EventSealsHead ==
    ASSUME IInv, NEW r \in Requests, Commit(r)
    PROVE  /\ events' = events \union {NewEvent(r)}
           /\ NewEvent(r).seq = head.seq + 1
           /\ NewEvent(r).prev = head.hash
           /\ NewEvent(r).cmd = cmd[r]
           /\ NewEvent(r).hash =
                 Hash(head.hash, <<NewEvent(r).seq, NewEvent(r).to>>)
           /\ head'.seq = NewEvent(r).seq
           /\ head'.hash = NewEvent(r).hash
  BY DEF IInv, LinkStillCurrent, HasHeadLock, Commit, NewEvent, NewHead

\* Appending behind the head keeps the trail one unbroken chain.
LEMMA ChainIntactStep ==
    IInv /\ [Next]_vars => head'.seq \in Nat /\ ChainIntact'
<1> SUFFICES ASSUME IInv, [Next]_vars PROVE head'.seq \in Nat /\ ChainIntact'
  OBVIOUS
<1>1. CASE UNCHANGED committed
  BY <1>1 DEF IInv, ChainIntact, committed
<1>2. ASSUME NEW r \in Requests, Commit(r)
      PROVE  head'.seq \in Nat /\ ChainIntact'
  <2> DEFINE new == NewEvent(r)
  <2>1. /\ events' = events \union {new}
        /\ new.seq = head.seq + 1
        /\ new.prev = head.hash
        /\ new.hash = Hash(head.hash, <<new.seq, new.to>>)
        /\ head'.seq = new.seq
        /\ head'.hash = new.hash
    BY <1>2, EventSealsHead
  <2> HIDE DEF new
  <2>2. head.seq \in Nat /\ ChainIntact
    BY DEF IInv
  <2>3. \A e \in events : e.seq \in 1 .. head.seq
    BY <2>2 DEF ChainIntact
  <2>4. {e.seq : e \in events'} = 1 .. head'.seq
    <3>1. {e.seq : e \in events'} = {e.seq : e \in events} \union {new.seq}
      BY <2>1
    <3>2. {e.seq : e \in events} = 1 .. head.seq
      BY <2>2 DEF ChainIntact
    <3>3. 1 .. head'.seq = (1 .. head.seq) \union {new.seq}
      BY <2>1, <2>2
    <3>4. QED  BY <3>1, <3>2, <3>3
  <2>5. \A e, f \in events' : e.seq = f.seq => e = f
    BY <2>1, <2>2, <2>3 DEF ChainIntact
  <2>6. \A e \in events' : e.hash = Hash(e.prev, <<e.seq, e.to>>)
    BY <2>1, <2>2 DEF ChainIntact
  <2>7. \A e \in events' : e.seq = 1 => e.prev = NoHash
    BY <2>1, <2>2, <2>3 DEF ChainIntact
  <2>8. \A e, f \in events' : f.seq = e.seq + 1 => f.prev = e.hash
    BY <2>1, <2>2, <2>3 DEF ChainIntact
  <2>9. \A e \in events' : e.seq = head'.seq => e.hash = head'.hash
    BY <2>1, <2>2, <2>3 DEF ChainIntact
  <2>10. head'.seq \in Nat /\ head'.seq # 0
    BY <2>1, <2>2
  <2>11. QED
    BY <2>4, <2>5, <2>6, <2>7, <2>8, <2>9, <2>10 DEF ChainIntact
<1>3. QED  BY <1>1, <1>2, OnlyCommitWrites

\* The key of a committing request is locked by it and was never used.
LEMMA OneEffectPerKeyStep == IInv /\ [Next]_vars => OneEffectPerKey'
<1> SUFFICES ASSUME IInv, [Next]_vars PROVE OneEffectPerKey'
  OBVIOUS
<1>1. CASE UNCHANGED committed
  BY <1>1 DEF IInv, OneEffectPerKey, committed
<1>2. ASSUME NEW r \in Requests, Commit(r) PROVE OneEffectPerKey'
  <2> DEFINE new == NewEvent(r)
  <2>1. events' = events \union {new} /\ new.cmd = cmd[r]
    BY <1>2, EventSealsHead
  <2> HIDE DEF new
  <2>2. receipts = {e.cmd : e \in {f \in events : Idempotent(f.cmd)}}
    BY DEF IInv, OneEffectPerKey
  <2>3. receipts' = IF Idempotent(new.cmd) THEN receipts \union {new.cmd}
                                           ELSE receipts
    BY <1>2, <2>1 DEF Commit, NewReceipts
  <2>4. ASSUME NEW e \in events, SameScope(e.cmd, new.cmd), Idempotent(new.cmd)
        PROVE  FALSE
    <3>1. Idempotent(e.cmd)
      BY <2>4 DEF SameScope, Idempotent
    <3>2. e.cmd \in receipts
      BY <2>2, <3>1
    <3>3. HasKeyLock(r)
      BY <1>2, <2>1, <2>4 DEF Commit, HasKeyLock
    <3>4. Stored(r) = {}
      BY <3>3 DEF IInv, KeyStillFresh
    <3>5. QED  BY <2>1, <2>4, <3>2, <3>4 DEF Stored
  <2>5. \A e, f \in events' :
           Idempotent(e.cmd) /\ SameScope(e.cmd, f.cmd) => e = f
    <3> SUFFICES ASSUME NEW e \in events', NEW f \in events',
                        Idempotent(e.cmd), SameScope(e.cmd, f.cmd)
                 PROVE  e = f
      OBVIOUS
    <3>1. SameScope(f.cmd, e.cmd) /\ Idempotent(f.cmd)
      BY DEF SameScope, Idempotent
    <3>2. CASE e \in events /\ f \in events
      BY <3>2 DEF IInv, OneEffectPerKey
    <3>3. QED  BY <2>1, <2>4, <3>1, <3>2
  <2>6. receipts' = {e.cmd : e \in {f \in events' : Idempotent(f.cmd)}}
    BY <2>1, <2>2, <2>3
  <2>7. QED  BY <2>5, <2>6 DEF OneEffectPerKey
<1>3. QED  BY <1>1, <1>2, OnlyCommitWrites

\* The invariant is kept by every step.
LEMMA IInvStep == IInv /\ [Next]_vars => IInv'
<1> SUFFICES ASSUME IInv, [Next]_vars PROVE IInv'
  OBVIOUS
<1>1. RequestOK' /\ LocksExclusive'
  BY RequestOKStep, LocksExclusiveStep DEF IInv
<1>2. KeyStillFresh' /\ LinkStillCurrent'
  BY KeyStillFreshStep, LinkStillCurrentStep
<1>3. head'.seq \in Nat /\ ChainIntact' /\ OneEffectPerKey'
  BY ChainIntactStep, OneEffectPerKeyStep
<1>4. QED  BY <1>1, <1>2, <1>3 DEF IInv

\* The invariant holds always.
LEMMA IInvHolds == Spec => []IInv
  BY InitIInv, IInvStep, PTL DEF Spec

-----------------------------------------------------------------------------
(***************************************************************************)
(* The rows beside the trail.                                              *)
(***************************************************************************)
\* What the counts of the other tables rest on: the trail is finite, and a
\* commit adds an event it did not have.
Told == TypeOK /\ IsFiniteSet(events) /\ TrailTellsEverything

\* With no request running and an empty trail, the tables agree.
LEMMA InitTold == Init => Told
<1> SUFFICES ASSUME Init PROVE Told
  OBVIOUS
<1> USE DEF Init
<1>1. TypeOK
  BY DEF TypeOK, States, Steps, NoLink
<1>2. IsFiniteSet(events) /\ Cardinality({}) = 0
  BY FS_EmptySet
<1>3. TrailTellsEverything
  <2>1. /\ {e \in events : e.cmd.op = "DECIDE"} = {}
        /\ {e \in events : e.cmd.op = "SUBMIT"} = {}
        /\ {e \in events : e.to = "SENT_BACK"} = {}
    OBVIOUS
  <2>2. QED  BY <1>2, <2>1 DEF TrailTellsEverything
<1>4. QED  BY <1>1, <1>2, <1>3 DEF Told

\* What the handlers write has its types.
LEMMA EffectTypes ==
    ASSUME TypeOK, NEW c \in Commands
    PROVE  /\ Target(c) \in States
           /\ Outcome(c) \in {"PENDING", "BREACH", "NO_BREACH"}
           /\ TasksAfter(c) \in [{"TL_REVIEW", "PC_CORRECTION"} -> Nat]
           /\ TasksAfter(c)["TL_REVIEW"] = tasks["TL_REVIEW"]
                 + (IF c.op = "SUBMIT" THEN 1 ELSE 0)
           /\ TasksAfter(c)["PC_CORRECTION"] = tasks["PC_CORRECTION"]
                 + (IF Target(c) = "SENT_BACK" THEN 1 ELSE 0)
           /\ NewReceipts(c) \subseteq Commands
<1>1. \/ c.op = "START" /\ c.decision = "-"
      \/ c.op = "SUBMIT" /\ c.decision = "-"
      \/ c.op = "DECIDE" /\ c.decision \in {"BREACH", "NO_BREACH", "SEND_BACK"}
  BY DecisionsAssumption DEF Commands
<1>2. Target(c) \in States /\ (Target(c) = "SENT_BACK" <=> c.decision = "SEND_BACK")
  BY <1>1 DEF Target, States
<1>3. Outcome(c) \in {"PENDING", "BREACH", "NO_BREACH"}
  BY <1>1 DEF Outcome, TypeOK
<1>4. tasks \in [{"TL_REVIEW", "PC_CORRECTION"} -> Nat]
  BY DEF TypeOK
<1>5. /\ TasksAfter(c) \in [{"TL_REVIEW", "PC_CORRECTION"} -> Nat]
      /\ TasksAfter(c)["TL_REVIEW"] = tasks["TL_REVIEW"]
            + (IF c.op = "SUBMIT" THEN 1 ELSE 0)
      /\ TasksAfter(c)["PC_CORRECTION"] = tasks["PC_CORRECTION"]
            + (IF c.decision = "SEND_BACK" THEN 1 ELSE 0)
  BY <1>4 DEF TasksAfter
<1>6. NewReceipts(c) \subseteq Commands
  BY DEF NewReceipts, TypeOK
<1>7. QED  BY <1>2, <1>3, <1>5, <1>6

\* The command and the copy of the head that each request holds.
LEMMA RequestTypesStep ==
    ASSUME IInv, TypeOK, [Next]_vars
    PROVE  \A q \in Requests :
              /\ cmd'[q] \in (IF pc'[q] = "idle" THEN {NoCommand} ELSE Commands)
              /\ link'[q].seq \in Nat
<1> DEFINE Fine(q) ==
       /\ cmd[q] \in (IF pc[q] = "idle" THEN {NoCommand} ELSE Commands)
       /\ link[q].seq \in Nat
<1>1. (\A q \in Requests : Fine(q)) /\ RequestOK /\ head.seq \in Nat
  BY DEF TypeOK, IInv
<1>2. CASE UNCHANGED vars
  BY <1>1, <1>2 DEF vars
<1>3. ASSUME NEW r \in Requests, NEW c \in Commands, Begin(r, c)
      PROVE  \A q \in Requests : Fine(q)'
  BY <1>1, <1>3 DEF Begin, RequestOK
<1>4. ASSUME NEW r \in Requests, End(r) PROVE \A q \in Requests : Fine(q)'
  BY <1>1, <1>4 DEF End, RequestOK, NoLink
<1>5. ASSUME NEW r \in Requests, NEW step \in Steps \ {"idle"}, pc[r] # "idle",
             Goto(r, step), link' = link \/ link' = [link EXCEPT ![r] = head]
      PROVE  \A q \in Requests : Fine(q)'
  BY <1>1, <1>5 DEF Goto, RequestOK
<1>6. QED
  BY <1>2, <1>3, <1>4, <1>5
  DEF Next, TakeKeyLock, Replay, ReadState, WriteJourney, LockHead, Commit, Abort,
      Steps

\* Every step keeps the types.
LEMMA TypeOKStep ==
    ASSUME IInv, TypeOK, [Next]_vars
    PROVE  TypeOK'
<1>1. pc' \in [Requests -> Steps]
  BY RequestOKStep DEF IInv, RequestOK
<1>2. CASE UNCHANGED committed
  BY <1>1, <1>2, RequestTypesStep DEF TypeOK, committed
<1>3. ASSUME NEW r \in Requests, Commit(r) PROVE TypeOK'
  <2>1. cmd[r] \in Commands /\ head.seq \in Nat
    BY <1>3 DEF IInv, RequestOK, Commit
  <2> DEFINE c == cmd[r]
             new == NewEvent(r)
  <2>2. /\ events' = events \union {new} /\ new.seq = head.seq + 1
        /\ new.cmd = c /\ head'.seq = head.seq + 1 /\ new.to = Target(c)
    BY <1>3, EventSealsHead DEF NewEvent
  <2>3. /\ state' = Target(c) /\ outcome' = Outcome(c)
        /\ decided' = decided + (IF c.op = "DECIDE" THEN 1 ELSE 0)
        /\ tasks' = TasksAfter(c) /\ outbox' = outbox + 1
        /\ receipts' = NewReceipts(c)
    BY <1>3 DEF Commit
  <2> HIDE DEF new, c
  <2>4. /\ state' \in States /\ outcome' \in {"PENDING", "BREACH", "NO_BREACH"}
        /\ tasks' \in [{"TL_REVIEW", "PC_CORRECTION"} -> Nat]
        /\ receipts' \subseteq Commands /\ Target(c) \in States
    BY <2>1, <2>3, EffectTypes DEF c
  <2>5. outbox' \in Nat /\ decided' \in Nat /\ head'.seq \in Nat
    BY <2>1, <2>2, <2>3 DEF TypeOK
  <2>6. \A e \in events' : /\ e.seq \in Nat \ {0} /\ e.cmd \in Commands
                           /\ e.to \in States
    BY <2>1, <2>2, <2>4 DEF TypeOK, c
  <2>7. QED  BY <1>1, <2>4, <2>5, <2>6, RequestTypesStep DEF TypeOK
<1>4. QED  BY <1>2, <1>3, OnlyCommitWrites

\* One more event, counted if it is of the kind that S collects.
LEMMA CountOne ==
    ASSUME NEW E, NEW e, e \notin E, IsFiniteSet(E), NEW S, S \subseteq E
    PROVE  /\ Cardinality(S \union {e}) = Cardinality(S) + 1
           /\ Cardinality(S) \in Nat
<1>1. IsFiniteSet(S)
  BY FS_Subset
<1>2. QED  BY <1>1, FS_AddElement, FS_CardinalityType

\* A commit adds one event, and to each table what that event counts for.
LEMMA TrailStep ==
    ASSUME IInv, Told, [Next]_vars
    PROVE  IsFiniteSet(events)' /\ TrailTellsEverything'
<1>1. CASE UNCHANGED committed
  BY <1>1 DEF Told, TrailTellsEverything, committed
<1>2. ASSUME NEW r \in Requests, Commit(r)
      PROVE  IsFiniteSet(events)' /\ TrailTellsEverything'
  <2> DEFINE c == cmd[r]
             new == NewEvent(r)
             Decides(E) == {e \in E : e.cmd.op = "DECIDE"}
             Submits(E) == {e \in E : e.cmd.op = "SUBMIT"}
             Returns(E) == {e \in E : e.to = "SENT_BACK"}
  <2>1. /\ TypeOK /\ IsFiniteSet(events) /\ TrailTellsEverything
        /\ c \in Commands /\ head.seq \in Nat /\ ChainIntact
    BY <1>2 DEF Told, IInv, RequestOK, Commit
  <2>2. /\ events' = events \union {new} /\ new.seq = head.seq + 1
        /\ new.cmd = c /\ head'.seq = head.seq + 1 /\ new.to = Target(c)
    BY <1>2, EventSealsHead DEF NewEvent
  <2>3. /\ state' = Target(c) /\ outbox' = outbox + 1
        /\ decided' = decided + (IF c.op = "DECIDE" THEN 1 ELSE 0)
        /\ tasks' = TasksAfter(c)
    BY <1>2 DEF Commit
  <2> HIDE DEF c, new
  <2>4. \A e \in events : e.seq \in 1 .. head.seq
    BY <2>1 DEF ChainIntact
  <2>5. new \notin events /\ \A e \in events : e.seq # head'.seq
    BY <2>1, <2>2, <2>4
  <2>6. IsFiniteSet(events')
    BY <2>1, <2>2, FS_AddElement
  <2>7. outbox' = Cardinality(events')
    BY <2>1, <2>2, <2>3, <2>5, CountOne DEF TrailTellsEverything
  <2>8. decided' = Cardinality(Decides(events'))
    <3>1. Decides(events') = IF c.op = "DECIDE" THEN Decides(events) \union {new}
                                                ELSE Decides(events)
      BY <2>2
    <3>2. decided = Cardinality(Decides(events)) /\ Decides(events) \subseteq events
      BY <2>1 DEF TrailTellsEverything
    <3> HIDE DEF Decides
    <3>3. /\ Cardinality(Decides(events) \union {new}) = Cardinality(Decides(events)) + 1
          /\ Cardinality(Decides(events)) \in Nat
      BY <2>1, <2>5, <3>2, CountOne
    <3>4. QED  BY <2>3, <3>1, <3>2, <3>3
  <2>9. tasks'["TL_REVIEW"] = Cardinality(Submits(events'))
    <3>1. Submits(events') = IF c.op = "SUBMIT" THEN Submits(events) \union {new}
                                                ELSE Submits(events)
      BY <2>2
    <3>2. /\ tasks["TL_REVIEW"] = Cardinality(Submits(events))
          /\ Submits(events) \subseteq events
      BY <2>1 DEF TrailTellsEverything
    <3>3. tasks'["TL_REVIEW"] = tasks["TL_REVIEW"] + (IF c.op = "SUBMIT" THEN 1 ELSE 0)
      BY <2>1, <2>3, EffectTypes
    <3> HIDE DEF Submits
    <3>4. /\ Cardinality(Submits(events) \union {new}) = Cardinality(Submits(events)) + 1
          /\ Cardinality(Submits(events)) \in Nat
      BY <2>1, <2>5, <3>2, CountOne
    <3>5. QED  BY <3>1, <3>2, <3>3, <3>4
  <2>10. tasks'["PC_CORRECTION"] = Cardinality(Returns(events'))
    <3>1. Returns(events') = IF Target(c) = "SENT_BACK"
                             THEN Returns(events) \union {new} ELSE Returns(events)
      BY <2>2
    <3>2. /\ tasks["PC_CORRECTION"] = Cardinality(Returns(events))
          /\ Returns(events) \subseteq events
      BY <2>1 DEF TrailTellsEverything
    <3>3. tasks'["PC_CORRECTION"] = tasks["PC_CORRECTION"]
             + (IF Target(c) = "SENT_BACK" THEN 1 ELSE 0)
      BY <2>1, <2>3, EffectTypes
    <3> HIDE DEF Returns
    <3>4. /\ Cardinality(Returns(events) \union {new}) = Cardinality(Returns(events)) + 1
          /\ Cardinality(Returns(events)) \in Nat
      BY <2>1, <2>5, <3>2, CountOne
    <3>5. QED  BY <3>1, <3>2, <3>3, <3>4
  <2>11. \A e \in events' : e.seq = head'.seq => state' = e.to
    BY <2>2, <2>3, <2>5
  <2>12. QED
    BY <2>6, <2>7, <2>8, <2>9, <2>10, <2>11 DEF TrailTellsEverything
<1>3. QED  BY <1>1, <1>2, OnlyCommitWrites

\* The tables agree always.
LEMMA ToldHolds == Spec => []Told
<1>1. IInv /\ Told /\ [Next]_vars => Told'
  BY TypeOKStep, TrailStep DEF Told
<1>2. QED  BY <1>1, InitTold, IInvHolds, PTL DEF Spec

-----------------------------------------------------------------------------
\* append_audit_event under the head's row lock: however many requests append
\* at once, and whichever are lost, the audit trail of a journey is a single
\* hash chain without gap or fork.
THEOREM TrailNeverForks == Spec => []ChainIntact
<1>1. IInv => ChainIntact
  BY DEF IInv
<1>2. QED  BY <1>1, IInvHolds, PTL

\* execute_idempotent_json_command under the key's advisory lock: a repeated
\* or concurrent command with one key takes effect at most once, and what is
\* replayed for it is the record of an effect that was committed.
THEOREM KeysTakeEffectOnce == Spec => []OneEffectPerKey
<1>1. IInv => OneEffectPerKey
  BY DEF IInv
<1>2. QED  BY <1>1, IInvHolds, PTL

\* The row lock of the UPDATE and the FOR UPDATE of the head order the
\* writers of a journey: no two of them are ever past the same lock.
THEOREM WritersAreSerial == Spec => []LocksExclusive
<1>1. IInv => LocksExclusive
  BY DEF IInv
<1>2. QED  BY <1>1, IInvHolds, PTL

\* Every value a request reads or writes is of its column's type.
THEOREM TypeCorrect == Spec => []TypeOK
<1>1. Told => TypeOK
  BY DEF Told
<1>2. QED  BY <1>1, ToldHolds, PTL

\* One transaction writes the journey, the trail, the outbox, the task and the
\* decision: whichever requests overlap or are lost, the tables agree.
THEOREM TablesAgree == Spec => []TrailTellsEverything
<1>1. Told => TrailTellsEverything
  BY DEF Told
<1>2. QED  BY <1>1, ToldHolds, PTL
=============================================================================
