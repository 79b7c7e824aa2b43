------------------------- MODULE WhatsAppChannelProofs -------------------------
(***************************************************************************)
(* For any number of senders, writers, messages, handlers and rows: what   *)
(* the WhatsApp channel does twice, or leaves out, it does in a race.      *)
(*                                                                         *)
(* The invariant says what a claim is worth although it locks nothing: a   *)
(* row that was never claimed twice has one sender (HeldOnce), who knows   *)
(* what Meta knows of it (Told).  A key without racing writers has one     *)
(* pending reply, revived ones apart (Single).  In the sessions, who holds *)
(* a session while it closes is late, and so is the file (LateIsKnown).    *)
(***************************************************************************)
EXTENDS WhatsAppChannel, TLAPS, FiniteSetTheorems

\* A sender has the row it sends no longer in its list.
SendingIsTaken ==
    \A s \in Senders : /\ sender[s].row \notin sender[s].todo
                       /\ sender[s].answer = "none" <=> sender[s].row = 0

\* A row that was never claimed twice has one sender at most.
HeldOnce ==
    \A s, t \in Senders : s # t => Claims(s) \intersect Claims(t) \subseteq twice

\* What a row and Meta say of each other, if no answer was lost.
ToldBySender(s, i) ==
    IF i \in sender[s].todo THEN accepted[i] = 0 /\ outbox[i].state # "sent"
    ELSE IF sender[s].answer = "sent" THEN accepted[i] = 1
    ELSE accepted[i] = 0 /\ outbox[i].state # "sent"

Told ==
    \A i \in Rows \ (twice \union lost) :
        /\ i \notin HeldBy(Senders) =>
              accepted[i] = (IF outbox[i].state = "sent" THEN 1 ELSE 0)
        /\ \A s \in Senders : i \in Claims(s) => ToldBySender(s, i)

\* Replies of a key are single, revived ones apart, unless two writers raced.
Single ==
    \A k \in DedupKeys \ twins :
        /\ \A i, j \in PendingOf(k) \ revived : i = j
        /\ \A w \in Writers : writer[w] = k /\ k # NoKey => PendingOf(k) \subseteq revived

\* The inbox has what was handed on.
HandedOn == \A m \in Messages : dispatched[m] = (IF m \in inbox THEN 1 ELSE 0)

\* Sessions whose files were taken.
HasSubmitted(s) == submitted[s] \notin {NotYet, Claimed}

\* A task that holds a session that was claimed meanwhile is late, and so is what
\* a session did not submit; a session that collects was not claimed.
LateIsKnown ==
    /\ \A h \in Handlers : handler[h].at = "register" =>
          /\ handler[h].session \in Sessions
          /\ submitted[handler[h].session] = NotYet \/ handler[h].msg \in late
    /\ \A s \in Sessions : HasSubmitted(s) =>
          FilesOf(s) \subseteq submitted[s] \union late
    /\ \A s \in Sessions : session[s].state = "collecting" => submitted[s] = NotYet

IInv == TypeOK /\ SendingIsTaken /\ HeldOnce /\ Told /\ Single /\ HandedOn /\ LateIsKnown

-----------------------------------------------------------------------------
\* The initial state satisfies the invariant.
LEMMA InitIInv == Init => IInv
<1> SUFFICES ASSUME Init PROVE IInv
  OBVIOUS
<1> USE DEF Init, InitOutbox, InitSessions
<1>1. OutboxOK
  BY DEF OutboxOK, NoSender, Rows, Sending
<1>2. SessionsOK
  BY DEF SessionsOK, NoFile, Sessions, Task, Idle
<1>3. Rows = {} /\ Sessions = {}
  BY DEF Rows, Sessions
<1>4. SendingIsTaken /\ HeldOnce /\ Told
  BY <1>3 DEF SendingIsTaken, HeldOnce, Told, NoSender, Claims
<1>5. Single
  BY <1>3 DEF Single, PendingOf
<1>6. HandedOn /\ LateIsKnown
  BY <1>3 DEF HandedOn, LateIsKnown, Idle
<1> QED  BY <1>1, <1>2, <1>4, <1>5, <1>6 DEF IInv, TypeOK

\* A sequence whose elements are replaced by others of their type.
LEMMA Replaced ==
    ASSUME NEW S, NEW s \in Seq(S), NEW t,
           t = [i \in DOMAIN s |-> t[i]], \A i \in DOMAIN s : t[i] \in S
    PROVE  t \in Seq(S) /\ Len(t) = Len(s)
  OBVIOUS

\* A step of the outbox keeps its types.
LEMMA OutboxTypes ==
    ASSUME OutboxOK, OutboxNext
    PROVE  OutboxOK'
<1>0. /\ Rows = 1 .. Len(outbox) /\ Len(outbox) \in Nat
      /\ \A i \in Rows : outbox[i] \in Reply
      /\ outbox \in Seq(Reply)
      /\ accepted \in Seq(Nat) /\ Len(accepted) = Len(outbox)
      /\ sender \in [Senders -> Sending]
      /\ writer \in [Writers -> DedupKeys \union {NoKey}]
  BY DEF OutboxOK, Rows
<1>1. ASSUME NEW w \in Writers, NEW k \in DedupKeys, LookUp(w, k)
      PROVE  OutboxOK'
  BY <1>0, <1>1 DEF LookUp, OutboxOK, Sending, Rows
<1>2. ASSUME NEW w \in Writers, Enqueue(w)
      PROVE  OutboxOK'
  <2>1. PICK age \in {"later", "due"} :
           outbox' = Append(outbox, [key |-> writer[w], state |-> "pending",
                                     attempts |-> 0, age |-> age])
    BY <1>2 DEF Enqueue
  <2>2. writer[w] \in DedupKeys
    BY <1>0, <1>2 DEF Enqueue, NoKey
  <2>3. [key |-> writer[w], state |-> "pending", attempts |-> 0, age |-> age] \in Reply
    BY <2>2 DEF Reply, Ages
  <2>4. outbox' \in Seq(Reply) /\ Len(outbox') = Len(outbox) + 1
    BY <1>0, <2>1, <2>3
  <2>5. accepted' \in Seq(Nat) /\ Len(accepted') = Len(accepted) + 1
    BY <1>0, <1>2 DEF Enqueue
  <2>6. writer' \in [Writers -> DedupKeys \union {NoKey}]
    BY <1>0, <1>2 DEF Enqueue
  <2>7. Rows \subseteq Rows'
    BY <1>0, <2>4 DEF Rows
  <2>8. sender' \in [Senders -> Sending']
    BY <1>0, <1>2, <2>4, <2>7 DEF Sending, Enqueue
  <2> QED  BY <1>0, <2>4, <2>5, <2>6, <2>8 DEF OutboxOK
<1>3. ASSUME NEW w \in Writers, GiveUp(w)
      PROVE  OutboxOK'
  BY <1>0, <1>3 DEF GiveUp, OutboxOK, Sending, Rows
<1>4. ASSUME outbox' \in Seq(Reply), Len(outbox') = Len(outbox),
             UNCHANGED <<accepted, writer>>, sender' \in [Senders -> Sending]
      PROVE  OutboxOK'
  BY <1>0, <1>4 DEF OutboxOK, Sending, Rows
<1>5. ASSUME NEW i \in Rows, Tick(i)
      PROVE  OutboxOK'
  <2>1. \A j \in Rows : outbox'[j] \in Reply
    BY <1>0, <1>5 DEF Tick, Rows, Reply, Ages
  <2>2. outbox' = [j \in Rows |-> outbox'[j]]
    BY <1>0, <1>5 DEF Tick, Rows
  <2>3. outbox' \in Seq(Reply) /\ Len(outbox') = Len(outbox)
    BY <1>0, <2>1, <2>2, Replaced DEF Rows
  <2> QED  BY <1>0, <1>4, <1>5, <2>3 DEF Tick
<1>6. ASSUME NEW s \in Senders, ClaimPending(s)
      PROVE  OutboxOK'
  <2>1. ASSUME NEW i \in Rows PROVE outbox'[i] \in Reply
    <3>1. \/ outbox'[i] = outbox[i]
          \/ outbox'[i] = [outbox[i] EXCEPT !.state = "skipped_window"]
          \/ outbox'[i] = [outbox[i] EXCEPT !.attempts = outbox[i].attempts + 1]
      BY <1>6 DEF ClaimPending
    <3>2. outbox[i].attempts + 1 \in Nat
      BY <1>0 DEF Reply
    <3> QED  BY <1>0, <3>1, <3>2 DEF Reply
  <2>2. outbox' = [i \in Rows |-> outbox'[i]]
    BY <1>6 DEF ClaimPending
  <2>3. outbox' \in Seq(Reply) /\ Len(outbox') = Len(outbox)
    BY <1>0, <2>1, <2>2, Replaced DEF Rows
  <2>4. Claimable \subseteq Rows
    BY DEF Claimable
  <2>5. sender' \in [Senders -> Sending]
    BY <1>0, <1>6, <2>4 DEF ClaimPending, Sending
  <2> QED  BY <1>4, <1>6, <2>3, <2>5 DEF ClaimPending
<1>7. ASSUME NEW s \in Senders, MarkSent(s) \/ MarkFailed(s)
      PROVE  OutboxOK'
  <2>1. ASSUME NEW i \in Rows PROVE outbox'[i] \in Reply
    <3>1. \/ outbox'[i] = outbox[i]
          \/ outbox'[i] = [outbox[i] EXCEPT !.state = "sent"]
          \/ outbox'[i] = [outbox[i] EXCEPT !.state = "failed"]
          \/ outbox'[i] = [outbox[i] EXCEPT !.state = "pending", !.age = "later"]
      BY <1>0, <1>7 DEF MarkSent, MarkFailed, Rows
    <3> QED  BY <1>0, <3>1 DEF Reply, Ages
  <2>2. outbox' = [i \in Rows |-> outbox'[i]]
    BY <1>0, <1>7 DEF MarkSent, MarkFailed, Rows
  <2>3. outbox' \in Seq(Reply) /\ Len(outbox') = Len(outbox)
    BY <1>0, <2>1, <2>2, Replaced DEF Rows
  <2>4. Reported(s)
    BY <1>7 DEF MarkSent, MarkFailed
  <2>5. sender' \in [Senders -> Sending]
    <3>1. sender[s] \in Sending
      BY <1>0
    <3>2. [NoSender EXCEPT !.todo = sender[s].todo] \in Sending
      <4>1. /\ sender[s].todo \in SUBSET Rows /\ 0 \in 0 .. Len(outbox)
            /\ "none" \in {"none"} \union Answers
        BY <1>0, <3>1 DEF Sending
      <4>2. [NoSender EXCEPT !.todo = sender[s].todo]
              = [todo |-> sender[s].todo, row |-> 0, answer |-> "none"]
        BY DEF NoSender
      <4> QED  BY <4>1, <4>2 DEF Sending
    <3> QED  BY <1>0, <2>4, <3>2 DEF Reported
  <2> QED  BY <1>4, <1>7, <2>3, <2>5 DEF MarkSent, MarkFailed
<1>8. ASSUME NEW s \in Senders, Die(s)
      PROVE  OutboxOK'
  <2>1. sender' \in [Senders -> Sending]
    BY <1>0, <1>8 DEF Die, Sending, NoSender
  <2> QED  BY <1>0, <1>4, <1>8, <2>1 DEF Die
<1>9. ASSUME NEW s \in Senders, NEW i \in Rows,
             NEW answer \in Answers,
             Send(s, i, answer)
      PROVE  OutboxOK'
  <2>1. accepted' \in Seq(Nat) /\ Len(accepted') = Len(accepted)
    BY <1>0, <1>9 DEF Send
  <2>2. sender' \in [Senders -> Sending]
    BY <1>0, <1>9 DEF Send, Sending, Answers, Accepting
  <2> QED  BY <1>0, <1>9, <2>1, <2>2 DEF Send, OutboxOK, Sending, Rows
<1> QED
  BY <1>1, <1>2, <1>3, <1>5, <1>6, <1>7, <1>8, <1>9 DEF OutboxNext

\* A step of the sessions keeps their types.
LEMMA SessionTypes ==
    ASSUME SessionsOK, SessionNext
    PROVE  SessionsOK'
<1>0. /\ Sessions = 1 .. Len(session) /\ Len(session) \in Nat
      /\ \A s \in Sessions : session[s] \in Session
      /\ session \in Seq(Session)
      /\ submitted \in Seq((SUBSET Messages) \union {NotYet, Claimed})
      /\ Len(submitted) = Len(session)
      /\ dispatched \in [Messages -> Nat]
      /\ fileOf \in [Messages -> 0 .. Len(session)]
      /\ handler \in [Handlers -> Task]
  BY DEF SessionsOK, Sessions
<1>1. ASSUME session' \in Seq(Session), Len(session') = Len(session),
             submitted' \in Seq((SUBSET Messages) \union {NotYet, Claimed}),
             Len(submitted') = Len(submitted),
             dispatched' \in [Messages -> Nat],
             fileOf' \in [Messages -> 0 .. Len(session)],
             handler' \in [Handlers -> Task]
      PROVE  SessionsOK'
  BY <1>0, <1>1 DEF SessionsOK, Task
<1>2. ASSUME NEW h \in Handlers
      PROVE  /\ [handler EXCEPT ![h] = Idle] \in [Handlers -> Task]
             /\ \A at \in {"session", "create", "register", "record"} :
                   [handler EXCEPT ![h].at = at] \in [Handlers -> Task]
  <2>1. Idle \in Task
    BY <1>0 DEF Task, Idle
  <2>2. ASSUME NEW at \in {"session", "create", "register", "record"}
        PROVE  [handler[h] EXCEPT !.at = at] \in Task
    BY <1>0 DEF Task
  <2> QED  BY <1>0, <2>1, <2>2
<1>3. ASSUME NEW h \in Handlers, NEW m \in Messages, Deliver(h, m) \/ RunAgain(h, m)
      PROVE  SessionsOK'
  <2>1. handler' \in [Handlers -> Task]
    <3>1. Idle \in Task
      BY <1>0 DEF Task, Idle
    <3>2. \A at \in {"insert", "session"} :
              [Idle EXCEPT !.at = at, !.msg = m] \in Task
      BY <3>1 DEF Task
    <3> QED  BY <1>0, <1>3, <3>2 DEF Deliver, RunAgain
  <2> QED  BY <1>0, <1>1, <1>3, <2>1 DEF Deliver, RunAgain
<1>4. ASSUME NEW h \in Handlers, InsertInbox(h)
      PROVE  SessionsOK'
  <2>1. dispatched' \in [Messages -> Nat]
    BY <1>0, <1>4 DEF InsertInbox
  <2>2. handler' \in [Handlers -> Task]
    BY <1>2, <1>4 DEF InsertInbox, Goto, Done
  <2> QED  BY <1>0, <1>1, <1>4, <2>1, <2>2 DEF InsertInbox
<1>5. ASSUME NEW h \in Handlers, GetSession(h)
      PROVE  SessionsOK'
  <2>1. \A s \in Open : s \in 0 .. Len(session)
    BY <1>0 DEF Open
  <2>2. handler' \in [Handlers -> Task]
    <3>1. CASE Goto(h, "create")
      BY <1>2, <3>1 DEF Goto
    <3>2. ASSUME NEW s \in Open,
                 handler' = [handler EXCEPT ![h].session = s, ![h].at = "register"]
          PROVE  handler' \in [Handlers -> Task]
      BY <1>0, <2>1, <3>2 DEF Task
    <3> QED  BY <1>5, <3>1, <3>2 DEF GetSession
  <2> QED  BY <1>0, <1>1, <1>5, <2>2 DEF GetSession
<1>6. ASSUME NEW h \in Handlers, CreateSession(h), Open = {}
      PROVE  SessionsOK'
  <2>1. [state |-> "collecting", due |-> FALSE, count |-> 0] \in Session
    BY DEF Session
  <2>2. session' \in Seq(Session) /\ Len(session') = Len(session) + 1
    <3>1. session' = Append(session, [state |-> "collecting", due |-> FALSE, count |-> 0])
      BY <1>6 DEF CreateSession
    <3> QED  BY <1>0, <2>1, <3>1
  <2>3. /\ submitted' \in Seq((SUBSET Messages) \union {NotYet, Claimed})
        /\ Len(submitted') = Len(submitted) + 1
    <3>1. submitted' = Append(submitted, NotYet)
      BY <1>6 DEF CreateSession
    <3>2. NotYet \in (SUBSET Messages) \union {NotYet, Claimed}
      OBVIOUS
    <3> HIDE DEF NotYet
    <3> QED  BY <1>0, <3>1, <3>2
  <2>4. fileOf' \in [Messages -> 0 .. Len(session')]
    BY <1>0, <1>6, <2>2 DEF CreateSession
  <2>5. handler' \in [Handlers -> Task']
    <3>1. [handler[h] EXCEPT !.session = Len(session) + 1, !.at = "register"] \in Task'
      <4>1. handler[h] \in Task /\ Len(session) + 1 \in 0 .. Len(session')
        BY <1>0, <2>2
      <4> QED  BY <4>1 DEF Task
    <3>2. Task \subseteq Task'
      BY <1>0, <2>2 DEF Task
    <3>3. handler' = [handler EXCEPT ![h] =
              [handler[h] EXCEPT !.session = Len(session) + 1, !.at = "register"]]
      BY <1>0, <1>6 DEF CreateSession
    <3> QED  BY <1>0, <3>1, <3>2, <3>3
  <2>6. dispatched' = dispatched
    BY <1>6 DEF CreateSession
  <2> QED  BY <1>0, <2>2, <2>3, <2>4, <2>5, <2>6 DEF SessionsOK
<1>7. ASSUME NEW h \in Handlers, \/ CreateSession(h) /\ Open # {}
                                 \/ Abandon(h)
      PROVE  SessionsOK'
  BY <1>0, <1>1, <1>2, <1>7 DEF CreateSession, Abandon, Done
<1>8. ASSUME NEW h \in Handlers, RegisterFile(h)
      PROVE  SessionsOK'
  <2>1. handler[h].session \in 0 .. Len(session)
    BY <1>0 DEF Task
  <2>2. fileOf' \in [Messages -> 0 .. Len(session)]
    BY <1>0, <1>8, <2>1 DEF RegisterFile
  <2> QED  BY <1>0, <1>1, <1>2, <1>8, <2>2 DEF RegisterFile, Goto
<1>9. ASSUME session' = [x \in Sessions |-> session'[x]],
             \A x \in Sessions : session'[x] \in Session
      PROVE  session' \in Seq(Session) /\ Len(session') = Len(session)
  BY <1>0, <1>9, Replaced DEF Sessions
<1>10. ASSUME NEW h \in Handlers, RecordArrival(h)
      PROVE  SessionsOK'
  <2>1. ASSUME NEW x \in Sessions PROVE session'[x] \in Session
    <3>1. \/ session'[x] = session[x]
          \/ session'[x] = [session[x] EXCEPT !.due = FALSE,
                                           !.count = session[x].count + 1]
      BY <1>0, <1>10 DEF RecordArrival, Sessions
    <3>2. session[x].count + 1 \in Nat
      BY <1>0 DEF Session
    <3> QED  BY <1>0, <3>1, <3>2 DEF Session
  <2>2. session' = [x \in Sessions |-> session'[x]]
    <3>1. session = [x \in Sessions |-> session[x]]
      BY <1>0 DEF Sessions
    <3>2. \E v, i : session' = session \/ session' = [session EXCEPT ![i] = v]
      BY <1>10 DEF RecordArrival
    <3> QED  BY <3>1, <3>2 DEF Sessions
  <2> QED  BY <1>0, <1>1, <1>2, <1>9, <1>10, <2>1, <2>2 DEF RecordArrival, Done
<1>11. ASSUME NEW s \in Sessions, RunOut(s)
       PROVE  SessionsOK'
  <2>1. \A x \in Sessions : session'[x] \in Session
    BY <1>0, <1>11 DEF RunOut, Sessions, Session
  <2>2. session' = [x \in Sessions |-> session'[x]]
    BY <1>0, <1>11 DEF RunOut, Sessions
  <2> QED  BY <1>0, <1>1, <1>9, <1>11, <2>1, <2>2 DEF RunOut
<1>12. ASSUME NEW s \in Sessions, Submit(s)
       PROVE  SessionsOK'
  <2>1. FilesOf(s) \in SUBSET Messages
    BY DEF FilesOf
  <2>2. /\ submitted' \in Seq((SUBSET Messages) \union {NotYet, Claimed})
        /\ Len(submitted') = Len(submitted)
    BY <1>0, <1>12, <2>1 DEF Submit
  <2> QED  BY <1>0, <1>1, <1>12, <2>2 DEF Submit
<1>13. ASSUME NEW s \in Sessions,
              NEW state \in {"processing", "confirming_deal", "gaps_pending",
                             "complete", "parked", "escalated"},
              Becomes(s, state),
              UNCHANGED submitted \/ submitted' = [submitted EXCEPT ![s] = Claimed]
       PROVE  SessionsOK'
  <2>1. \A x \in Sessions : session'[x] \in Session
    BY <1>0, <1>13 DEF Becomes, Sessions, Session
  <2>2. session' = [x \in Sessions |-> session'[x]]
    BY <1>0, <1>13 DEF Becomes, Sessions
  <2>3. /\ submitted' \in Seq((SUBSET Messages) \union {NotYet, Claimed})
        /\ Len(submitted') = Len(submitted)
    <3>1. Claimed \in (SUBSET Messages) \union {NotYet, Claimed}
      OBVIOUS
    <3> HIDE DEF NotYet, Claimed
    <3> QED  BY <1>0, <1>13, <3>1
  <2> QED  BY <1>0, <1>1, <1>9, <1>13, <2>1, <2>2, <2>3 DEF Becomes
<1>14. ASSUME NEW s \in Sessions,
              \/ ClaimForFlush(s)
              \/ \E state \in {"confirming_deal", "gaps_pending", "complete",
                              "parked", "escalated"} : Advance(s, state)
       PROVE  SessionsOK'
  BY <1>13, <1>14 DEF ClaimForFlush, Advance
<1> QED
  BY <1>3, <1>4, <1>5, <1>6, <1>7, <1>8, <1>10, <1>11, <1>12, <1>14 DEF SessionNext
-----------------------------------------------------------------------------
\* Only the INSERT of a new message hands it on.
LEMMA HandedOnStep ==
    ASSUME SessionsOK, HandedOn, SessionNext
    PROVE  HandedOn'
<1>1. ASSUME NEW h \in Handlers, InsertInbox(h)
      PROVE  HandedOn'
  BY <1>1 DEF InsertInbox, IsNew, HandedOn, SessionsOK
<1>2. CASE UNCHANGED <<inbox, dispatched>>
  BY <1>2 DEF HandedOn
<1> QED
  BY <1>1, <1>2
  DEF SessionNext, Deliver, RunAgain, GetSession, CreateSession, RegisterFile,
      RecordArrival, Abandon, RunOut, ClaimForFlush, Submit, Advance, Becomes

\* A task that has its session when it closes is late, and so is its file.
LEMMA LateStep ==
    ASSUME SessionsOK, LateIsKnown, SessionNext
    PROVE  LateIsKnown'
<1>0. /\ Sessions = 1 .. Len(session) /\ Len(session) \in Nat
      /\ session \in Seq(Session) /\ submitted \in Seq((SUBSET Messages) \union {NotYet, Claimed})
      /\ Len(submitted) = Len(session)
      /\ fileOf \in [Messages -> 0 .. Len(session)]
      /\ handler \in [Handlers -> Task]
  BY DEF SessionsOK, Sessions
<1>1. ASSUME Sessions' = Sessions,
             \A s \in Sessions : session'[s].state = session[s].state,
             UNCHANGED <<submitted, fileOf>>, late \subseteq late',
             \A g \in Handlers : handler'[g].at = "register" => handler'[g] = handler[g]
      PROVE  LateIsKnown'
  BY <1>1 DEF LateIsKnown, HasSubmitted, FilesOf
<1>2. ASSUME NEW h \in Handlers, NEW m \in Messages, Deliver(h, m) \/ RunAgain(h, m)
      PROVE  LateIsKnown'
  BY <1>0, <1>1, <1>2 DEF Deliver, RunAgain, Idle, Sessions
<1>3. ASSUME NEW h \in Handlers,
             Goto(h, "session") \/ Goto(h, "create") \/ Goto(h, "record") \/ Done(h)
      PROVE  \A g \in Handlers : handler'[g].at = "register" => handler'[g] = handler[g]
  BY <1>0, <1>3 DEF Goto, Done, Idle, Task
<1>4. ASSUME NEW h \in Handlers, InsertInbox(h) \/ Abandon(h)
      PROVE  LateIsKnown'
  BY <1>1, <1>3, <1>4 DEF InsertInbox, Abandon, Sessions
<1>5. ASSUME NEW h \in Handlers, GetSession(h)
      PROVE  LateIsKnown'
  <2>1. CASE Goto(h, "create") /\ UNCHANGED late
    BY <1>1, <1>3, <1>5, <2>1 DEF GetSession, Sessions
  <2>2. ASSUME NEW s \in Open,
               handler' = [handler EXCEPT ![h].session = s, ![h].at = "register"],
               late' = late \union {m \in {handler[h].msg} :
                            session[s].state \in {"confirming_deal", "processing"}}
        PROVE  LateIsKnown'
    <3>1. /\ handler'[h].session = s /\ handler'[h].msg = handler[h].msg
          /\ \A g \in Handlers \ {h} : handler'[g] = handler[g]
      BY <1>0, <2>2 DEF Task
    <3>2. s \in Sessions /\ (submitted[s] = NotYet \/ handler[h].msg \in late')
      BY <2>2 DEF Open, LateIsKnown
    <3> QED  BY <1>5, <2>2, <3>1, <3>2
             DEF GetSession, LateIsKnown, HasSubmitted, FilesOf, Sessions
  <2> QED  BY <1>5, <2>1, <2>2 DEF GetSession
<1>6. ASSUME NEW h \in Handlers, CreateSession(h), Open # {}
      PROVE  LateIsKnown'
  BY <1>1, <1>3, <1>6 DEF CreateSession, Sessions
<1>7. ASSUME NEW h \in Handlers, CreateSession(h), Open = {}
      PROVE  LateIsKnown'
  <2> DEFINE n == Len(session) + 1
  <2>1. /\ Sessions' = Sessions \union {n} /\ n \notin Sessions
        /\ \A s \in Sessions : session'[s] = session[s]
        /\ session'[n].state = "collecting"
    <3>1. session' = Append(session, [state |-> "collecting", due |-> FALSE, count |-> 0])
      BY <1>7 DEF CreateSession
    <3> QED  BY <1>0, <3>1 DEF Sessions
  <2>2. (\A s \in Sessions : submitted'[s] = submitted[s]) /\ submitted'[n] = NotYet
    <3>1. submitted' = Append(submitted, NotYet)
      BY <1>7 DEF CreateSession
    <3> HIDE DEF NotYet
    <3> QED  BY <1>0, <3>1
  <2>3. handler'[h].session = n /\ \A g \in Handlers \ {h} : handler'[g] = handler[g]
    BY <1>0, <1>7 DEF CreateSession, Task
  <2>4. UNCHANGED <<fileOf, late>>
    BY <1>7 DEF CreateSession
  <2> HIDE DEF n
  <2> QED  BY <2>1, <2>2, <2>3, <2>4 DEF LateIsKnown, HasSubmitted, FilesOf
<1>8. ASSUME NEW h \in Handlers, RegisterFile(h)
      PROVE  LateIsKnown'
  <2>1. \A g \in Handlers : handler'[g].at = "register" => handler'[g] = handler[g]
    BY <1>3, <1>8 DEF RegisterFile
  <2>2. ASSUME NEW s \in Sessions, HasSubmitted(s)
        PROVE  FilesOf(s)' \subseteq submitted[s] \union late
    <3>1. FilesOf(s)' \subseteq FilesOf(s) \union
              (IF s = handler[h].session THEN {handler[h].msg} ELSE {})
      BY <1>0, <1>8 DEF RegisterFile, FilesOf
    <3>2. s = handler[h].session => handler[h].msg \in late
      BY <1>8, <2>2 DEF RegisterFile, LateIsKnown, HasSubmitted
    <3> QED  BY <2>2, <3>1, <3>2 DEF LateIsKnown
  <2>3. UNCHANGED <<session, submitted, late>>
    BY <1>8 DEF RegisterFile
  <2> QED  BY <2>1, <2>2, <2>3 DEF LateIsKnown, HasSubmitted, Sessions
<1>9. ASSUME NEW h \in Handlers, RecordArrival(h)
      PROVE  LateIsKnown'
  <2>1. Sessions' = Sessions /\ \A s \in Sessions : session'[s].state = session[s].state
    BY <1>0, <1>9 DEF RecordArrival, Sessions, Session
  <2> QED  BY <1>1, <1>3, <1>9, <2>1 DEF RecordArrival
<1>10. ASSUME NEW s \in Sessions, RunOut(s)
       PROVE  LateIsKnown'
  <2>1. Sessions' = Sessions /\ \A x \in Sessions : session'[x].state = session[x].state
    BY <1>0, <1>10 DEF RunOut, Sessions, Session
  <2> QED  BY <1>1, <1>10, <2>1 DEF RunOut
<1>11. ASSUME NEW s \in Sessions, NEW state, Becomes(s, state)
       PROVE  /\ Sessions' = Sessions /\ session'[s].state = state
              /\ \A x \in Sessions \ {s} : session'[x] = session[x]
              /\ UNCHANGED <<handler, fileOf>>
  BY <1>0, <1>11 DEF Becomes, Sessions, Session
<1>12. ASSUME NEW s \in Sessions, ClaimForFlush(s)
       PROVE  LateIsKnown'
  <2>1. /\ submitted'[s] = Claimed
        /\ \A x \in Sessions \ {s} : submitted'[x] = submitted[x]
    BY <1>0, <1>12 DEF ClaimForFlush
  <2>2. \A g \in Handlers : /\ handler[g].at = "register"
                            /\ handler[g].session = s
                            => handler[g].msg \in late'
    BY <1>12 DEF ClaimForFlush, Between
  <2>3. late \subseteq late'
    BY <1>12 DEF ClaimForFlush
  <2>4. /\ Sessions' = Sessions /\ session'[s].state = "processing"
        /\ \A x \in Sessions \ {s} : session'[x] = session[x]
        /\ UNCHANGED <<handler, fileOf>>
    BY <1>11, <1>12 DEF ClaimForFlush
  <2> QED  BY <2>1, <2>2, <2>3, <2>4 DEF LateIsKnown, HasSubmitted, FilesOf
<1>13. ASSUME NEW s \in Sessions, Submit(s)
       PROVE  LateIsKnown'
  <2>1. /\ submitted'[s] = FilesOf(s)
        /\ \A x \in Sessions \ {s} : submitted'[x] = submitted[x]
    BY <1>0, <1>13 DEF Submit
  <2>2. submitted[s] # NotYet /\ session[s].state # "collecting"
    BY <1>13 DEF Submit, LateIsKnown, NotYet, Claimed
  <2>3. UNCHANGED <<handler, session, fileOf, late>>
    BY <1>13 DEF Submit
  <2> QED  BY <2>1, <2>2, <2>3 DEF LateIsKnown, HasSubmitted, FilesOf, Sessions
<1>14. ASSUME NEW s \in Sessions, NEW state, Advance(s, state)
       PROVE  LateIsKnown'
  <2>1. /\ Sessions' = Sessions /\ session'[s].state = state
        /\ \A x \in Sessions \ {s} : session'[x] = session[x]
        /\ UNCHANGED <<handler, fileOf, submitted, late>>
    BY <1>11, <1>14 DEF Advance
  <2>2. state # "collecting"
    BY <1>14 DEF Advance
  <2> QED  BY <2>1, <2>2 DEF LateIsKnown, HasSubmitted, FilesOf
<1> QED
  BY <1>2, <1>4, <1>5, <1>6, <1>7, <1>8, <1>9, <1>10, <1>12, <1>13, <1>14
  DEF SessionNext
-----------------------------------------------------------------------------
\* What a sender holds grows only by a claim.
LEMMA ClaimsStep ==
    ASSUME OutboxOK, SendingIsTaken, OutboxNext
    PROVE  /\ SendingIsTaken'
           /\ \/ \A t \in Senders : Claims(t)' \subseteq Claims(t)
              \/ \E s \in Senders : /\ ClaimPending(s)
                                    /\ Claims(s) = {} /\ Claims(s)' = Claimable
                                    /\ \A t \in Senders \ {s} : Claims(t)' = Claims(t)
<1>0. /\ sender \in [Senders -> Sending] /\ 0 \notin Rows
  BY DEF OutboxOK, Rows
<1>1. CASE UNCHANGED sender
  BY <1>1 DEF SendingIsTaken, Claims
<1>2. ASSUME NEW s \in Senders, ClaimPending(s)
      PROVE  /\ SendingIsTaken'
             /\ Claims(s) = {} /\ Claims(s)' = Claimable
             /\ \A t \in Senders \ {s} : Claims(t)' = Claims(t)
  <2>1. /\ sender[s] = NoSender /\ Claimable \subseteq Rows
        /\ sender'[s].todo = Claimable /\ sender'[s].row = 0
        /\ sender'[s].answer = "none"
        /\ \A t \in Senders \ {s} : sender'[t] = sender[t]
    BY <1>0, <1>2 DEF ClaimPending, NoSender, Claimable, Sending
  <2> QED  BY <1>0, <2>1 DEF SendingIsTaken, Claims, NoSender
<1>3. ASSUME NEW s \in Senders, MarkSent(s) \/ MarkFailed(s) \/ Die(s)
      PROVE  SendingIsTaken' /\ \A t \in Senders : Claims(t)' \subseteq Claims(t)
  <2>1. /\ sender'[s].todo \subseteq sender[s].todo /\ sender'[s].row = 0
        /\ sender'[s].answer = "none" /\ 0 \notin sender[s].todo
        /\ \A t \in Senders \ {s} : sender'[t] = sender[t]
    BY <1>0, <1>3 DEF MarkSent, MarkFailed, Die, Reported, NoSender, Sending
  <2> QED  BY <2>1 DEF SendingIsTaken, Claims
<1>4. ASSUME NEW s \in Senders, NEW i \in Rows, NEW answer \in Answers,
             Send(s, i, answer)
      PROVE  SendingIsTaken' /\ \A t \in Senders : Claims(t)' \subseteq Claims(t)
  <2>1. /\ sender'[s].todo = sender[s].todo \ {i} /\ sender'[s].row = i
        /\ sender'[s].answer = answer /\ i \in sender[s].todo
        /\ \A t \in Senders \ {s} : sender'[t] = sender[t]
    BY <1>0, <1>4 DEF Send, Sending, Answers, Accepting
  <2>2. answer # "none" /\ i # 0
    BY <1>0, <1>4 DEF Answers, Accepting
  <2> QED  BY <1>0, <2>1, <2>2 DEF SendingIsTaken, Claims
<1> QED
  BY <1>1, <1>2, <1>3, <1>4
  DEF OutboxNext, LookUp, Enqueue, GiveUp, Tick

\* Two senders come to hold one row only by a claim that twice records.
LEMMA HeldOnceStep ==
    ASSUME OutboxOK, SendingIsTaken, HeldOnce, OutboxNext
    PROVE  HeldOnce'
<1>1. twice \subseteq twice'
  BY DEF OutboxNext, LookUp, Enqueue, GiveUp, Tick, ClaimPending, Send, MarkSent,
         MarkFailed, Die
<1>2. CASE \A t \in Senders : Claims(t)' \subseteq Claims(t)
  BY <1>1, <1>2 DEF HeldOnce
<1>3. ASSUME NEW s \in Senders, ClaimPending(s), Claims(s)' = Claimable,
             \A t \in Senders \ {s} : Claims(t)' = Claims(t)
      PROVE  HeldOnce'
  <2>1. \A t \in Senders \ {s} : Claims(t) \intersect Claimable \subseteq twice'
    BY <1>3 DEF ClaimPending, HeldBy
  <2> QED  BY <1>1, <1>3, <2>1 DEF HeldOnce
<1> QED  BY <1>2, <1>3, ClaimsStep

\* Told, of one row: for a row whose only sender is s, or that has none.
ToldOf(i) ==
    /\ i \notin HeldBy(Senders) =>
          accepted[i] = (IF outbox[i].state = "sent" THEN 1 ELSE 0)
    /\ \A s \in Senders : i \in Claims(s) => ToldBySender(s, i)

\* A row and Meta go on telling the same.
LEMMA ToldStep ==
    ASSUME OutboxOK, SendingIsTaken, HeldOnce, Told, OutboxNext
    PROVE  Told'
<1>0. /\ Rows = 1 .. Len(outbox) /\ Len(outbox) \in Nat
      /\ outbox \in Seq(Reply) /\ \A i \in Rows : outbox[i] \in Reply
      /\ accepted \in Seq(Nat) /\ Len(accepted) = Len(outbox)
      /\ sender \in [Senders -> Sending]
      /\ \A s \in Senders : Claims(s) \subseteq Rows
  BY DEF OutboxOK, Rows, Claims, Sending
<1>1. ASSUME Rows' = Rows, UNCHANGED <<accepted, sender>>,
             twice \subseteq twice', lost \subseteq lost',
             \A i \in Rows : outbox'[i].state = outbox[i].state
      PROVE  Told'
  BY <1>1 DEF Told, ToldBySender, HeldBy, Claims
<1>2. ASSUME NEW w \in Writers, (\E k \in DedupKeys : LookUp(w, k)) \/ GiveUp(w)
      PROVE  Told'
  BY <1>1, <1>2 DEF LookUp, GiveUp, Rows
<1>3. ASSUME NEW i \in Rows, Tick(i)
      PROVE  Told'
  <2>1. Rows' = Rows /\ \A j \in Rows : outbox'[j].state = outbox[j].state
    BY <1>0, <1>3 DEF Tick, Rows, Reply
  <2> QED  BY <1>1, <1>3, <2>1 DEF Tick
<1>4. ASSUME NEW w \in Writers, Enqueue(w)
      PROVE  Told'
  <2> DEFINE n == Len(outbox) + 1
  <2>1. /\ Rows' = Rows \union {n} /\ n \notin Rows
        /\ \A i \in Rows : outbox'[i] = outbox[i] /\ accepted'[i] = accepted[i]
        /\ outbox'[n].state = "pending" /\ accepted'[n] = 0
    <3>1. PICK age \in {"later", "due"} :
             outbox' = Append(outbox, [key |-> writer[w], state |-> "pending",
                                       attempts |-> 0, age |-> age])
      BY <1>4 DEF Enqueue
    <3>2. accepted' = Append(accepted, 0)
      BY <1>4 DEF Enqueue
    <3> QED  BY <1>0, <3>1, <3>2 DEF Rows
  <2>2. UNCHANGED <<sender, twice, lost>>
    BY <1>4 DEF Enqueue
  <2>3. \A s \in Senders : n \notin Claims(s)
    BY <1>0, <2>1
  <2> HIDE DEF n
  <2> QED  BY <1>0, <2>1, <2>2, <2>3 DEF Told, ToldBySender, HeldBy, Claims
<1>5. ASSUME NEW s \in Senders, ClaimPending(s)
      PROVE  Told'
  <2>1. /\ Rows' = Rows /\ UNCHANGED <<accepted, lost>>
        /\ twice' = twice \union (Claimable \intersect HeldBy(Senders \ {s}))
        /\ sender[s] = NoSender
        /\ sender'[s].todo = Claimable /\ sender'[s].row = 0
        /\ \A t \in Senders \ {s} : sender'[t] = sender[t]
    <3>1. Rows' = Rows
      BY <1>5 DEF ClaimPending, Rows
    <3>2. /\ sender[s] = NoSender /\ sender' = [sender EXCEPT ![s].todo = Claimable]
          /\ UNCHANGED <<accepted, lost>>
          /\ twice' = twice \union (Claimable \intersect HeldBy(Senders \ {s}))
      BY <1>5 DEF ClaimPending
    <3>3. /\ sender'[s] = [NoSender EXCEPT !.todo = Claimable]
          /\ \A t \in Senders \ {s} : sender'[t] = sender[t]
      BY <1>0, <3>2
    <3>4. sender'[s].todo = Claimable /\ sender'[s].row = 0
      BY <3>3 DEF NoSender
    <3> QED  BY <3>1, <3>2, <3>3, <3>4
  <2>2. \A i \in Rows : outbox'[i].state = "sent" <=> outbox[i].state = "sent"
    BY <1>0, <1>5 DEF ClaimPending, OutOfWindow, Reply
  <2>3. Claims(s) = {} /\ Claims(s)' = Claimable
        /\ \A t \in Senders \ {s} : Claims(t)' = Claims(t)
    BY <2>1 DEF Claims, NoSender
  <2>4. ASSUME NEW i \in Rows \ (twice' \union lost')
        PROVE  ToldOf(i)'
    <3>1. i \in Claimable => /\ outbox[i].state = "pending"
                             /\ \A t \in Senders : i \notin Claims(t)
      BY <2>1, <2>3, <2>4 DEF Claimable, HeldBy
    <3>2. i \in Claimable => accepted[i] = 0
      BY <2>1, <2>4, <3>1 DEF Told, HeldBy
    <3> QED  BY <2>1, <2>2, <2>3, <2>4, <3>1, <3>2
             DEF Told, ToldOf, ToldBySender, HeldBy
  <2> QED  BY <2>1, <2>4 DEF Told, ToldOf
<1>6. ASSUME NEW s \in Senders, NEW j \in Rows,
             NEW answer \in Answers,
             Send(s, j, answer)
      PROVE  Told'
  <2>1. /\ UNCHANGED <<outbox, twice>> /\ sender[s].row = 0 /\ j \in sender[s].todo
        /\ sender'[s].todo = sender[s].todo \ {j} /\ sender'[s].row = j
        /\ sender'[s].answer = answer
        /\ \A t \in Senders \ {s} : sender'[t] = sender[t]
        /\ lost' = IF answer \in {"lost", "unread"} THEN lost \union {j} ELSE lost
    BY <1>0, <1>6 DEF Send, Sending, Answers, Accepting
  <2>2. /\ accepted'[j] = accepted[j] + (IF answer \in Accepting THEN 1 ELSE 0)
        /\ \A i \in Rows \ {j} : accepted'[i] = accepted[i]
    BY <1>0, <1>6 DEF Send
  <2>3. \A t \in Senders : Claims(t)' = Claims(t)
    BY <1>0, <2>1 DEF Claims
  <2>4. ASSUME NEW i \in Rows \ (twice' \union lost'), i # j
        PROVE  ToldOf(i)'
    <3>1. i \in Rows \ (twice \union lost)
      BY <2>1, <2>4
    <3>2. \A t \in Senders : i \in Claims(t) => ToldBySender(t, i)'
      BY <2>1, <2>2, <2>4, <3>1 DEF Told, ToldBySender, Claims
    <3> QED  BY <2>1, <2>2, <2>3, <2>4, <3>1, <3>2 DEF Told, ToldOf, HeldBy
  <2>5. ASSUME j \notin twice' \union lost'
        PROVE  ToldOf(j)'
    <3>1. j \in Claims(s) /\ \A t \in Senders \ {s} : j \notin Claims(t)
      BY <2>1, <2>5 DEF HeldOnce, Claims
    <3>2. accepted[j] = 0 /\ outbox[j].state # "sent"
      BY <2>1, <2>5, <3>1 DEF Told, ToldBySender
    <3>3. ToldBySender(s, j)'
      BY <2>1, <2>2, <2>5, <3>2 DEF ToldBySender, Answers, Accepting
    <3> QED  BY <2>3, <3>1, <3>3 DEF ToldOf, HeldBy
  <2> QED  BY <2>1, <2>4, <2>5 DEF Told, ToldOf, Rows
<1>7. ASSUME NEW s \in Senders, MarkSent(s) \/ MarkFailed(s)
      PROVE  Told'
  <2>0. PICK j \in Rows : j = sender[s].row
    <3>1. sender[s].row # 0 /\ sender[s].row \in 0 .. Len(outbox)
      BY <1>0, <1>7 DEF MarkSent, MarkFailed, SendingIsTaken, Sending,
                        Answers, Accepting
    <3> QED  BY <1>0, <3>1
  <2>1. /\ UNCHANGED <<accepted, twice, lost>>
        /\ sender'[s].todo = sender[s].todo /\ sender'[s].row = 0
        /\ j \notin sender[s].todo /\ 0 \notin sender[s].todo
        /\ \A t \in Senders \ {s} : sender'[t] = sender[t]
    BY <1>0, <1>7, <2>0 DEF MarkSent, MarkFailed, Reported, NoSender, Sending, SendingIsTaken
  <2>2. /\ Rows' = Rows /\ \A i \in Rows \ {j} : outbox'[i] = outbox[i]
        /\ outbox'[j].state = "sent" <=> sender[s].answer = "sent"
    <3>1. CASE MarkSent(s)
      BY <1>0, <2>0, <3>1 DEF MarkSent, Rows, Reply
    <3>2. CASE MarkFailed(s)
      <4>1. outbox' = [outbox EXCEPT ![j] =
              IF sender[s].answer \in {"permanent", "unread"} THEN [outbox[j] EXCEPT !.state = "failed"]
              ELSE [outbox[j] EXCEPT !.state = "pending", !.age = "later"]]
        BY <1>0, <2>0, <3>2 DEF MarkFailed
      <4>2. outbox'[j].state \in {"failed", "pending"}
        BY <1>0, <4>1 DEF Reply
      <4>3. sender[s].answer # "sent"
        BY <3>2 DEF MarkFailed
      <4>4. Rows' = Rows /\ \A i \in Rows \ {j} : outbox'[i] = outbox[i]
        BY <1>0, <4>1 DEF Rows
      <4> QED  BY <4>2, <4>3, <4>4
    <3> QED  BY <1>7, <3>1, <3>2
  <2>3. /\ Claims(s)' = Claims(s) \ {j}
        /\ \A t \in Senders \ {s} : Claims(t)' = Claims(t)
    BY <1>0, <2>0, <2>1 DEF Claims
  <2>4. ASSUME NEW i \in Rows \ (twice \union lost), i # j
        PROVE  ToldOf(i)'
    <3>1. \A t \in Senders : i \in Claims(t)' => ToldBySender(t, i)'
      BY <2>1, <2>2, <2>3, <2>4 DEF Told, ToldBySender, Claims
    <3> QED  BY <2>1, <2>2, <2>3, <2>4, <3>1 DEF Told, ToldOf, HeldBy
  <2>5. ASSUME j \notin twice \union lost
        PROVE  ToldOf(j)'
    <3>1. j \in Claims(s) /\ \A t \in Senders \ {s} : j \notin Claims(t)
      BY <1>0, <2>0, <2>1, <2>5 DEF HeldOnce, Claims
    <3>2. accepted[j] = (IF sender[s].answer = "sent" THEN 1 ELSE 0)
      BY <2>0, <2>1, <2>5, <3>1 DEF Told, ToldBySender
    <3>3. \A t \in Senders : j \notin Claims(t)'
      BY <2>3, <3>1
    <3>4. accepted'[j] = (IF outbox'[j].state = "sent" THEN 1 ELSE 0)
      BY <2>1, <2>2, <3>2
    <3> QED  BY <3>3, <3>4 DEF ToldOf
  <2> QED  BY <2>1, <2>2, <2>4, <2>5 DEF Told, ToldOf
<1>8. ASSUME NEW s \in Senders, Die(s)
      PROVE  Told'
  <2>1. /\ UNCHANGED <<outbox, accepted, twice>>
        /\ lost' = lost \union {i \in {sender[s].row} : sender[s].answer = "sent"}
        /\ sender'[s] = NoSender
        /\ \A t \in Senders \ {s} : sender'[t] = sender[t]
    BY <1>0, <1>8 DEF Die
  <2>2. Claims(s)' = {} /\ \A t \in Senders \ {s} : Claims(t)' = Claims(t)
    BY <2>1 DEF Claims, NoSender
  <2>3. ASSUME NEW i \in Rows \ (twice \union lost'), i \in Claims(s)
        PROVE  ToldOf(i)'
    <3>1. \A t \in Senders \ {s} : i \notin Claims(t)
      BY <2>3 DEF HeldOnce
    <3>2. accepted[i] = 0 /\ outbox[i].state # "sent"
      BY <2>1, <2>3 DEF Told, ToldBySender, Claims
    <3> QED  BY <2>1, <2>2, <3>1, <3>2 DEF ToldOf, HeldBy
  <2>4. ASSUME NEW i \in Rows \ (twice \union lost'), i \notin Claims(s)
        PROVE  ToldOf(i)'
    <3>1. \A t \in Senders : i \in Claims(t)' => ToldBySender(t, i)'
      BY <2>1, <2>2, <2>4 DEF Told, ToldBySender
    <3> QED  BY <2>1, <2>2, <2>4, <3>1 DEF Told, ToldOf, HeldBy
  <2> QED  BY <2>1, <2>3, <2>4 DEF Told, ToldOf, Rows
<1> QED
  BY <1>2, <1>3, <1>4, <1>5, <1>6, <1>7, <1>8 DEF OutboxNext
\* A key comes to have two pending replies only by a race or a late report.
LEMMA SingleStep ==
    ASSUME OutboxOK, Single, OutboxNext
    PROVE  Single'
<1>0. /\ Rows = 1 .. Len(outbox) /\ Len(outbox) \in Nat
      /\ outbox \in Seq(Reply) /\ \A i \in Rows : outbox[i] \in Reply
      /\ writer \in [Writers -> DedupKeys \union {NoKey}]
  BY DEF OutboxOK, Rows
<1>1. ASSUME \A k \in DedupKeys : PendingOf(k)' \subseteq PendingOf(k) \union revived',
             revived \subseteq revived', twins \subseteq twins',
             \A w \in Writers, k \in DedupKeys : writer'[w] = k /\ k # NoKey =>
                 writer[w] = k \/ PendingOf(k) = {}
      PROVE  Single'
  BY <1>1 DEF Single
<1>2. ASSUME NEW w \in Writers, NEW k \in DedupKeys, LookUp(w, k)
      PROVE  Single'
  <2>1. PendingOf(k) = {} /\ writer' = [writer EXCEPT ![w] = k]
    BY <1>2 DEF LookUp, Found
  <2>2. \A x \in DedupKeys : PendingOf(x)' = PendingOf(x)
    BY <1>2 DEF LookUp, PendingOf, Rows
  <2> QED  BY <1>0, <1>1, <1>2, <2>1, <2>2 DEF LookUp
<1>3. ASSUME NEW w \in Writers, GiveUp(w)
      PROVE  Single'
  <2>1. \A x \in DedupKeys : PendingOf(x)' = PendingOf(x)
    BY <1>3 DEF GiveUp, PendingOf, Rows
  <2> QED  BY <1>0, <1>1, <1>3, <2>1 DEF GiveUp
<1>4. ASSUME NEW w \in Writers, Enqueue(w)
      PROVE  Single'
  <2>0. PICK k \in DedupKeys : k = writer[w] /\ k # NoKey
    BY <1>0, <1>4 DEF Enqueue
  <2>1. PICK n : n = Len(outbox) + 1
    OBVIOUS
  <2>2. /\ Rows' = Rows \union {n} /\ n \notin Rows /\ outbox'[n].key = k
        /\ \A i \in Rows : outbox'[i] = outbox[i]
    <3>1. PICK age \in {"later", "due"} :
             outbox' = Append(outbox, [key |-> k, state |-> "pending",
                                       attempts |-> 0, age |-> age])
      BY <1>4, <2>0 DEF Enqueue
    <3> QED  BY <1>0, <2>1, <3>1 DEF Rows
  <2>3. /\ PendingOf(k)' \subseteq PendingOf(k) \union {n}
        /\ \A x \in DedupKeys \ {k} : PendingOf(x)' = PendingOf(x)
    BY <2>2 DEF PendingOf
  <2>4. /\ revived' = revived /\ twins \subseteq twins'
        /\ k \notin twins' => \A v \in Writers \ {w} : writer[v] # k
    BY <1>4, <2>0 DEF Enqueue
  <2>5. writer'[w] = NoKey /\ \A v \in Writers \ {w} : writer'[v] = writer[v]
    BY <1>0, <1>4 DEF Enqueue
  <2>6. k \notin twins' => PendingOf(k) \subseteq revived
    BY <2>0, <2>4 DEF Single
  <2>7. ASSUME NEW x \in DedupKeys \ twins'
        PROVE  /\ \A i, j \in PendingOf(x)' \ revived' : i = j
               /\ \A v \in Writers : writer'[v] = x /\ x # NoKey =>
                      PendingOf(x)' \subseteq revived'
    <3>1. CASE x = k
      BY <2>0, <2>3, <2>4, <2>5, <2>6, <2>7, <3>1
    <3>2. CASE x # k
      BY <2>3, <2>4, <2>5, <2>7, <3>2 DEF Single
    <3> QED  BY <3>1, <3>2
  <2> QED  BY <2>7 DEF Single
<1>5. ASSUME NEW i \in Rows, Tick(i)
      PROVE  Single'
  <2>1. /\ Rows' = Rows
        /\ \A j \in Rows : /\ outbox'[j].state = outbox[j].state
                           /\ outbox'[j].key = outbox[j].key
    BY <1>0, <1>5 DEF Tick, Rows, Reply
  <2>2. \A x \in DedupKeys : PendingOf(x)' = PendingOf(x)
    BY <2>1 DEF PendingOf
  <2> QED  BY <1>1, <1>5, <2>2 DEF Tick
<1>6. ASSUME NEW s \in Senders, ClaimPending(s)
      PROVE  Single'
  <2>1. Rows' = Rows
    BY <1>6 DEF ClaimPending, Rows
  <2>2. \A j \in Rows : /\ outbox'[j].state = "pending" => outbox[j].state = "pending"
                        /\ outbox'[j].key = outbox[j].key
    BY <1>0, <1>6 DEF ClaimPending, OutOfWindow, Reply
  <2>3. \A x \in DedupKeys : PendingOf(x)' \subseteq PendingOf(x)
    BY <2>1, <2>2 DEF PendingOf
  <2> QED  BY <1>1, <1>6, <2>3 DEF ClaimPending
<1>7. ASSUME NEW s \in Senders, MarkSent(s) \/ MarkFailed(s)
      PROVE  Single'
  <2>0. PICK j : j = sender[s].row
    OBVIOUS
  <2>1. Rows' = Rows /\ \A i \in Rows \ {j} : outbox'[i] = outbox[i]
    BY <1>0, <1>7, <2>0 DEF MarkSent, MarkFailed, Rows
  <2>2. j \in Rows => outbox'[j].key = outbox[j].key
    <3>1. CASE MarkSent(s)
      BY <1>0, <2>0, <3>1 DEF MarkSent, Rows, Reply
    <3>2. CASE MarkFailed(s) /\ j \in Rows
      <4>1. outbox'[j] =
              IF sender[s].answer \in {"permanent", "unread"} THEN [outbox[j] EXCEPT !.state = "failed"]
              ELSE [outbox[j] EXCEPT !.state = "pending", !.age = "later"]
        BY <1>0, <2>0, <3>2 DEF MarkFailed, Rows
      <4> QED  BY <1>0, <3>2, <4>1 DEF Reply
    <3> QED  BY <1>7, <3>1, <3>2
  <2>3. j \in Rows /\ outbox'[j].state = "pending" =>
            outbox[j].state = "pending" \/ j \in revived'
    <3>1. CASE MarkSent(s)
      BY <1>0, <2>0, <3>1 DEF MarkSent, Rows, Reply
    <3>2. CASE MarkFailed(s)
      BY <2>0, <3>2 DEF MarkFailed
    <3> QED  BY <1>7, <3>1, <3>2
  <2>4. \A x \in DedupKeys : PendingOf(x)' \subseteq PendingOf(x) \union revived'
    BY <2>1, <2>2, <2>3 DEF PendingOf
  <2>5. revived \subseteq revived' /\ UNCHANGED <<twins, writer>>
    BY <1>7 DEF MarkSent, MarkFailed
  <2> QED  BY <1>1, <2>4, <2>5
<1>8. ASSUME UNCHANGED <<outbox, writer, revived, twins>>
      PROVE  Single'
  BY <1>8 DEF Single, PendingOf, Rows
<1> QED
  BY <1>2, <1>3, <1>4, <1>5, <1>6, <1>7, <1>8 DEF OutboxNext, Send, Die

-----------------------------------------------------------------------------
\* The two halves of the invariant.
OutInv == OutboxOK /\ SendingIsTaken /\ HeldOnce /\ Told /\ Single
InInv == SessionsOK /\ HandedOn /\ LateIsKnown

\* The invariant of a half that does not act stays.
LEMMA HalfStays ==
    ASSUME IInv
    PROVE  /\ UNCHANGED outboxVars => OutInv'
           /\ UNCHANGED sessionVars => InInv'
<1>1. ASSUME UNCHANGED outboxVars
      PROVE  OutInv'
  <2> USE <1>1 DEF outboxVars
  <2>1. OutboxOK' = OutboxOK
    BY DEF OutboxOK, Sending, Rows
  <2>2. SendingIsTaken' = SendingIsTaken
    BY DEF SendingIsTaken
  <2>3. HeldOnce' = HeldOnce
    BY DEF HeldOnce, Claims
  <2>4. Told' = Told
    BY DEF Told, ToldBySender, HeldBy, Claims, Rows
  <2>5. Single' = Single
    BY DEF Single, PendingOf, Rows
  <2> QED  BY <2>1, <2>2, <2>3, <2>4, <2>5 DEF IInv, TypeOK, OutInv
<1>2. ASSUME UNCHANGED sessionVars
      PROVE  InInv'
  <2> USE <1>2 DEF sessionVars
  <2>1. SessionsOK' = SessionsOK
    BY DEF SessionsOK, Task
  <2>2. HandedOn' = HandedOn
    BY DEF HandedOn
  <2>3. LateIsKnown' = LateIsKnown
    BY DEF LateIsKnown, HasSubmitted, FilesOf, Sessions
  <2> QED  BY <2>1, <2>2, <2>3 DEF IInv, TypeOK, InInv
<1> QED  BY <1>1, <1>2

\* The invariant is inductive.
LEMMA IInvStep == IInv /\ [Next]_vars => IInv'
<1> SUFFICES ASSUME IInv, [Next]_vars PROVE IInv'
  OBVIOUS
<1>1. OutboxNext => OutInv'
  BY OutboxTypes, ClaimsStep, HeldOnceStep, ToldStep, SingleStep DEF IInv, TypeOK, OutInv
<1>2. SessionNext => InInv'
  BY SessionTypes, HandedOnStep, LateStep DEF IInv, TypeOK, InInv
<1>3. \/ OutboxNext /\ UNCHANGED sessionVars
      \/ SessionNext /\ UNCHANGED outboxVars
      \/ UNCHANGED outboxVars /\ UNCHANGED sessionVars
  BY DEF Next, vars
<1>4. OutInv' /\ InInv'
  BY <1>1, <1>2, <1>3, HalfStays
<1> QED  BY <1>4 DEF OutInv, InInv, IInv, TypeOK

\* The strengthening holds in every reachable state.
LEMMA AlwaysIInv == Spec => []IInv
  BY InitIInv, IInvStep, PTL DEF Spec

\* Every reachable state has its types.
THEOREM TypeCorrect == Spec => []TypeOK
<1>1. IInv => TypeOK
  BY DEF IInv
<1> QED  BY <1>1, AlwaysIInv, PTL

\* A user gets a reply twice only by a race of two claims or a lost answer.
THEOREM TwiceOnlyByARace == Spec => []SentTwiceWasRaced
<1>1. IInv => SentTwiceWasRaced
  <2> SUFFICES ASSUME IInv, NEW i \in Rows \ (twice \union lost)
               PROVE  ~(accepted[i] > 1)
    BY DEF SentTwiceWasRaced
  <2>1. CASE i \notin HeldBy(Senders)
    BY <2>1 DEF IInv, Told
  <2>2. CASE i \in HeldBy(Senders)
    <3>1. PICK s \in Senders : i \in Claims(s)
      BY <2>2 DEF HeldBy
    <3> QED  BY <3>1 DEF IInv, Told, ToldBySender
  <2> QED  BY <2>1, <2>2
<1> QED  BY <1>1, AlwaysIInv, PTL

\* Between claims a row says sent exactly if Meta accepted its message, unless
\* two claims raced or an answer was lost.
THEOREM OutcomeAlwaysKept == Spec => []OutcomeIsKept
<1>1. IInv => OutcomeIsKept
  BY DEF IInv, Told, OutcomeIsKept
<1> QED  BY <1>1, AlwaysIInv, PTL

\* Two replies of one dedup key are pending only after a race or a late report.
THEOREM TwinsOnlyByARace == Spec => []PendingTwinsWereRaced
<1>1. IInv => PendingTwinsWereRaced
  <2> SUFFICES ASSUME IInv, NEW k \in DedupKeys \ twins,
                      PendingOf(k) \intersect revived = {}
               PROVE  ~(Cardinality(PendingOf(k)) > 1)
    BY DEF PendingTwinsWereRaced
  <2>1. \A i, j \in PendingOf(k) : i = j
    BY DEF IInv, Single
  <2>2. CASE PendingOf(k) = {}
    BY <2>2, FS_EmptySet
  <2>3. CASE PendingOf(k) # {}
    <3>1. PICK i : PendingOf(k) = {i}
      BY <2>1, <2>3
    <3> QED  BY <3>1, FS_Singleton
  <2> QED  BY <2>2, <2>3
<1> QED  BY <1>1, AlwaysIInv, PTL

\* The webhook hands each message on at most once.
THEOREM HandedOnOnce == Spec => []DispatchedOnce
<1>1. IInv => DispatchedOnce
  BY DEF IInv, HandedOn, DispatchedOnce
<1> QED  BY <1>1, AlwaysIInv, PTL

\* A file that its session did not submit belongs to a message that was late.
THEOREM LeftOutOnlyIfLate == Spec => []LeftOutWasLate
<1>1. IInv => LeftOutWasLate
  BY DEF IInv, LateIsKnown, HasSubmitted, LeftOutWasLate
<1> QED  BY <1>1, AlwaysIInv, PTL
================================================================================
