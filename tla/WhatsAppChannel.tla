---------------------------- MODULE WhatsAppChannel ----------------------------
(***************************************************************************)
(* The WhatsApp channel: messages come in by WhatsAppSessions, replies go  *)
(* out by WhatsAppOutbox.  The two halves share no row: the tasks between  *)
(* them are external, and may enqueue any reply at any time.  So the       *)
(* behaviours of the channel are those of either half, and a check of one  *)
(* need not interleave the other.                                          *)
(***************************************************************************)
EXTENDS WhatsAppOutbox, WhatsAppSessions

VARIABLE half  \* bound: the half that acts in this behaviour

vars == <<outboxVars, sessionVars, half>>

Init == InitOutbox /\ InitSessions /\ half \in {"in", "out"}

Next ==
    \/ half = "out" /\ OutboxNext /\ UNCHANGED <<sessionVars, half>>
    \/ half = "in" /\ SessionNext /\ UNCHANGED <<outboxVars, half>>

Spec == Init /\ [][Next]_vars

Reply ==
    [key : DedupKeys,
     state : {"pending", "sent", "failed", "skipped_window"},
     attempts : Nat, age : Ages]
Sending ==
    [todo : SUBSET Rows, row : 0 .. Len(outbox),
     answer : {"none"} \union Answers]
Session ==
    [state : {"collecting", "confirming_deal", "processing", "gaps_pending",
              "complete", "parked", "escalated"},
     due : BOOLEAN, count : Nat]
Task ==
    [at : {"idle", "insert", "session", "create", "register", "record"},
     msg : Messages \union {"-"}, session : 0 .. Len(session)]

\* The types of the replies and of those who write and send them.
OutboxOK ==
    /\ outbox \in Seq(Reply)
    /\ accepted \in Seq(Nat) /\ Len(accepted) = Len(outbox)
    /\ sender \in [Senders -> Sending]
    /\ writer \in [Writers -> DedupKeys \union {NoKey}]

\* The types of the messages and of their sessions.
SessionsOK ==
    /\ dispatched \in [Messages -> Nat]
    /\ session \in Seq(Session)
    /\ submitted \in Seq((SUBSET Messages) \union {NotYet, Claimed})
    /\ Len(submitted) = Len(session)
    /\ fileOf \in [Messages -> 0 .. Len(session)]
    /\ handler \in [Handlers -> Task]

TypeOK == OutboxOK /\ SessionsOK
================================================================================
