--------------------------- MODULE WhatsAppSessions ----------------------------
(***************************************************************************)
(* channel_whatsapp/wa/webhook.py and session.py: the messages of one      *)
(* contact, from Meta's webhook to the session that bundles their files.   *)
(*                                                                         *)
(* Meta delivers a message any number of times, at once if it likes.  The  *)
(* webhook keeps the first in wa.inbox and hands it on.  A delivery brings *)
(* one message here; the webhook keys one by messages[0].  The file goes to*)
(* the contact's open session, whose debounce timer starts again; when the *)
(* timer has run out the session is claimed, and the files it has by then  *)
(* are what is submitted.                                                  *)
(*                                                                         *)
(* worker.py, which calls session.py, is not in the repository and is      *)
(* external: a message's calls come in the order of the README, every call *)
(* commits by itself, a task may be lost or run again, and what closes a   *)
(* session may be called at any time.                                      *)
(***************************************************************************)
EXTENDS Integers, Sequences, FiniteSets

CONSTANTS
    Messages,    \* messages (wamid) of the contact, each with a file
    Handlers,    \* webhook requests, and the tasks they hand on
    MaxSessions, \* bound: sessions of the contact
    MaxAgain     \* bound: tasks that are run again

VARIABLES
    inbox,       \* messages with a row in wa.inbox
    dispatched,  \* how often the webhook handed a message on
    handler,     \* handler[h]: [at, msg, session]
    session,     \* wa.session: [state, due, count]
    fileOf,      \* wa.file: the session of a message's file, or 0
    submitted,   \* the files a session submitted; NotYet, Claimed before
    late,        \* history: messages that met a session that was closing
    again        \* tasks that were run again

sessionVars == <<inbox, dispatched, handler, session, fileOf, submitted, late, again>>

Idle == [at |-> "idle", msg |-> "-", session |-> 0]
NoFile == 0
NotYet == {"not yet"}
Claimed == {"claimed"}
Sessions == DOMAIN session
FilesOf(s) == {m \in Messages : fileOf[m] = s}

InitSessions ==
    /\ inbox = {} /\ dispatched = [m \in Messages |-> 0]
    /\ handler = [h \in Handlers |-> Idle]
    /\ session = <<>> /\ submitted = <<>>
    /\ fileOf = [m \in Messages |-> NoFile]
    /\ late = {} /\ again = 0

Goto(h, at) == handler' = [handler EXCEPT ![h].at = at]
Done(h) == handler' = [handler EXCEPT ![h] = Idle]

-----------------------------------------------------------------------------
\* insert_inbox: the SELECT; a message that is there is dropped.
Deliver(h, m) ==
    /\ handler[h] = Idle /\ m \notin inbox
    /\ handler' = [handler EXCEPT ![h] = [Idle EXCEPT !.at = "insert", !.msg = m]]
    /\ UNCHANGED <<inbox, dispatched, session, fileOf, submitted, late, again>>

MutIsNew(m) == TRUE

\* The unique key on wamid.
IsNew(m) == m \notin inbox

\* The INSERT, and the dispatch once it is committed.  The key refuses a
\* message that came in between; the request fails, and Meta delivers again.
InsertInbox(h) ==
    LET m == handler[h].msg IN
    /\ handler[h].at = "insert"
    /\ IF IsNew(m)
       THEN /\ inbox' = inbox \union {m}
            /\ dispatched' = [dispatched EXCEPT ![m] = @ + 1]
            /\ Goto(h, "session")
       ELSE Done(h) /\ UNCHANGED <<inbox, dispatched>>
    /\ UNCHANGED <<session, fileOf, submitted, late, again>>

\* A task is run again.
RunAgain(h, m) ==
    /\ handler[h] = Idle /\ m \in inbox /\ again < MaxAgain
    /\ again' = again + 1
    /\ handler' = [handler EXCEPT ![h] = [Idle EXCEPT !.at = "session", !.msg = m]]
    /\ UNCHANGED <<inbox, dispatched, session, fileOf, submitted, late>>

MutOpen == {s \in Sessions : session[s].state \notin {"complete", "parked"}}

\* The session get_or_create_session finds; there is one at most.
Open == {s \in Sessions :
             session[s].state \in {"collecting", "confirming_deal", "processing"}}

GetSession(h) ==
    /\ handler[h].at = "session"
    /\ \/ \E s \in Open :
            /\ handler' = [handler EXCEPT ![h].session = s, ![h].at = "register"]
            /\ late' = late \union {m \in {handler[h].msg} :
                          session[s].state \in {"confirming_deal", "processing"}}
       \/ Open = {} /\ Goto(h, "create") /\ UNCHANGED late
    /\ UNCHANGED <<inbox, dispatched, session, fileOf, submitted, again>>

\* The INSERT; the unique key refuses a second open session, and the task fails.
CreateSession(h) ==
    /\ handler[h].at = "create" /\ Len(session) < MaxSessions
    /\ IF Open = {}
       THEN /\ session' = Append(session, [state |-> "collecting", due |-> FALSE,
                                           count |-> 0])
            /\ submitted' = Append(submitted, NotYet)
            /\ handler' = [handler EXCEPT ![h].session = Len(session) + 1,
                                          ![h].at = "register"]
       ELSE Done(h) /\ UNCHANGED <<session, submitted>>
    /\ UNCHANGED <<inbox, dispatched, fileOf, late, again>>

\* register_file: a file that is there stays where it is.
RegisterFile(h) ==
    LET m == handler[h].msg IN
    /\ handler[h].at = "register"
    /\ fileOf' = [fileOf EXCEPT ![m] = IF @ = NoFile THEN handler[h].session ELSE @]
    /\ Goto(h, "record")
    /\ UNCHANGED <<inbox, dispatched, session, submitted, late, again>>

\* record_file_arrival: nothing happens unless the session still collects.
RecordArrival(h) ==
    LET s == handler[h].session IN
    /\ handler[h].at = "record"
    /\ session' = IF session[s].state # "collecting" THEN session
                  ELSE [session EXCEPT ![s] = [@ EXCEPT !.due = FALSE,
                                           !.count = session[s].count + 1]]
    /\ Done(h)
    /\ UNCHANGED <<inbox, dispatched, fileOf, submitted, late, again>>

Abandon(h) ==
    /\ handler[h] # Idle
    /\ Done(h)
    /\ UNCHANGED <<inbox, dispatched, session, fileOf, submitted, late, again>>

-----------------------------------------------------------------------------
RunOut(s) ==
    /\ session[s].state = "collecting" /\ ~session[s].due
    /\ session' = [session EXCEPT ![s].due = TRUE]
    /\ UNCHANGED <<inbox, dispatched, handler, fileOf, submitted, late, again>>

Becomes(s, state) ==
    /\ session' = [session EXCEPT ![s].state = state]
    /\ UNCHANGED <<inbox, dispatched, handler, fileOf, again>>

\* The messages of tasks that have the session and not yet their file in it.
Between(s) ==
    {handler[h].msg : h \in {g \in Handlers : handler[g].session = s
                                              /\ handler[g].at = "register"}}

\* claim_sessions_for_flush; get_session_files comes later and does not look at
\* the state: what it finds is submitted.
ClaimForFlush(s) ==
    /\ session[s].state = "collecting" /\ session[s].due
    /\ late' = late \union Between(s)
    /\ submitted' = [submitted EXCEPT ![s] = Claimed]
    /\ Becomes(s, "processing")

Submit(s) ==
    /\ submitted[s] = Claimed
    /\ submitted' = [submitted EXCEPT ![s] = FilesOf(s)]
    /\ UNCHANGED <<inbox, dispatched, handler, session, fileOf, late, again>>

\* transition_to_confirming, confirm_deal, mark_complete, park_session and
\* escalate_session, each with the states its WHERE allows: mark_complete's
\* names none, so it completes a session in whatever state it is.
Advance(s, state) ==
    /\ \/ state = "confirming_deal" /\ session[s].state = "processing"
       \/ state = "gaps_pending" /\ session[s].state = "confirming_deal"
       \/ state = "complete"
       \/ state = "parked" /\ session[s].state \notin {"complete", "cancelled"}
       \/ state = "escalated" /\ session[s].state \notin
                                     {"complete", "cancelled", "escalated"}
    /\ Becomes(s, state) /\ UNCHANGED <<submitted, late>>

SessionNext ==
    \/ \E h \in Handlers :
         \/ \E m \in Messages : Deliver(h, m) \/ RunAgain(h, m)
         \/ InsertInbox(h) \/ GetSession(h) \/ CreateSession(h)
         \/ RegisterFile(h) \/ RecordArrival(h) \/ Abandon(h)
    \/ \E s \in Sessions :
         \/ RunOut(s) \/ ClaimForFlush(s) \/ Submit(s)
         \/ \E state \in {"confirming_deal", "gaps_pending", "complete", "parked",
                          "escalated"} : Advance(s, state)
-----------------------------------------------------------------------------
(* The webhook hands a message on once, however often and however close    *)
(* together Meta delivers it.                                              *)
DispatchedOnce == \A m \in Messages : dispatched[m] <= 1

(* Once a session's files are submitted, a file that is or comes to be in   *)
(* the session was submitted with it or belongs to a message that was late: *)
(* that met the session while it was closing, or was between finding it and *)
(* registering the file when the flush claimed it.  No file is left out of  *)
(* a session by another way, whatever becomes of it.  (A session that is    *)
(* closed before it submitted may submit nothing at all.)                   *)
LeftOutWasLate ==
    \A s \in Sessions :
        submitted[s] \notin {NotYet, Claimed}
            => FilesOf(s) \subseteq submitted[s] \union late
================================================================================
