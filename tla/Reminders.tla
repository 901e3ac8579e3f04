----------------------------- MODULE Reminders -----------------------------
(***************************************************************************)
(* Agent reminders, delivered into the pane that Freezing freezes.         *)
(*                                                                         *)
(* The store is a SQLite table that outlives the mux.  A task of the main  *)
(* thread reads the due reminders every REMINDER_TICK and types them one   *)
(* after the other; it awaits while the pane redraws, and clients create   *)
(* and cancel reminders meanwhile.  Another mux that shares the store      *)
(* finds no pane of its own for the agent and changes nothing.             *)
(***************************************************************************)
EXTENDS Freezing

CONSTANTS
    Ids,          \* reminder ids, each created once
    Every,        \* every_seconds of each reminder; 0 is delivered once
    Dues,         \* the first due times clients ask for
    RedrawWithin, \* REDRAW_UNRESPONSIVE_LIMIT, in units of time
    MaxTime       \* the last moment considered

ASSUME RemindersAssumption ==
    /\ Every \in [Ids -> Nat]
    /\ Dues \subseteq Nat
    /\ RedrawWithin \in Nat
    /\ MaxTime \in Nat

VARIABLES
    now,          \* Utc::now()
    store,        \* agent_reminder_v1: the row of each id
    batch,        \* what is left of store.due(now) in deliver_due_reminders
    batchNow,     \* its now
    place,        \* where the task awaits; it does not at "next"
    current,      \* the reminder it is delivering
    lost,         \* the pane it is delivering to was removed
    dialog,       \* the agent waits for an answer: input_blocked_reason
    created,      \* history: the ids created
    cancelled,    \* history: the ids cancelled, the answer being true
    lastSent      \* history: batchNow of each id's last recorded delivery

taskVars == <<batch, batchNow, place, current, lost>>
reminderVars == <<now, store, taskVars, dialog, created, cancelled, lastSent>>
vars == <<freezingVars, reminderVars>>

Gone == [stored |-> FALSE, due |-> 0, error |-> FALSE]
Row(due, error) == [stored |-> TRUE, due |-> due, error |-> error]
Rows == [stored : BOOLEAN, due : Nat, error : BOOLEAN]

\* AgentReminder, as the task holds it: a copy of the row it read.
Copy(i) == [id |-> i, due |-> store[i].due, error |-> store[i].error]
Copies == [id : Ids, due : Nat, error : BOOLEAN]
Nobody == [id |-> "nobody"]

-----------------------------------------------------------------------------
(* Clients.                                                                *)

\* CreateAgentReminder
Create(i) ==
    /\ up /\ i \notin created
    /\ \E due \in Dues : store' = [store EXCEPT ![i] = Row(due, FALSE)]
    /\ created' = created \cup {i}
    /\ UNCHANGED <<freezingVars, now, taskVars, dialog, cancelled, lastSent>>

\* CancelAgentReminder
Cancel(i) ==
    /\ up /\ store[i].stored
    /\ store' = [store EXCEPT ![i] = Gone]
    /\ cancelled' = cancelled \cup {i}
    /\ UNCHANGED <<freezingVars, now, taskVars, dialog, created, lastSent>>

-----------------------------------------------------------------------------
(* deliver_due_reminders and deliver.                                      *)

\* Fault: a reminder that could not be delivered is not due again.
ReadDueSkipsFailed ==
    LET due == {i \in Ids : store[i].stored /\ ~store[i].error
                               /\ store[i].due <= now}
    IN  /\ up /\ place = "sleeping" /\ due # {}
        /\ batch' = {Copy(i) : i \in due}
        /\ batchNow' = now
        /\ place' = "next"
        /\ UNCHANGED <<freezingVars, now, store, current, lost, dialog,
                       created, cancelled, lastSent>>

\* The due reminders are read once for the whole batch.
ReadDue ==
    LET due == {i \in Ids : store[i].stored /\ store[i].due <= now}
    IN  /\ up /\ place = "sleeping" /\ due # {}
        /\ batch' = {Copy(i) : i \in due}
        /\ batchNow' = now
        /\ place' = "next"
        /\ UNCHANGED <<freezingVars, now, store, current, lost, dialog,
                       created, cancelled, lastSent>>

\* Fault: the loop is left after one reminder.
ContinueOnce(left) ==
    /\ batch' = left
    /\ current' = Nobody /\ lost' = FALSE
    /\ place' = "sleeping"
    /\ UNCHANGED <<batchNow, events>>

\* The batch goes on with the next reminder, or is done.
Continue(left) ==
    /\ batch' = left
    /\ current' = Nobody /\ lost' = FALSE
    /\ place' = IF left = {} THEN "sleeping" ELSE "next"
    /\ UNCHANGED <<batchNow, events>>

\* A write to the store failed: the rest of the batch is given up.
GiveUp ==
    /\ Interfere
    /\ batch' = {} /\ current' = Nobody /\ lost' = FALSE
    /\ place' = "sleeping"
    /\ UNCHANGED batchNow

\* The delivery of r failed: an error that differs from the one before is
\* saved with the copy.
NotDelivered(r) ==
    \/ /\ store' = [store EXCEPT ![r.id] = Row(r.due, TRUE)]
       /\ Continue(batch \ {r})
    \/ r.error /\ Continue(batch \ {r}) /\ UNCHANGED store
    \/ GiveUp /\ UNCHANGED store

\* The reminders the task takes next: soonest first.
Soonest == {r \in batch : \A other \in batch : r.due <= other.due}

\* agent_input_box: a draft nobody is typing may be set aside.
InputBox ==
    IF box = "empty" \/ ~registered THEN {"ready"}
    ELSE {"blocked"}
           \cup (IF sinceInput = FreezeAfter THEN {"idle_draft"} ELSE {})

\* The agent has no pane here: the reminder is another mux's.
NotHere ==
    /\ place = "next" /\ ~registered
    /\ \E r \in Soonest : Continue(batch \ {r})
    /\ UNCHANGED <<paneVars, now, store, dialog, created, cancelled,
                   lastSent>>

\* The agent is not running, waits for an answer, or holds a draft.
Blocked ==
    /\ place = "next" /\ registered
    /\ dialog \/ "blocked" \in InputBox
    /\ \E r \in Soonest : NotDelivered(r)
    /\ UNCHANGED <<paneVars, now, dialog, created, cancelled, lastSent>>

\* send_prompt
Type ==
    /\ place = "next" /\ registered
    /\ ~dialog /\ "ready" \in InputBox
    /\ \E r \in Soonest : current' = r
    /\ place' = "typed"
    /\ Write
    /\ UNCHANGED <<muxVars, registered, box, status, events, cleared, now,
                   store, batch, batchNow, lost, dialog, created, cancelled,
                   lastSent>>

\* stash_claude_draft
Stash ==
    /\ place = "next" /\ registered
    /\ ~dialog /\ "idle_draft" \in InputBox
    /\ \E r \in Soonest : current' = r
    /\ place' = "stashing"
    /\ Write
    /\ UNCHANGED <<muxVars, registered, box, status, events, cleared, now,
                   store, batch, batchNow, lost, dialog, created, cancelled,
                   lastSent>>

\* The task holds the pane it began with: when that is gone, what it writes
\* reaches nobody.
WriteHeld ==
    IF lost THEN UNCHANGED <<frozenVars, clockVars, unread>> ELSE Write

\* The box is looked at again once the pane has redrawn.
Stashed ==
    /\ place = "stashing"
    /\ \/ /\ lost \/ InputBox = {"ready"}
          /\ place' = "typed"
          /\ WriteHeld
          /\ UNCHANGED <<events, store, batch, batchNow, current, lost>>
       \/ /\ lost \/ InputBox # {"ready"}
          /\ NotDelivered(current)
          /\ UNCHANGED <<frozenVars, clockVars, unread>>
    /\ UNCHANGED <<muxVars, registered, box, status, cleared, now, dialog,
                   created, cancelled, lastSent>>

\* Fault: a repeating reminder moves on by one interval, passed or not.
AfterDeliveryReplays(r, at) == Row(r.due + Every[r.id], FALSE)

\* after_delivery: times that passed meanwhile are skipped.
AfterDelivery(r, at) ==
    IF Every[r.id] = 0 THEN Gone
    ELSE IF r.due + Every[r.id] <= at THEN Row(at + Every[r.id], FALSE)
    ELSE Row(r.due + Every[r.id], FALSE)

\* Enter is pressed once the pane has redrawn, and the delivery is recorded
\* in the same stretch.
PressEnter ==
    /\ place = "typed"
    /\ WriteHeld
    /\ \/ /\ store' = [store EXCEPT ![current.id] =
                          AfterDelivery(current, batchNow)]
          /\ lastSent' = [lastSent EXCEPT ![current.id] = batchNow + 1]
          /\ Continue(batch \ {current})
       \/ GiveUp /\ UNCHANGED <<store, lastSent>>
       \/ lost /\ NotDelivered(current) /\ UNCHANGED lastSent
    /\ UNCHANGED <<muxVars, registered, box, status, cleared, now, dialog,
                   created, cancelled>>

RemoveAgentPane ==
    /\ RemovePane
    /\ lost' = (place \in {"stashing", "typed"})
    /\ dialog' = FALSE
    /\ UNCHANGED <<now, store, batch, batchNow, place, current, created,
                   cancelled, lastSent>>

-----------------------------------------------------------------------------
(* The agent's dialogs, time, and the life of the mux.                     *)

OpenDialog ==
    /\ ~suspended /\ ~dialog /\ Interfere
    /\ dialog' = TRUE
    /\ UNCHANGED <<muxVars, registered, frozenVars, clockVars, agentVars,
                   cleared, now, store, taskVars, created, cancelled,
                   lastSent>>

\* The user answers it, with keys that reach the agent at once.
CloseDialog ==
    /\ dialog /\ ~suspended
    /\ dialog' = FALSE
    /\ UNCHANGED <<freezingVars, now, store, taskVars, created, cancelled,
                   lastSent>>

\* wait_for_redraw ends within its limit.
Tick ==
    /\ now < MaxTime
    /\ place \in {"stashing", "typed"} => sinceInput < RedrawWithin
    /\ now' = now + 1
    /\ PassTime
    /\ UNCHANGED <<muxVars, registered, frozenVars, agentVars, events, cleared,
                   store, taskVars, dialog, created, cancelled, lastSent>>

\* The mux stops with a prompt typed, or with its Enter pressed and not
\* recorded; the store stays.
Stop ==
    /\ StopMux
    /\ batch' = {} /\ batchNow' = 0 /\ current' = Nobody /\ lost' = FALSE
    /\ place' = "sleeping"
    /\ dialog' = FALSE
    /\ UNCHANGED <<now, store, created, cancelled, lastSent>>

Restart == StartMux /\ UNCHANGED reminderVars

Init ==
    /\ FreezingInit
    /\ now = 0
    /\ store = [i \in Ids |-> Gone]
    /\ batch = {} /\ batchNow = 0 /\ place = "sleeping"
    /\ current = Nobody /\ lost = FALSE
    /\ dialog = FALSE
    /\ created = {} /\ cancelled = {}
    /\ lastSent = [i \in Ids |-> 0]

\* The task takes the next reminder as far as its first await, in the same
\* stretch as the one before.
NextReminder == NotHere \/ Blocked \/ Type \/ Stash

Deliver == NextReminder \/ Stashed \/ PressEnter

\* What else the main thread does, while the task awaits.
MainThread ==
    \/ FreezingStep /\ UNCHANGED reminderVars
    \/ \E i \in Ids : Create(i) \/ Cancel(i)
    \/ ReadDue \/ Stashed \/ PressEnter \/ RemoveAgentPane

Outside ==
    \/ AgentStep /\ UNCHANGED reminderVars
    \/ OpenDialog \/ CloseDialog \/ Stop \/ Restart

Next ==
    \/ NextReminder
    \/ place # "next" /\ (MainThread \/ Tick)
    \/ Outside

Spec == Init /\ [][Next]_vars

\* The ticks of both loops fire and the main thread polls the task; a
\* running agent reads its input and its turns end; time passes.
FairSpec ==
    /\ Spec
    /\ WF_vars(ReadDue) /\ WF_vars(Deliver)
    /\ WF_vars(FirstFreezeTick /\ UNCHANGED reminderVars)
    /\ WF_vars(AgentReads /\ UNCHANGED reminderVars)
    /\ WF_vars(Tick) /\ WF_vars(Restart)

-----------------------------------------------------------------------------
(* Properties.                                                             *)

\* Every variable of the store, the task and the pane has its type, and the
\* task sleeps when it has been through the whole batch, and only then.
TypeOK ==
    /\ FreezingTypeOK
    /\ now \in Nat
    /\ store \in [Ids -> Rows]
    /\ batch \subseteq Copies /\ batchNow \in Nat
    /\ place \in {"sleeping", "next", "stashing", "typed"}
    /\ place = "sleeping" <=> batch = {}
    /\ current \in Copies \cup {Nobody} /\ lost \in BOOLEAN
    /\ dialog \in BOOLEAN
    /\ created \subseteq Ids /\ cancelled \subseteq Ids
    /\ lastSent \in [Ids -> Nat]

\* A reminder is delivered once per due time, and the times that passed
\* while it could not be delivered are not replayed: every recorded delivery
\* is of a due time after the moment the previous one was due by
\* (after_delivery, and the batch that is read once).
MissedRunsNotReplayed ==
    [][\A i \in Ids :
          lastSent'[i] # lastSent[i] => current.due >= lastSent[i]]_vars

\* Input reaches a running process: whatever is typed into the pane of a
\* registered agent, by a user or for a reminder, the agent is not frozen
\* when it arrives, unless the system refused to thaw it
\* (record_agent_input_generation and thaw_agent_pane).
InputReachesRunning ==
    [][registered /\ ~lost /\ (Keys \/ Type \/ Stash \/ PressEnter)
          => ~suspended' \/ refused']_vars

\* Whatever was typed is read in the end: no agent is frozen with input it
\* has not taken.  The exceptions are a thaw the system refused, and an
\* agent registered anew: input is not counted, or forgotten, without a
\* registration (freeze_idle_agents).
InputIsRead ==
    unread ~> ~unread \/ refused \/ cleared

\* A process that a stopped mux left frozen runs again once the next one
\* starts freezing (thaw_leftovers).
LeftoversThawed ==
    (orphan /\ up /\ ~started) ~> (~orphan \/ refused \/ ~configured \/ ~up)

\* A reminder that is due is delivered, or cancelled, if from some moment on
\* the mux runs, the agent stays registered, has no dialog open and no draft
\* in its box (deliver_due_reminders, after any number of failures).
DueIsDelivered ==
    <>[](up /\ registered /\ ~dialog /\ box = "empty") =>
        \A i \in Ids :
            (store[i].stored /\ store[i].due <= now)
                ~> (~store[i].stored \/ store[i].due > now)

\* A cancelled reminder is gone (cancel).
CancelledIsGone == \A i \in cancelled : ~store[i].stored

-----------------------------------------------------------------------------
(* The inductive invariant behind the action properties.                   *)

\* A row of the store is due no sooner than its last delivery was.
RowsMoveOn ==
    \A i \in Ids :
        /\ store[i].stored => i \in created /\ store[i].due >= lastSent[i]
        /\ i \notin created => lastSent[i] = 0

\* So is every copy the task holds, and it holds one of each reminder.
CopiesMoveOn ==
    /\ \A r \in batch : r.id \in created /\ r.due >= lastSent[r.id]
    /\ \A r, s \in batch : r.id = s.id => r = s
    /\ place \in {"stashing", "typed"} => current \in batch

\* The mux knows which process it froze, unless it was refused the thaw.
FrozenIsKnown == suspended => frozenAgents \/ refused

IInv == TypeOK /\ RowsMoveOn /\ CopiesMoveOn /\ FrozenIsKnown

=============================================================================
