----------------------------- MODULE ClientView -----------------------------
(***************************************************************************)
(* A GUI client's copy of a window that a mux server owns: which tabs it   *)
(* has, in which order, and which of them this client shows.               *)
(*                                                                         *)
(* The user acts on the copy at once and the client tells the server       *)
(* afterwards, through outboxes that keep one request in flight.  The      *)
(* server tells the client of changes through a queue of notifications     *)
(* and, when asked, with snapshots.  Requests are sent, and answered, in   *)
(* the order they were made; notifications travel apart from the answers.  *)
(*                                                                         *)
(* One window, one pane in each tab, no parked tabs.                       *)
(***************************************************************************)
EXTENDS Naturals, FiniteSets, Sequences, SequencesExt, FiniteSetsExt

CONSTANTS
    Tabs,        \* tab ids; the server never uses one twice
    None,        \* no tab, no intent, no order
    First,       \* the tabs the window starts with, in order
    Capacity,    \* NOTIFICATION_QUEUE_CAPACITY
    MaxChoices,  \* tabs the user activates
    MaxClosed,   \* tabs that are closed
    MaxEvents    \* those, tabs opened, closed or moved, and lost connections

ASSUME ClientAssumption ==
    /\ IsFiniteSet(Tabs) /\ None \notin Tabs
    /\ First \in Seq(Tabs) /\ First # <<>> /\ IsInjective(First)
    /\ Capacity \in Nat \ {0}
    /\ {MaxChoices, MaxClosed, MaxEvents} \subseteq Nat

VARIABLES
    server,      \* the window, and this client's view of it, at the server
    used,        \* tabs the server has opened so far
    notices,     \* NotificationQueue of the client's session
    identified,  \* the session has a client_id
    link,        \* "up", "down" until it is made again, or "gone"
    requests,    \* requests the server has not handled, oldest first
    replies,     \* answers the client has not taken, oldest first
    view,        \* the client's local window and its active tab
    known,       \* remote tabs and panes that have a local one
    focused,     \* focused_remote_pane_id
    outbox,      \* ActiveTabOutbox: its entry for the window
    generation,  \* ActiveTabOutbox.generation
    flush,       \* flush_active_tab: the intent of each task, by its start
    order,       \* TabOrderOutbox: its entry for the window
    sync,        \* resync_coalesced: resync_in_progress and resync_pending
    scheduled,   \* schedule_resync: tasks that have not run yet
    choice,      \* the tab the user activated last, while that is to last
    events       \* tabs opened, closed or moved, and connections lost, so far

serverVars == <<server, used>>
wireVars == <<identified, link, requests, replies>>
focusVars == <<focused, outbox, generation, flush>>
syncVars == <<sync, scheduled>>
vars == <<serverVars, notices, wireVars, view, known, focusVars, order,
          syncVars, choice, events>>

Generations == 1..MaxChoices
Intents == [generation : Generations, tab : Tabs, acknowledged : BOOLEAN]
NoEntry == [inFlight |-> FALSE, pending |-> None, desired |-> None]
Orders == {tabs \in SeqOf(Tabs, Cardinality(Tabs)) : IsInjective(tabs)}
Views == [tabs : Orders, active : Tabs \cup {None}, last : Tabs \cup {None}]

\* None is no intent.
ASSUME NoneAssumption == None \notin Intents

TypeOK ==
    /\ server \in Views /\ view \in Views
    /\ server.tabs # <<>> /\ server.active \in used
    /\ ToSet(server.tabs) \subseteq used /\ used \subseteq Tabs
    /\ Len(notices) <= Capacity
    /\ identified \in BOOLEAN /\ link \in {"up", "down", "gone"}
    /\ known \subseteq Tabs /\ focused \in Tabs \cup {None}
    /\ outbox \in [inFlight : BOOLEAN, pending : Intents \cup {None},
                   desired : Intents \cup {None}]
    /\ generation \in 0..MaxChoices
    /\ flush \in [Generations -> Intents \cup {None}]
    /\ order \in [inFlight : BOOLEAN, pending : Orders \cup {None}]
    /\ sync \in [stage : {"idle", "list", "status"}, pending : BOOLEAN]
    /\ scheduled \in Nat /\ choice \in Tabs \cup {None}
    /\ events \in 0..MaxEvents

Init ==
    /\ server = [tabs |-> First, active |-> Head(First), last |-> None]
    /\ used = ToSet(First)
    /\ notices = <<>>
    /\ identified = TRUE
    /\ link = "up"
    /\ requests = <<>>
    /\ replies = <<>>
    /\ view = server
    /\ known = ToSet(First)
    /\ focused = None
    /\ outbox = NoEntry
    /\ generation = 0
    /\ flush = [g \in Generations |-> None]
    /\ order = [inFlight |-> FALSE, pending |-> None]
    /\ sync = [stage |-> "idle", pending |-> FALSE]
    /\ scheduled = 0
    /\ choice = None
    /\ events = 0

-----------------------------------------------------------------------------
(* A window and a client's view of it.  Server and client share this code. *)

\* The elements of s that are in S, in their order.  (As SelectSeq does, but
\* the provers know no recursive operator with an operator for an argument.)
Only(s, S) ==
    LET kept[i \in 0..Len(s)] ==
            IF i = 0 THEN <<>>
            ELSE IF s[i] \in S THEN Append(kept[i - 1], s[i])
            ELSE kept[i - 1]
    IN  kept[Len(s)]

\* ClientWindowViewState.set_active_tab.
SetActive(w, t) ==
    IF w.active = t THEN w ELSE [w EXCEPT !.last = w.active, !.active = t]

NoWindow == [tabs |-> <<>>, active |-> None, last |-> None]

\* prune_dead_windows takes a tab whose panes are all dead out of the window.
\* A view of the window goes on naming it; with its last tab the window goes.
PruneTab(w, t) ==
    LET rest == Only(w.tabs, Tabs \ {t})
    IN  IF rest = <<>> THEN NoWindow ELSE [w EXCEPT !.tabs = rest]

\* remove_tab, and repair_client_view_state_after_tab_removed: a view that
\* would name a tab that is gone turns to the one active before, or else to
\* the one in the removed tab's place.
RemoveTab(w, t) ==
    LET rest == Only(w.tabs, Tabs \ {t})
        place == Min({SelectInSeq(w.tabs, LAMBDA x : x = t), Len(rest)})
        Cleared(x) == IF x = t THEN None ELSE x
        cleared == [tabs |-> rest, active |-> Cleared(w.active),
                    last |-> Cleared(w.last)]
    IN  IF rest = <<>> THEN NoWindow
        ELSE IF cleared.active \in ToSet(rest) THEN cleared
        ELSE SetActive(cleared, IF cleared.last \in ToSet(rest)
                                THEN cleared.last ELSE rest[place])

\* Window::apply_tab_order_subset: the listed tabs take their own places in
\* the listed order, the others stay.
ApplyOrder(tabs, listed) ==
    LET own == ToSet(listed)
        Place(i) == Cardinality({j \in 1..i : tabs[j] \in own})
    IN  [i \in DOMAIN tabs |->
            IF tabs[i] \in own THEN listed[Place(i)] ELSE tabs[i]]

Permutes(a, b) == Len(a) = Len(b) /\ ToSet(a) = ToSet(b)

-----------------------------------------------------------------------------
(* NotificationQueue: the changes the server has to tell this session.     *)

Added(t) == [kind |-> "added", tab |-> t, tabs |-> None, own |-> FALSE]
Removed(t) == [kind |-> "removed", tab |-> t, tabs |-> None, own |-> FALSE]
Reordered(tabs, own) ==
    [kind |-> "order", tab |-> None, tabs |-> tabs, own |-> own]

\* NotificationQueue::push: a new order replaces the one that waits.
Queued(n) ==
    LET waiting == SelectInSeq(notices, LAMBDA q : q.kind = "order")
    IN  IF n.kind = "order" /\ waiting # 0
        THEN ReplaceAt(notices, waiting, n)
        ELSE Append(notices, n)

\* Fault: a full queue is not closed.
NotifyUnbounded(n) ==
    IF link # "up" \/ ~identified THEN UNCHANGED <<notices, link>>
    ELSE notices' = Queued(n) /\ UNCHANGED link

\* A session whose queue is full is closed: the client reads an EOF, which
\* ends its thread and detaches the domain.  A session that has not said who
\* it is (wants_mux_notifications) is told nothing.
Notify(n) ==
    IF link # "up" \/ ~identified THEN UNCHANGED <<notices, link>>
    ELSE IF Len(Queued(n)) > Capacity
         THEN link' = "gone" /\ notices' = <<>>
         ELSE notices' = Queued(n) /\ UNCHANGED link

-----------------------------------------------------------------------------
(* What others do to the window.                                           *)

Counted == events + generation < MaxEvents /\ events' = events + 1

\* add_tab_to_window, for any client.
OpenTab(t) ==
    /\ link # "gone" /\ t \notin used
    /\ Counted
    /\ server' = [server EXCEPT !.tabs = Append(@, t)]
    /\ used' = used \cup {t}
    /\ Notify(Added(t))
    /\ UNCHANGED <<identified, requests, replies, view, known,
                   focusVars, order, syncVars, choice>>

\* Closing t leaves the server a tab, whatever else is asked to be closed.
MayClose(t) ==
    LET asked == {i \in DOMAIN requests : requests[i].op = "kill"}
        closed == {t} \cup (used \ ToSet(server.tabs))
                      \cup {requests[i].arg : i \in asked}
    IN  Cardinality(closed) <= MaxClosed /\ used \ closed # {}

\* remove_pane: the tab's pane goes, and prune_dead_windows takes the tab.
RemovePane(t) ==
    /\ server' = PruneTab(server, t)
    /\ Notify(Removed(t))
    /\ choice' = IF choice = t THEN None ELSE choice

\* A tab's program exits, or another client closes the tab.
CloseTab(t) ==
    /\ link # "gone" /\ t \in ToSet(server.tabs) /\ MayClose(t)
    /\ Counted
    /\ RemovePane(t)
    /\ UNCHANGED <<used, identified, requests, replies, view, known,
                   focusVars, order, syncVars>>

\* Another client's SetTabOrder: its user moves the first tab to the end.
OtherMoves ==
    /\ link # "gone" /\ Len(server.tabs) > 1
    /\ Counted
    /\ LET tabs == Append(Tail(server.tabs), Head(server.tabs))
       IN  /\ server' = [server EXCEPT !.tabs = tabs]
           /\ Notify(Reordered(tabs, FALSE))
    /\ UNCHANGED <<used, identified, requests, replies, view, known,
                   focusVars, order, syncVars, choice>>

-----------------------------------------------------------------------------
(* The server handles the session's requests in the order they came.       *)

Request(op, by, arg) == [op |-> op, by |-> by, arg |-> arg]
Reply(r, ok, list) == [op |-> r.op, by |-> r.by, ok |-> ok, list |-> list]
Answer(r, ok) == replies' = Append(replies, Reply(r, ok, None))

\* SetClientActiveTab and SetFocusedPane: both make the tab active in the
\* view, and both need a session that said who it is.
HandleActivate(r) ==
    /\ r.op \in {"tab", "pane"}
    /\ LET ok == identified /\ r.arg \in ToSet(server.tabs)
       IN  /\ server' = IF ok THEN SetActive(server, r.arg) ELSE server
           /\ Answer(r, ok)
    /\ UNCHANGED <<notices, link>>

\* SetTabOrder: it must name the window's tabs, each once.
HandleOrder(r) ==
    /\ r.op = "order"
    /\ LET ok == Permutes(r.arg, server.tabs)
           changes == ok /\ r.arg # server.tabs
       IN  /\ server' = IF ok THEN [server EXCEPT !.tabs = r.arg] ELSE server
           /\ IF changes THEN Notify(Reordered(r.arg, TRUE))
                         ELSE UNCHANGED <<notices, link>>
           /\ Answer(r, ok)

\* KillPane, for the pane of a tab.
HandleKill(r) ==
    /\ r.op = "kill"
    /\ LET ok == r.arg \in ToSet(server.tabs)
       IN  /\ IF ok THEN RemovePane(r.arg)
                    ELSE UNCHANGED <<server, notices, link, choice>>
           /\ Answer(r, ok)

\* ListPanes: a session without an identity has no view of its own, and the
\* first tab stands for the active one.  A view that names a tab that is gone
\* is sent as it is.
HandleList(r) ==
    /\ r.op \in {"sync", "attach"}
    /\ LET active == IF identified THEN server.active ELSE Head(server.tabs)
       IN  replies' = Append(replies,
               Reply(r, TRUE, [tabs |-> server.tabs, active |-> active]))
    /\ UNCHANGED <<server, notices, link>>

Serve ==
    /\ link = "up" /\ requests # <<>>
    /\ LET r == Head(requests)
       IN  \/ HandleKill(r)
           \/ /\ HandleActivate(r) \/ HandleOrder(r) \/ HandleList(r)
              /\ UNCHANGED choice
    /\ requests' = Tail(requests)
    /\ UNCHANGED <<used, identified, view, known, focusVars, order,
                   syncVars, events>>

-----------------------------------------------------------------------------
(* resync_coalesced, on the client's main thread.                          *)

\* A resync that runs is asked to run again, else one starts.
ResyncStep(sent) ==
    IF sync.stage # "idle"
    THEN sync' = [sync EXCEPT !.pending = TRUE] /\ requests' = sent
    ELSE /\ sync' = [stage |-> "list", pending |-> FALSE]
         /\ requests' = Append(sent, Request("sync", 0, None))

\* A task of schedule_resync runs.
RunScheduled ==
    /\ link # "gone" /\ scheduled > 0
    /\ scheduled' = scheduled - 1
    /\ ResyncStep(requests)
    /\ UNCHANGED <<serverVars, notices, identified, link, replies,
                   view, known, focusVars, order, choice, events>>

\* Fault: a request that came while the resync ran is forgotten.
FinishResyncForgets ==
    /\ link = "up" /\ sync.stage = "status"
    /\ sync' = [stage |-> "idle", pending |-> FALSE]
    /\ UNCHANGED <<serverVars, notices, wireVars, view, known, focusVars,
                   order, scheduled, choice, events>>

\* get_pane_status is answered: the resync is done, or runs once more.
FinishResync ==
    /\ link = "up" /\ sync.stage = "status"
    /\ IF sync.pending
       THEN /\ sync' = [stage |-> "list", pending |-> FALSE]
            /\ requests' = Append(requests, Request("sync", 0, None))
       ELSE /\ sync' = [stage |-> "idle", pending |-> FALSE]
            /\ UNCHANGED requests
    /\ UNCHANGED <<serverVars, notices, identified, link, replies,
                   view, known, focusVars, order, scheduled, choice, events>>

-----------------------------------------------------------------------------
(* ActiveTabOutbox: the newest choice of the user and what is sent of it.  *)

\* Fault: an intent counts only until it has been sent.
ReconciledWhilePending(box, seen) ==
    IF box.pending = None THEN seen ELSE box.desired.tab

\* reconcile: the tab to show, given the one a snapshot says is active.
Reconciled(box, seen) ==
    IF box.desired = None THEN seen ELSE box.desired.tab

\* reconcile: an acknowledged intent that the snapshot confirms is done.
AfterReconcile(box, seen) ==
    IF box.desired # None /\ box.desired.acknowledged
       /\ box.desired.tab = seen
    THEN [box EXCEPT !.desired = None]
    ELSE box

\* acknowledge: does the answer belong to the newest intent?
Acknowledges(box, intent) ==
    /\ box.desired # None
    /\ box.desired.generation = intent.generation

\* abort_active_tab_intent.
AbortIntent(box) ==
    /\ outbox' = NoEntry
    /\ focused' = IF box.desired # None /\ box.desired.tab = focused
                  THEN None ELSE focused

\* queue_active_tab and ActiveTabOutbox::queue: a task starts unless one is
\* at work, which then takes this intent next.
QueueActive(t) ==
    LET new == generation + 1
        intent == [generation |-> new, tab |-> t, acknowledged |-> FALSE]
    IN  /\ generation' = new
        /\ IF outbox.inFlight
           THEN /\ outbox' = [outbox EXCEPT !.pending = intent,
                                            !.desired = intent]
                /\ UNCHANGED <<flush, requests>>
           ELSE /\ outbox' = [inFlight |-> TRUE, pending |-> None,
                              desired |-> intent]
                /\ flush' = [flush EXCEPT ![new] = intent]
                /\ requests' = Append(requests, Request("tab", new, t))

\* activate_tab: the client shows the tab, and advise_focus queues it unless
\* the server was told of it last.  A tab that has no remote one any more is
\* only shown.
ChooseTab(t) ==
    /\ link # "gone" /\ t \in ToSet(view.tabs)
    /\ generation < MaxChoices /\ events + generation < MaxEvents
    /\ view.active # t \/ focused # t
    /\ view' = SetActive(view, t)
    /\ focused' = t
    /\ choice' = IF t \in ToSet(server.tabs) THEN t ELSE None
    /\ IF focused # t /\ t \in known
       THEN QueueActive(t)
       ELSE UNCHANGED <<outbox, generation, flush, requests>>
    /\ UNCHANGED <<serverVars, notices, identified, link, replies,
                   known, order, syncVars, events>>

-----------------------------------------------------------------------------
(* TabOrderOutbox: the order the user gave the tabs.                       *)

\* The user moves the first tab to the end.  translate_local_tab_order sends
\* the order of the tabs the server knows, if all of them are here.
MoveTab ==
    /\ link # "gone" /\ Len(view.tabs) > 1
    /\ Counted
    /\ LET tabs == Append(Tail(view.tabs), Head(view.tabs))
           mine == Only(tabs, known)
           sends == ToSet(mine) = known /\ known # {}
       IN  /\ view' = [view EXCEPT !.tabs = tabs]
           /\ order' = IF ~sends THEN order
                       ELSE [inFlight |-> TRUE,
                             pending |-> IF order.inFlight THEN mine ELSE None]
           /\ requests' = IF sends /\ ~order.inFlight
                          THEN Append(requests, Request("order", 0, mine))
                          ELSE requests
    /\ UNCHANGED <<serverVars, notices, identified, link, replies,
                   known, focusVars, syncVars, choice>>

-----------------------------------------------------------------------------
(* Closing a tab.                                                          *)

\* close_current_tab and close_specific_tab: the local tab goes at once, and
\* its pane asks the server to close its own.  The client keeps a tab.
CloseOwnTab(t) ==
    /\ link # "gone" /\ t \in ToSet(view.tabs) /\ Len(view.tabs) > 1
    /\ MayClose(t)
    /\ Counted
    /\ view' = RemoveTab(view, t)
    /\ requests' = Append(requests, Request("kill", 0, t))
    /\ choice' = IF choice = t THEN None ELSE choice
    /\ UNCHANGED <<serverVars, notices, identified, link, replies,
                   known, focusVars, order, syncVars>>

-----------------------------------------------------------------------------
(* The client takes an answer.                                             *)

\* process_pane_list: a snapshot becomes the client's view.
ProcessPaneList(list) ==
    LET listed == ToSet(list.tabs)
        forget == known \ listed
        missing == Only(list.tabs, Tabs \ ToSet(view.tabs))
        tabs == view.tabs \o missing
        placed == IF Len(list.tabs) < 2 THEN tabs
                  ELSE ApplyOrder(tabs, list.tabs)
        box == AfterReconcile(outbox, list.active)
        wanted == Reconciled(box, list.active)
        dropped == wanted \in forget
        show == IF dropped THEN list.active ELSE wanted
        shown == show \in known \cup listed /\ show \in ToSet(placed)
        filled == [view EXCEPT !.tabs = placed]
    IN  /\ view' = IF shown THEN SetActive(filled, show) ELSE filled
        /\ known' = listed
        /\ IF dropped THEN AbortIntent(box)
                      ELSE outbox' = box /\ UNCHANGED focused

\* The resync's snapshot arrives, or its request or get_pane_status fails.
TakeSync(r) ==
    /\ r.op = "sync"
    /\ IF r.ok
       THEN /\ ProcessPaneList(r.list)
            /\ sync' = [sync EXCEPT !.stage = "status"]
       ELSE /\ sync' = [sync EXCEPT !.stage = "idle"]
            /\ UNCHANGED <<view, known, outbox, focused>>
    /\ UNCHANGED <<requests, generation, flush, order, scheduled, choice>>

\* reattach, after the connection was made again.
TakeAttach(r) ==
    /\ r.op = "attach"
    /\ IF r.ok THEN ProcessPaneList(r.list)
               ELSE UNCHANGED <<view, known, outbox, focused>>
    /\ UNCHANGED <<requests, generation, flush, order, syncVars, choice>>

\* flush_tab_order: the next order, or none; a failure drops what waits.
TakeOrder(r) ==
    /\ r.op = "order"
    /\ IF r.ok /\ order.pending # None
       THEN /\ requests' =
                   Append(requests, Request("order", 0, order.pending))
            /\ order' = [order EXCEPT !.pending = None]
       ELSE /\ order' = [inFlight |-> FALSE, pending |-> None]
            /\ UNCHANGED requests
    /\ scheduled' = IF r.ok THEN scheduled ELSE scheduled + 1
    /\ UNCHANGED <<view, known, focusVars, sync, choice>>

\* flush_active_tab: the tab is set, its pane comes next.
TakeTabSet(r) ==
    /\ r.op = "tab" /\ r.ok
    /\ requests' = Append(requests, Request("pane", r.by, flush[r.by].tab))
    /\ UNCHANGED <<view, known, focusVars, order, syncVars, choice>>

\* Fault: the task ends without looking for a newer intent.
TakeNoMore(g, box) ==
    /\ outbox' = [box EXCEPT !.inFlight = FALSE]
    /\ flush' = [flush EXCEPT ![g] = None]
    /\ UNCHANGED requests

\* take_next_or_finish, for the task g.
TakeNext(g, box) ==
    IF box.pending # None
    THEN /\ outbox' = [box EXCEPT !.pending = None]
         /\ flush' = [flush EXCEPT ![g] = box.pending]
         /\ requests' = Append(requests, Request("tab", g, box.pending.tab))
    ELSE /\ outbox' = [box EXCEPT !.inFlight = FALSE]
         /\ flush' = [flush EXCEPT ![g] = None]
         /\ UNCHANGED requests

\* flush_active_tab: both are set; the newest intent is acknowledged.
TakePaneSet(r) ==
    /\ r.op = "pane" /\ r.ok
    /\ LET acked == Acknowledges(outbox, flush[r.by])
           box == IF acked
                  THEN [outbox EXCEPT !.desired.acknowledged = TRUE]
                  ELSE outbox
       IN  /\ scheduled' = IF acked THEN scheduled + 1 ELSE scheduled
           /\ TakeNext(r.by, box)
    /\ UNCHANGED <<view, known, focused, generation, order, sync, choice>>

\* flush_active_tab: one of the two failed; every intent is given up.
TakeActivateFailed(r) ==
    /\ r.op \in {"tab", "pane"} /\ ~r.ok
    /\ AbortIntent(outbox)
    /\ flush' = [flush EXCEPT ![r.by] = None]
    /\ scheduled' = scheduled + 1
    /\ choice' = None
    /\ UNCHANGED <<requests, view, known, generation, order, sync>>

\* Nobody waits for the answer to KillPane.
TakeKilled(r) ==
    /\ r.op = "kill"
    /\ UNCHANGED <<requests, view, known, focusVars, order, syncVars, choice>>

TakeReply ==
    /\ link # "gone" /\ replies # <<>>
    /\ LET r == Head(replies)
       IN  \/ TakeSync(r)
           \/ TakeAttach(r)
           \/ TakeOrder(r)
           \/ TakeTabSet(r)
           \/ TakePaneSet(r)
           \/ TakeActivateFailed(r)
           \/ TakeKilled(r)
    /\ replies' = Tail(replies)
    /\ UNCHANGED <<serverVars, notices, identified, link, events>>

-----------------------------------------------------------------------------
(* The client takes a notification.                                        *)

\* TabAddedToWindow.
TakeAdded(n) ==
    /\ n.kind = "added"
    /\ ResyncStep(requests)
    /\ UNCHANGED <<view, known>>

\* PaneRemoved: the local tab goes, and with it what maps to no local tab.
\* One the client does not have makes it resync.
TakeRemoved(n) ==
    /\ n.kind = "removed"
    /\ IF n.tab \in known \cap ToSet(view.tabs)
       THEN /\ view' = PruneTab(view, n.tab)
            /\ known' = known \cap ToSet(view'.tabs)
            /\ UNCHANGED <<sync, requests>>
       ELSE /\ ResyncStep(requests)
            /\ UNCHANGED <<view, known>>

\* TabOrderChanged is not sent to the session that caused it.  An order
\* that does not name the tabs known here makes the client resync.
TakeOrdered(n) ==
    /\ n.kind = "order"
    /\ IF n.own THEN UNCHANGED <<view, sync, requests>>
       ELSE IF /\ ToSet(n.tabs) = known
               /\ known \subseteq ToSet(view.tabs)
            THEN /\ view' = [view EXCEPT !.tabs = ApplyOrder(@, n.tabs)]
                          /\ UNCHANGED <<sync, requests>>
            ELSE ResyncStep(requests) /\ UNCHANGED view
    /\ UNCHANGED known

TakeNotice ==
    /\ link = "up" /\ notices # <<>>
    /\ LET n == Head(notices)
       IN  TakeAdded(n) \/ TakeRemoved(n) \/ TakeOrdered(n)
    /\ notices' = Tail(notices)
    /\ UNCHANGED <<serverVars, identified, link, replies, focusVars,
                   order, scheduled, choice, events>>

\* get_active_mux_tab: a view that names no tab of the window shows the first.
ShownTab ==
    IF view.active \in ToSet(view.tabs) THEN view.active ELSE Head(view.tabs)

\* poll: the pane that is shown turns out to be gone at the server, and its
\* tab is pruned.  The mapping stays.
PollDead ==
    /\ link = "up" /\ view.tabs # <<>>
    /\ ShownTab \notin ToSet(server.tabs)
    /\ view' = PruneTab(view, ShownTab)
    /\ UNCHANGED <<serverVars, notices, wireVars, known, focusVars, order,
                   syncVars, choice, events>>

-----------------------------------------------------------------------------
(* The connection of a domain that reconnects (TLS).                       *)

\* Promises::fail_all fails every request that waits for its answer, and
\* what the server had to say is lost.
Drop ==
    /\ link = "up"
    /\ link' = "down"
    /\ Counted
    /\ notices' = <<>>
    /\ LET lost == replies \o requests
           status == IF sync.stage # "status" THEN <<>>
                     ELSE <<Request("sync", 0, None)>>
       IN  replies' = [i \in DOMAIN (lost \o status) |->
                          Reply((lost \o status)[i], FALSE, None)]
    /\ requests' = <<>>
    /\ UNCHANGED <<serverVars, identified, view, known, focusVars, order,
                   syncVars, choice>>

\* Fault: the client connects again and does not reattach.
ReconnectOnly ==
    /\ link = "down"
    /\ link' = "up"
    /\ identified' = FALSE
    /\ UNCHANGED <<serverVars, notices, requests, replies, view, known,
                   focusVars, order, syncVars, choice, events>>

\* The client connects again and reattaches.  It said who it is only when
\* it first connected (verify_version_compat).
Reconnect ==
    /\ link = "down"
    /\ link' = "up"
    /\ identified' = FALSE
    /\ requests' = Append(requests, Request("attach", 0, None))
    /\ UNCHANGED <<serverVars, notices, replies, view, known,
                   focusVars, order, syncVars, choice, events>>

-----------------------------------------------------------------------------
Next ==
    \/ \E t \in Tabs : OpenTab(t) \/ CloseTab(t)
    \/ \E t \in Tabs : ChooseTab(t) \/ CloseOwnTab(t)
    \/ OtherMoves \/ MoveTab
    \/ Serve
    \/ RunScheduled \/ FinishResync
    \/ TakeReply \/ TakeNotice \/ PollDead
    \/ Drop \/ Reconnect

Spec == Init /\ [][Next]_vars

\* Both main threads and the connection's thread get on with what is queued
\* for them, and a lost connection is retried until it is made: while there
\* is such a step, one of them is taken.
Fairness ==
    WF_vars(\/ Serve \/ RunScheduled \/ FinishResync
            \/ TakeReply \/ TakeNotice \/ Reconnect)

FairSpec == Spec /\ Fairness

-----------------------------------------------------------------------------
(* Properties.                                                             *)

\* Nothing is under way between client and server.
Quiet ==
    /\ link = "up" /\ sync.stage = "idle" /\ scheduled = 0
    /\ requests = <<>> /\ replies = <<>> /\ notices = <<>>

\* The tab the user activated last stays the one shown, whatever snapshots
\* taken before the server heard of it arrive meanwhile (reconcile), until
\* its tab closes, a request to activate a tab fails, or the client is back
\* on a session that does not know it.
ChoiceKept == choice # None /\ identified => view.active = choice

\* When nothing is under way the server shows this client, in its view, the
\* tab the user activated last: the outbox left no choice behind, and no
\* older one overtook it.
ChoiceArrives ==
    Quiet /\ identified /\ choice # None => server.active = choice

\* When nothing is under way the client has all of the server's tabs: no
\* new tab was lost by coalescing resyncs or notifications, or because the
\* snapshot that was to bring it is older than the tab.
NothingMissed ==
    Quiet /\ identified =>
        ToSet(server.tabs) \subseteq known \cap ToSet(view.tabs)

\* A tab the server has while the client's session, or the one it lost, knows
\* the client is known to the client in the end, unless it closes again or
\* the domain is detached: a resync that is asked for runs, and reattach
\* brings what was opened while the connection was down or lost with it.
TabsReachClient ==
    \A t \in Tabs :
        t \in ToSet(server.tabs) /\ identified
            ~> (t \in known \/ t \notin ToSet(server.tabs) \/ link = "gone")

\* The same for every tab of the server's, also one that is opened after the
\* client reconnected.
AllTabsReachClient ==
    \A t \in Tabs :
        t \in ToSet(server.tabs)
            ~> (t \in known \/ t \notin ToSet(server.tabs) \/ link = "gone")

-----------------------------------------------------------------------------
(* The inductive invariant behind TypeOK and the properties of states.     *)

\* What may be on its way between client and server.
RequestSet ==
    [op : {"tab", "pane"}, by : Generations, arg : Tabs]
        \cup [op : {"kill"}, by : {0}, arg : Tabs]
        \cup [op : {"order"}, by : {0}, arg : Orders]
        \cup [op : {"sync", "attach"}, by : {0}, arg : {None}]
ReplySet ==
    LET Answers(ops, gens, lists) ==
            [op : ops, by : gens, ok : {TRUE}, list : lists]
                \cup [op : ops, by : gens, ok : {FALSE}, list : {None}]
    IN  Answers({"tab", "pane"}, Generations, {None})
            \cup Answers({"kill", "order"}, {0}, {None})
            \cup Answers({"sync", "attach"}, {0},
                         [tabs : Orders, active : Tabs])
NoticeSet ==
    [kind : {"added", "removed"}, tab : Tabs, tabs : {None}, own : {FALSE}]
        \cup [kind : {"order"}, tab : {None}, tabs : Orders, own : BOOLEAN]

WireOK ==
    /\ requests \in Seq(RequestSet) /\ replies \in Seq(ReplySet)
    /\ notices \in Seq(NoticeSet)

\* The tabs that are asked to be closed are not all that the server has.
OneIsLeft ==
    \E t \in ToSet(server.tabs) : \A r \in ToSet(requests) :
        r.op = "kill" => r.arg # t

\* Requests and answers stand in one line: a request keeps its place in it
\* when it is answered.
InLine(r) == [op |-> r.op, by |-> r.by]
LineOf(answers, asked) ==
    [i \in 1..(Len(answers) + Len(asked)) |->
        IF i <= Len(answers) THEN InLine(answers[i])
        ELSE InLine(asked[i - Len(answers)])]
Line == LineOf(replies, requests)

\* Where the line has something of a flush_active_tab task.
Activations(line) == {i \in DOMAIN line : line[i].op \in {"tab", "pane"}}

\* Every task has one place in the line, and an intent of its own.
Tasks(line, f, g) ==
    /\ \A i, j \in Activations(line) : line[i].by = line[j].by => i = j
    /\ \A h \in Generations :
          f[h] # None <=> \E i \in Activations(line) : line[i].by = h
    /\ \A h \in Generations :
          f[h] # None => h <= g /\ f[h].generation <= g
    /\ \A h, k \in Generations :
          f[h] # None /\ f[k] # None /\ h # k =>
              f[h].generation # f[k].generation

\* An intent that waits is the newest, and somebody will take it.
Waiting(line, f, box, g) ==
    /\ box.inFlight => Activations(line) # {}
    /\ box.desired # None => box.desired.generation <= g
    /\ box.pending # None =>
          /\ box.pending = box.desired /\ box.inFlight
          /\ ~box.desired.acknowledged
          /\ \A h \in Generations :
                f[h] # None => f[h].generation # box.pending.generation

\* The task at the place i works on the newest intent, and whatever an older
\* task still sends comes before it.
Newest(line, f, box, i) ==
    /\ f[line[i].by].generation = box.desired.generation
    /\ f[line[i].by].tab = box.desired.tab
    /\ \A j \in Activations(line) :
          /\ j > i => line[i].op = "tab" /\ line[j].op = "pane"
          /\ line[i].op = "pane" => line[j].op = "pane"

\* The newest intent is acknowledged and nothing is left to undo it, or it
\* waits, or a task works on it.
Chased(line, f, box) ==
    box.desired # None =>
        \/ box.desired.acknowledged /\ Activations(line) = {}
        \/ box.pending # None
        \/ /\ ~box.desired.acknowledged
           /\ \E i \in Activations(line) : Newest(line, f, box, i)

\* What the server shows once it has handled the newest intent.
Shows(answers, f, box, active) ==
    box.desired # None =>
        /\ box.desired.acknowledged => active = box.desired.tab
        /\ \A r \in ToSet(answers) :
              r.op = "pane" /\ r.ok
                  /\ f[r.by].generation = box.desired.generation
                  => active = box.desired.tab

\* A request to activate a tab is for the one its task works on.
AskedFor(asked, f) ==
    \A r \in ToSet(asked) :
        r.op \in {"tab", "pane"} => r.arg = f[r.by].tab

\* One resync at a time, and none fails.
OneResync(line, answers, stage) ==
    /\ \A i, j \in DOMAIN line :
          line[i].op = "sync" /\ line[j].op = "sync" => i = j
    /\ stage = "list" <=> \E i \in DOMAIN line : line[i].op = "sync"
    /\ \A i \in DOMAIN line : line[i].op # "attach"
    /\ \A r \in ToSet(answers) : r.op = "sync" => r.ok

\* What the client has heard of is no news, and no snapshot is older than
\* what it has.
NoneForgotten ==
    /\ ToSet(view.tabs) \cup known \cup ({focused} \ {None}) \subseteq used
    /\ ToSet(view.tabs) \cap ToSet(server.tabs) \subseteq known
    /\ \A r \in ToSet(replies) :
          r.op = "sync" =>
              /\ ToSet(r.list.tabs) \subseteq used
              /\ known \cap ToSet(server.tabs) \subseteq ToSet(r.list.tabs)
    /\ \A n \in ToSet(notices) :
          n.kind = "removed" => n.tab \in used \ ToSet(server.tabs)

\* Something that is under way will bring the tab t, or close it.
Coming(t) ==
    \/ \E n \in ToSet(notices) : n.kind = "added" /\ n.tab = t
    \/ sync.stage # "idle" /\ sync.pending
    \/ scheduled > 0
    \/ \E r \in ToSet(requests) : r.op = "sync"
    \/ \E r \in ToSet(replies) : r.op = "sync" /\ t \in ToSet(r.list.tabs)
    \/ \E r \in ToSet(requests) : r.op = "kill" /\ r.arg = t

AllComing ==
    \A t \in ToSet(server.tabs) :
        t \in known \cap ToSet(view.tabs) \/ Coming(t)

\* The server shows t, and will in every snapshot.
Settled(t) ==
    /\ Activations(Line) = {} /\ server.active = t
    /\ \A r \in ToSet(replies) : r.op = "sync" => r.list.active = t

\* The tab the server was told of last is what the outbox wants, or it wants
\* nothing because that is settled.
FocusHolds ==
    focused \in ToSet(server.tabs) =>
        IF outbox.desired = None THEN Settled(focused)
                                 ELSE outbox.desired.tab = focused

\* A choice that lasts is shown, and its tab is there on both sides.
ChoiceHeld ==
    identified /\ choice # None =>
        /\ view.active = choice
        /\ choice \in ToSet(view.tabs) \cap ToSet(server.tabs)

\* While the connection that knew the client is down every request fails, and
\* on a later one those that activate a tab.
AllFail ==
    link # "gone" /\ (link = "down" \/ ~identified) =>
        \A r \in ToSet(replies) :
            identified \/ r.op \in {"tab", "pane"} => ~r.ok

\* On that connection.
InTouch ==
    identified /\ link = "up" =>
        /\ Tasks(Line, flush, generation)
        /\ Waiting(Line, flush, outbox, generation)
        /\ Chased(Line, flush, outbox)
        /\ Shows(replies, flush, outbox, server.active)
        /\ AskedFor(requests, flush)
        /\ OneResync(Line, replies, sync.stage)
        /\ NoneForgotten
        /\ AllComing
        /\ FocusHolds
        /\ choice # None => choice = focused

IInv == TypeOK /\ WireOK /\ OneIsLeft /\ ChoiceHeld /\ AllFail /\ InTouch

=============================================================================
