----------------------------- MODULE MuxTopology -----------------------------
(***************************************************************************)
(* The mux of a server: its panes, tabs and windows, and what clients and  *)
(* exiting programs do to them.                                            *)
(*                                                                         *)
(* Everything here runs on the main thread.  A request that starts a       *)
(* program (SpawnV2, SplitPane) waits for spawn_pane in its middle (for    *)
(* the remote end of an ssh domain, or for the callback of an exec         *)
(* domain), and meanwhile anything may happen to the window or the pane it *)
(* is for.  A request that only moves panes runs through.                  *)
(*                                                                         *)
(* The auto-save thread reads Mux.windows meanwhile.  remove_tab and       *)
(* prune_dead_windows only try to write it, and go without if they cannot: *)
(* free has those of the two that can.                                     *)
(*                                                                         *)
(* A tab's split tree is the set of its panes.  Programs are closed with   *)
(* their pane (ExitBehavior::Close); no pane waits for an agent to be      *)
(* restored.                                                               *)
(***************************************************************************)
EXTENDS Naturals, FiniteSets

CONSTANTS
    Clients,     \* clients, each with one request at a time
    None,        \* no client
    MaxPanes,    \* panes that are made
    MaxTabs,     \* tabs that are made
    MaxWindows,  \* windows that are made
    MaxRequests, \* requests of all clients
    FirstPanes   \* panes in the tab that the server starts with

ASSUME TopologyAssumption ==
    /\ IsFiniteSet(Clients) /\ None \notin Clients
    /\ {MaxPanes, MaxTabs, MaxWindows} \subseteq Nat \ {0}
    /\ MaxRequests \in Nat
    /\ FirstPanes \in 1..MaxPanes

VARIABLES
    mux,       \* what the Mux holds, its Activity and the tasks it queued
    made,      \* the ids given out and the requests made so far
    exited,    \* panes whose program was reaped: is_dead
    reader,    \* read_from_pane_pty, by pane: none, open, ended or done
    task,      \* the request of each client that waits for spawn_pane
    identity   \* Mux.identity

vars == <<mux, made, exited, reader, task, identity>>

Panes == 1..MaxPanes
Tabs == 1..MaxTabs
Windows == 1..MaxWindows

Muxes == [panes : SUBSET Panes,               \* Mux.panes
          tabs : SUBSET Tabs,                 \* Mux.tabs
          trees : [Tabs -> SUBSET Panes],     \* the panes of each tab
          windows : SUBSET Windows,           \* Mux.windows
          held : [Windows -> SUBSET Tabs],    \* the tabs of each window
          activity : Nat,                     \* Activity::count
          prunes : Nat,                       \* queued prune_dead_windows
          removals : SUBSET Panes,            \* queued remove_pane
          owed : BOOLEAN]  \* a removal or a pruning was left out that had
                           \* something to do, and none was done since

\* A request under way: for a new tab of a window, a tab of a new window, or
\* a split of a pane in a tab.  prior is the IdentityHolder's.
Tasks == [op : {"idle", "tab", "window", "split"},
          window : Windows \cup {0}, tab : Tabs \cup {0},
          pane : Panes \cup {0}, prior : Clients \cup {None}]

\* The ids given out so far, and the requests made.
Counts == [panes : 0..MaxPanes, tabs : 0..MaxTabs,
           windows : 0..MaxWindows, requests : 0..MaxRequests]

Idle == [op |-> "idle", window |-> 0, tab |-> 0, pane |-> 0, prior |-> None]

TypeOK ==
    /\ mux \in Muxes
    /\ made \in Counts
    /\ exited \subseteq Panes
    /\ reader \in [Panes -> {"none", "open", "ended", "done"}]
    /\ task \in [Clients -> Tasks]
    /\ identity \in Clients \cup {None}

\* A server with one window, of one tab.
Init ==
    /\ mux = [panes |-> 1..FirstPanes, tabs |-> {1},
              trees |-> [t \in Tabs |-> IF t = 1 THEN 1..FirstPanes ELSE {}],
              windows |-> {1},
              held |-> [w \in Windows |-> IF w = 1 THEN {1} ELSE {}],
              activity |-> 0, prunes |-> 0, removals |-> {}, owed |-> FALSE]
    /\ made = [panes |-> FirstPanes, tabs |-> 1, windows |-> 1,
               requests |-> 0]
    /\ exited = {}
    /\ reader = [p \in Panes |-> IF p <= FirstPanes THEN "open" ELSE "none"]
    /\ task = [c \in Clients |-> Idle]
    /\ identity = None

-----------------------------------------------------------------------------
(* Pruning and removing.                                                   *)

Shown(m) == UNION {m.held[w] : w \in m.windows}

\* The tabs of every window lose the panes that are dead or that the mux does
\* not know, which are queued for remove_pane; then tabs without a live pane
\* go, from their window and from the mux, and windows without a tab.
PruneAll(m) ==
    LET shown == Shown(m)
        Dying(t) == IF t \in shown THEN m.trees[t] \ (m.panes \ exited)
                                   ELSE {}
        trees == [t \in Tabs |-> m.trees[t] \ Dying(t)]
        IsDead(t) == trees[t] \subseteq exited
        held == [w \in Windows |->
                    {t \in m.held[w] : ~IsDead(t) /\ t \in m.tabs}]
        dead == {t \in m.tabs : IsDead(t)}
    IN  [m EXCEPT !.trees = trees,
                  !.held = held,
                  !.tabs = @ \ dead,
                  !.panes = @ \ UNION {trees[t] : t \in dead},
                  !.windows = {w \in @ : held[w] # {}},
                  !.removals = @ \cup UNION {Dying(t) : t \in shown},
                  !.owed = FALSE]

\* The places where windows.try_write() may find the auto-save thread reading.
Tries == {"remove", "prune"}

\* Fault: an Activity does not hold up the pruning.
PruneAlways(m, free) == PruneAll(m)

\* prune_dead_windows.  An Activity holds it up, and queues another when it
\* is over; a reader of the windows makes it return, and nothing is queued.
Prune(m, free) ==
    IF m.activity > 0 THEN m
    ELSE IF "prune" \in free THEN PruneAll(m)
    ELSE [m EXCEPT !.owed = PruneAll(m) # m]

\* Fault: the pane goes and nothing is pruned.
RemovePaneOnly(m, p, free) == [m EXCEPT !.panes = @ \ {p}]

\* remove_pane.
RemovePane(m, p, free) == Prune([m EXCEPT !.panes = @ \ {p}], free)

\* remove_tab: the tab goes, with the panes it still has, but stays in its
\* window if the windows are being read.
RemoveTab(m, t, free) ==
    LET gone == [m EXCEPT !.tabs = @ \ {t}, !.panes = @ \ m.trees[t]]
        held == [w \in Windows |-> m.held[w] \ {t}]
    IN  Prune(IF "remove" \in free THEN [gone EXCEPT !.held = held]
                                   ELSE [gone EXCEPT !.owed = TRUE], free)

\* Fault: the count goes down twice.
DropBuilderTwice(m) == [m EXCEPT !.activity = @ - 2, !.prunes = @ + 1]

\* A MuxWindowBuilder goes out of scope, and its Activity with it, which
\* queues prune_dead_windows.
DropBuilder(m) == [m EXCEPT !.activity = @ - 1, !.prunes = @ + 1]

-----------------------------------------------------------------------------
(* What requests are made of.                                              *)

\* resolve_pane_id: p is in the tab t of the window w.
IsAt(m, p, w, t) ==
    /\ w \in m.windows /\ t \in m.held[w]
    /\ t \in m.tabs /\ p \in m.trees[t]

\* new_empty_window.
NewWindow(m, w) == [m EXCEPT !.windows = @ \cup {w}, !.activity = @ + 1]

\* add_tab_and_active_pane, for a new tab t.
AddTab(m, t, p) == [m EXCEPT !.tabs = @ \cup {t}, !.trees[t] = {p},
                             !.panes = @ \cup {p}]

\* add_tab_to_window fails when the window is gone.
AddToWindow(m, t, w) ==
    IF w \in m.windows THEN [m EXCEPT !.held[w] = @ \cup {t}] ELSE m

\* Tab::remove_pane, and remove_tab if that leaves no live pane.
TakeFrom(m, t, p, free) ==
    LET taken == [m EXCEPT !.trees[t] = @ \ {p}]
    IN  IF taken.trees[t] \subseteq exited THEN RemoveTab(taken, t, free)
                                           ELSE taken

\* A client's request comes in; next are the ids given out until it waits
\* or returns.
Asks(next) ==
    /\ made.requests < MaxRequests
    /\ made' = [next EXCEPT !.requests = @ + 1]

NextPane == made.panes + 1
NextTab == made.tabs + 1
NextWindow == made.windows + 1

-----------------------------------------------------------------------------
(* Requests that wait for spawn_pane.                                      *)

\* with_identity, up to the await.
Start(c, request) ==
    /\ task' = [task EXCEPT ![c] = [request EXCEPT !.prior = identity]]
    /\ identity' = c

\* The request returns: the builder and the IdentityHolder are dropped.
Finish(c, m) ==
    /\ mux' = IF task[c].op = "window" THEN DropBuilder(m) ELSE m
    /\ task' = [task EXCEPT ![c] = Idle]
    /\ identity' = task[c].prior

\* SpawnV2 for a window that exists, in which the client names a pane.
SpawnTab(c, p, w, t) ==
    /\ task[c].op = "idle" /\ IsAt(mux, p, w, t) /\ p \in mux.panes
    /\ Asks(made)
    /\ Start(c, [Idle EXCEPT !.op = "tab", !.window = w])
    /\ UNCHANGED <<mux, exited, reader>>

\* SpawnV2 for a new window.
SpawnWindow(c) ==
    /\ task[c].op = "idle" /\ NextWindow \in Windows
    /\ mux' = NewWindow(mux, NextWindow)
    /\ Asks([made EXCEPT !.windows = NextWindow])
    /\ Start(c, [Idle EXCEPT !.op = "window", !.window = NextWindow])
    /\ UNCHANGED <<exited, reader>>

\* SplitPane that starts a program.
SplitPane(c, p, w, t) ==
    /\ task[c].op = "idle" /\ IsAt(mux, p, w, t) /\ p \in mux.panes
    /\ Asks(made)
    /\ Start(c, [Idle EXCEPT !.op = "split", !.tab = t, !.pane = p])
    /\ UNCHANGED <<mux, exited, reader>>

\* spawn_pane made a pane, which has a reader from now on.
Spawned ==
    /\ NextPane \in Panes
    /\ reader' = [reader EXCEPT ![NextPane] = "open"]
    /\ UNCHANGED exited

\* Domain::spawn goes on: a tab for the pane, in the window if that is still
\* there.  If not, tab and pane are left in the mux.
SpawnDone(c) ==
    /\ task[c].op \in {"tab", "window"} /\ NextTab \in Tabs
    /\ Spawned
    /\ made' = [made EXCEPT !.panes = NextPane, !.tabs = NextTab]
    /\ LET added == AddTab(mux, NextTab, NextPane)
       IN  Finish(c, AddToWindow(added, NextTab, task[c].window))

\* Domain::split_pane goes on: the pane goes next to its target if that is
\* still in the tab and has room for it.  If not, it is left in the mux.
SplitDone(c, fits) ==
    /\ task[c].op = "split"
    /\ Spawned
    /\ made' = [made EXCEPT !.panes = NextPane]
    /\ LET added == [mux EXCEPT !.panes = @ \cup {NextPane}]
           ok == fits /\ task[c].pane \in mux.trees[task[c].tab]
       IN  Finish(c, IF ok THEN [added EXCEPT
                                   !.trees[task[c].tab] = @ \cup {NextPane}]
                           ELSE added)

\* spawn_pane fails.
SpawnFails(c) ==
    /\ task[c].op # "idle"
    /\ Finish(c, mux)
    /\ UNCHANGED <<made, exited, reader>>

-----------------------------------------------------------------------------
(* Requests that run through.                                              *)

\* move_pane_to_new_tab, once the window is known.  add_pane takes a pane
\* back that was removed and is still in a tab, and reads from it again.
MovePane(m, p, t, w, free) ==
    /\ NextTab \in Tabs
    /\ LET taken == [m EXCEPT !.trees[t] = @ \ {p}]
           moved == AddToWindow(AddTab(taken, NextTab, p), NextTab, w)
           left == IF moved.trees[t] \subseteq exited
                   THEN RemoveTab(moved, t, free) ELSE moved
       IN  mux' = IF w \in mux.windows THEN left ELSE DropBuilder(left)
    /\ reader' = IF p \in m.panes THEN reader
                 ELSE [reader EXCEPT ![p] = "open"]
    /\ UNCHANGED <<exited, task, identity>>

\* The pane does not take the size of its new tab: it has left its tab, which
\* nobody removes if it is dead now, and is in none.
ResizeFails(m, p, t, w) ==
    /\ NextTab \in Tabs
    /\ LET taken == [m EXCEPT !.trees[t] = @ \ {p}]
           dead == taken.trees[t] \subseteq exited
       IN  mux' = IF w \in mux.windows
                  THEN [taken EXCEPT !.owed = @ \/ dead]
                  ELSE DropBuilder(taken)
    /\ UNCHANGED <<exited, reader, task, identity>>

Move(m, p, t, w, free) == MovePane(m, p, t, w, free) \/ ResizeFails(m, p, t, w)

\* MovePaneToNewTab, in a window that exists.
MoveToTab(p, v, t, w, free) ==
    /\ IsAt(mux, p, v, t) /\ w \in mux.windows
    /\ Move(mux, p, t, w, free)
    /\ Asks([made EXCEPT !.tabs = NextTab])

\* MovePaneToNewTab, in a new window.
MoveToWindow(p, v, t, free) ==
    /\ IsAt(mux, p, v, t) /\ NextWindow \in Windows
    /\ Move(NewWindow(mux, NextWindow), p, t, NextWindow, free)
    /\ Asks([made EXCEPT !.tabs = NextTab, !.windows = NextWindow])

\* Fault: the pane that is moved stays where it was as well.
SplitMoveCopies(p, w, t, q, v, s, fits, free) ==
    /\ IsAt(mux, p, w, t) /\ p \in mux.panes /\ IsAt(mux, q, v, s)
    /\ Asks(made)
    /\ mux' = IF fits THEN [mux EXCEPT !.trees[t] = @ \cup {q}] ELSE mux
    /\ UNCHANGED <<exited, reader, task, identity>>

\* SplitPane that moves the pane q next to p.  It is taken from its tab
\* before it is known to fit, or that p is not q.  A pruning in between does
\* not see q, and makes up for nothing that was left out before.
SplitMove(p, w, t, q, v, s, fits, free) ==
    /\ IsAt(mux, p, w, t) /\ p \in mux.panes /\ IsAt(mux, q, v, s)
    /\ LET taken == TakeFrom(mux, s, q, free)
           ok == fits /\ p \in taken.trees[t]
       IN  mux' = IF ok THEN [taken EXCEPT !.trees[t] = @ \cup {q},
                                           !.owed = @ \/ mux.owed]
                        ELSE taken
    /\ Asks(made)
    /\ UNCHANGED <<exited, reader, task, identity>>

\* KillPane.
KillPane(p, free) ==
    /\ p \in mux.panes
    /\ Asks(made)
    /\ mux' = RemovePane(mux, p, free)
    /\ UNCHANGED <<exited, reader, task, identity>>

-----------------------------------------------------------------------------
(* Programs exit, and queued tasks run.                                    *)

\* The pane p is in the mux or in a tab.  All that the program of another one
\* does when it exits is to have prune_dead_windows run once more.
IsHeard(p) == p \in mux.panes \cup UNION {mux.trees[t] : t \in Tabs}

\* Fault: nobody is told that the child was reaped.
ChildReapedQuietly(p) ==
    /\ IsHeard(p) /\ p \notin exited
    /\ exited' = exited \cup {p}
    /\ UNCHANGED <<mux, made, reader, task, identity>>

\* The child is reaped, which queues prune_dead_windows (split_child).
ChildReaped(p) ==
    /\ IsHeard(p) /\ p \notin exited
    /\ exited' = exited \cup {p}
    /\ mux' = [mux EXCEPT !.prunes = @ + 1]
    /\ UNCHANGED <<made, reader, task, identity>>

\* The reader finds the end of the pty, sooner or later than that.
PtyEnds(p) ==
    /\ IsHeard(p) /\ reader[p] = "open"
    /\ reader' = [reader EXCEPT ![p] = "ended"]
    /\ UNCHANGED <<mux, made, exited, task, identity>>

\* The task that the reader queued at its end.
RunEnd(p, free) ==
    /\ reader[p] = "ended"
    /\ reader' = [reader EXCEPT ![p] = "done"]
    /\ mux' = RemovePane(mux, p, free)
    /\ UNCHANGED <<made, exited, task, identity>>

RunPrune(free) ==
    /\ mux.prunes > 0
    /\ mux' = Prune([mux EXCEPT !.prunes = @ - 1], free)
    /\ UNCHANGED <<made, exited, reader, task, identity>>

\* The removal that remove_pane_if queued.
RunRemoval(p, free) ==
    /\ p \in mux.removals
    /\ mux' = RemovePane([mux EXCEPT !.removals = @ \ {p}], p, free)
    /\ UNCHANGED <<made, exited, reader, task, identity>>

-----------------------------------------------------------------------------
Resume(c) == SpawnDone(c) \/ (\E fits \in BOOLEAN : SplitDone(c, fits))
                          \/ SpawnFails(c)

RunQueued ==
    \E free \in SUBSET {"prune"} :
        \/ RunPrune(free)
        \/ \E p \in Panes : RunEnd(p, free) \/ RunRemoval(p, free)

Next ==
    \/ \E c \in Clients : SpawnWindow(c) \/ Resume(c)
    \/ \E w \in mux.windows : \E t \in mux.held[w] : \E p \in mux.trees[t] :
           \/ \E c \in Clients : SpawnTab(c, p, w, t) \/ SplitPane(c, p, w, t)
           \/ \E free \in SUBSET Tries :
                  \/ \E v \in mux.windows : MoveToTab(p, w, t, v, free)
                  \/ MoveToWindow(p, w, t, free)
                  \/ \E v \in mux.windows : \E s \in mux.held[v] :
                         \E q \in mux.trees[s], fits \in BOOLEAN :
                             SplitMove(p, w, t, q, v, s, fits, free)
    \/ \E p \in Panes : \/ ChildReaped(p) \/ PtyEnds(p)
                         \/ \E free \in SUBSET {"prune"} : KillPane(p, free)
    \/ RunQueued

Spec == Init /\ [][Next]_vars

\* The executor runs what is queued, and spawn_pane returns.
Fairness == WF_vars(RunQueued) /\ \A c \in Clients : WF_vars(Resume(c))

FairSpec == Spec /\ Fairness

-----------------------------------------------------------------------------
(* Properties.                                                             *)

\* A pane is in one tab of the mux at most and a tab in one window, whatever
\* was moved, spawned and pruned meanwhile.  The mux knows every tab that a
\* window has, unless the windows were being read when it went and nothing
\* has been pruned since.
OneHome ==
    /\ \A t, u \in mux.tabs : t # u => mux.trees[t] \cap mux.trees[u] = {}
    /\ \A v, w \in Windows : v # w => mux.held[v] \cap mux.held[w] = {}
    /\ mux.owed \/ Shown(mux) \subseteq mux.tabs

\* A window that is being opened is there when its program has started: its
\* Activity keeps prune_dead_windows from taking it for an empty one.
NewWindowKept ==
    \A c \in Clients :
        task[c].op = "window" => task[c].window \in mux.windows

\* Unless something is being opened, pruning is still to come or it was left
\* out, every window has a tab, every such tab a pane, and the mux knows that
\* pane: no request, kill or exit leaves a husk behind by itself, and one
\* that remains because the windows were being read is gone with the next
\* pruning.
NoHusks ==
    mux.activity = 0 /\ mux.prunes = 0 /\ ~mux.owed =>
        \A w \in mux.windows :
            /\ mux.held[w] # {}
            /\ \A t \in mux.held[w] :
                   mux.trees[t] # {} /\ mux.trees[t] \subseteq mux.panes

\* Pruning catches up: over and over there is a moment when every window has
\* a tab and none shows a pane whose program has exited, also when that
\* happened while pruning was held up, or when a window's program did not
\* start; or the last pruning was left out, which nothing makes up for.
CatchesUp ==
    []<>(mux.owed \/ \A w \in mux.windows :
            /\ mux.held[w] # {}
            /\ \A t \in mux.held[w] : mux.trees[t] \cap exited = {})

\* When no request is under way the mux acts for nobody, as it did before the
\* first (with_identity): the identities were put back.
IdentityRestored ==
    (\A c \in Clients : task[c].op = "idle") => identity = None

-----------------------------------------------------------------------------
(* The inductive invariant behind TypeOK and the properties of states.     *)

\* OneHome of any mux, with the windows that are gone.
Homes(m) ==
    /\ \A t, u \in m.tabs : t # u => m.trees[t] \cap m.trees[u] = {}
    /\ \A v, w \in Windows : v # w => m.held[v] \cap m.held[w] = {}
    /\ m.owed \/ \A w \in Windows : m.held[w] \subseteq m.tabs

\* No window of m is a husk.
Clean(m) ==
    \A w \in m.windows :
        /\ m.held[w] # {}
        /\ \A t \in m.held[w] : m.trees[t] # {} /\ m.trees[t] \subseteq m.panes

\* The ids in use in m were given out, as n counts them.
GivenOut(m, n) ==
    /\ m.panes \subseteq 1..n.panes
    /\ \A t \in Tabs : m.trees[t] \subseteq 1..n.panes
    /\ m.tabs \subseteq 1..n.tabs
    /\ m.windows \subseteq 1..n.windows
    /\ \A w \in Windows : m.held[w] \subseteq 1..n.tabs

\* The clients whose request opens a window: each has an Activity.
Opening == {c \in Clients : task[c].op = "window"}

IInv ==
    /\ TypeOK
    /\ GivenOut(mux, made)
    /\ Homes(mux)
    /\ mux.activity = Cardinality(Opening)
    /\ NewWindowKept
    /\ NoHusks

=============================================================================
