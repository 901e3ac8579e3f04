------------------------- MODULE SessionPersistence -------------------------
(***************************************************************************)
(* Saving and restoring the mux session: the layout of tabs that outlives  *)
(* the mux server in session.json, with the generation before it in        *)
(* session.json.prev.                                                      *)
(*                                                                         *)
(* Two threads save: the auto-save worker, and the main thread once when   *)
(* it starts the worker and once when it is told to stop.  Everything else *)
(* that changes the layout runs on the main thread.  A step below is what  *)
(* a thread does between two points where it can be overtaken or stopped:  *)
(* killed, which leaves the files as they are, or with a power loss, which *)
(* may undo any renaming or removal since the directory was last synced.   *)
(***************************************************************************)
EXTENDS Naturals

CONSTANTS
    Tabs,         \* what session.json may hold of a tab: its content
    OldTabs,      \* the tabs that an earlier version left on disk
    EarlySignals, \* whether the server may be told to stop while it starts
    SyncFails,    \* whether syncing the directory may fail
    MaxChanges,   \* how often tabs open, change, close or exit
    MaxStarts,    \* how often the server starts
    MaxFailures   \* how many tabs, reads, writes and removals fail

ASSUME SessionAssumption ==
    /\ OldTabs \subseteq Tabs
    /\ EarlySignals \in BOOLEAN
    /\ SyncFails \in BOOLEAN
    /\ MaxChanges \in Nat
    /\ MaxStarts \in Nat
    /\ MaxFailures \in Nat

VARIABLES
    phase,      \* what the main thread is doing
    shutdown,   \* SHUTDOWN_IN_PROGRESS
    tabs,       \* the tabs of the mux
    todo,       \* the saved tabs that restore_session has yet to restore
    restored,   \* total_tabs > 0
    disk,       \* what the session files hold
    durable,    \* what a power loss may leave in each of them
    cache,      \* LAST_COMMITTED_SESSION
    lock,       \* the holder of SAVE_LOCK
    stage,      \* where each thread is in save_session
    snapshot,   \* the session that a thread is saving
    autoSaving, \* whether AUTO_SAVE_TX is set
    token,      \* whether its channel holds a message
    dirty,      \* dirty_deadline.is_some()
    changes, starts, failures,
    source,     \* history: the session on disk when the server started
    promised,   \* history: the session that was last committed
    attempts,   \* history: the layouts written since then
    kept,       \* history: the tabs that nobody closed
    clean       \* history: whether the server stopped after a good save

serverVars == <<phase, shutdown>>
muxVars == <<tabs, todo, restored, kept>>
fileVars == <<disk, durable>>
saveVars == <<cache, lock, stage, snapshot>>
autoVars == <<autoSaving, token, dirty>>
boundVars == <<changes, starts, failures>>
histVars == <<source, promised, attempts, clean>>
vars == <<serverVars, muxVars, fileVars, saveVars, autoVars, boundVars,
          histVars>>

-----------------------------------------------------------------------------
(* Files.                                                                  *)

Names == {"session", "previous", "legacy"}

\* A file is absent, holds a session, or holds bytes that are no session of
\* this version.
Files == [kind : {"absent", "broken", "valid"}, tabs : SUBSET Tabs]
Absent == [kind |-> "absent", tabs |-> {}]
Broken == [kind |-> "broken", tabs |-> {}]
Saved(layout) == [kind |-> "valid", tabs |-> layout]

\* Fault: a session that cannot be read is passed on as it is.
LoadUnchecked(files) ==
    IF files["session"].kind = "valid" THEN files["session"]
    ELSE IF files["previous"].kind = "valid" THEN files["previous"]
    ELSE IF files["legacy"].kind = "valid" THEN files["legacy"]
    ELSE [kind |-> "unreadable", tabs |-> {}]

\* load_first_valid_session
Load(files) ==
    IF files["session"].kind = "valid" THEN files["session"]
    ELSE IF files["previous"].kind = "valid" THEN files["previous"]
    ELSE IF files["legacy"].kind = "valid" THEN files["legacy"]
    ELSE Absent

\* Fault: the bytes are not synced before the file takes its name.
ReplaceUnsynced(name, file) ==
    /\ disk' = [disk EXCEPT ![name] = file]
    /\ durable' = [durable EXCEPT ![name] = @ \cup {file, Broken}]

\* write_atomic_file: the bytes are synced before the file takes its name,
\* but the name is only safe once the directory is synced.
Replace(name, file) ==
    /\ disk' = [disk EXCEPT ![name] = file]
    /\ durable' = [durable EXCEPT ![name] = @ \cup {file}]

MayFail ==
    /\ failures < MaxFailures
    /\ failures' = failures + 1

-----------------------------------------------------------------------------
(* The life of the process.                                                *)

Savers == {"main", "auto"}

\* Every thread is gone, and with them all that is not on disk.
Gone ==
    /\ phase' = "down"
    /\ lock' = "nobody"
    /\ stage' = [s \in Savers |-> "idle"]
    /\ snapshot' = [s \in Savers |-> {}]
    /\ autoSaving' = FALSE /\ token' = FALSE /\ dirty' = FALSE
    /\ UNCHANGED <<shutdown, muxVars>>

\* The history variables of the last life are kept until now.
Start ==
    /\ phase = "down" /\ starts < MaxStarts
    /\ phase' = "starting"
    /\ shutdown' = FALSE
    /\ tabs' = {} /\ kept' = {} /\ todo' = {} /\ restored' = FALSE
    /\ starts' = starts + 1
    /\ source' = Load(disk)
    /\ clean' = FALSE
    /\ cache' = Absent
    /\ UNCHANGED <<fileVars, lock, stage, snapshot, autoVars, changes,
                   failures, promised, attempts>>

Kill ==
    /\ phase # "down"
    /\ Gone
    /\ UNCHANGED <<fileVars, cache, boundVars, histVars>>

PowerLoss ==
    /\ phase # "down"
    /\ Gone
    /\ disk' \in {d \in [Names -> UNION {durable[n] : n \in Names}] :
                     \A n \in Names : d[n] \in durable[n]}
    /\ durable' = [n \in Names |-> {disk'[n]}]
    /\ UNCHANGED <<cache, boundVars, histVars>>

\* The signal thread.
BeginShutdown ==
    /\ phase # "down" /\ ~shutdown
    /\ EarlySignals \/ phase = "running"
    /\ shutdown' = TRUE
    /\ UNCHANGED <<phase, muxVars, fileVars, saveVars, autoVars, boundVars,
                   histVars>>

\* The main thread is in its loop, not in a synchronous save or restoration.
MainFree ==
    phase \in {"starting", "restoring", "fresh", "running"}

\* The main loop sees SHUTDOWN_FLAG and saves before it leaves.
Stop ==
    /\ MainFree /\ shutdown
    /\ phase' = "stopping"
    /\ stage' = [stage EXCEPT !["main"] = "asked"]
    /\ UNCHANGED <<shutdown, muxVars, fileVars, cache, lock, snapshot,
                   autoVars, boundVars, histVars>>

-----------------------------------------------------------------------------
(* The layout changes.                                                     *)

\* request_session_save, after a change: before auto-save starts it does
\* nothing, and a full channel already holds the message.
Changed ==
    /\ changes < MaxChanges
    /\ changes' = changes + 1
    /\ token' = autoSaving
    /\ UNCHANGED <<serverVars, todo, restored, fileVars, saveVars, autoSaving,
                   dirty, starts, failures, histVars>>

\* The tabs that the server or a file has something of.  A new tab is none
\* of them: its panes have tokens of their own.
Known ==
    tabs \cup todo \cup cache.tabs \cup UNION {snapshot[s] : s \in Savers}
        \cup UNION {disk[n].tabs : n \in Names}

OpenTab(t) ==
    /\ MainFree /\ t \notin Known
    /\ tabs' = tabs \cup {t}
    /\ kept' = kept \cup {t}
    /\ Changed

\* A tab gets another title, size, directory or place, or its old one back.
ChangeTab(t, u) ==
    /\ MainFree /\ t \in tabs /\ u \notin tabs \cup todo
    /\ tabs' = (tabs \ {t}) \cup {u}
    /\ kept' = (kept \ {t}) \cup {u}
    /\ Changed

CloseTab(t) ==
    /\ MainFree /\ t \in tabs
    /\ tabs' = tabs \ {t}
    /\ kept' = kept \ {t}
    /\ Changed

\* The program of a tab ends: read_from_pane_pty removes its pane, unless
\* the server is being shut down and its programs with it.
ProgramExits(t) ==
    /\ MainFree /\ t \in tabs /\ ~shutdown
    /\ tabs' = tabs \ {t}
    /\ kept' = kept \ {t}
    /\ Changed

-----------------------------------------------------------------------------
(* Restoring, on the main thread.                                          *)

\* start_auto_save saves what was restored before it starts the worker.
StartAutoSave ==
    /\ phase' = "saving"
    /\ stage' = [stage EXCEPT !["main"] = "asked"]
    /\ UNCHANGED <<shutdown, lock, snapshot, autoVars>>

\* There are panes already: nothing is restored.
SkipRestore ==
    /\ phase = "starting" /\ tabs # {}
    /\ StartAutoSave
    /\ UNCHANGED <<muxVars, fileVars, cache, boundVars, histVars>>

LoadSession ==
    /\ phase = "starting" /\ tabs = {}
    /\ phase' = "restoring"
    /\ todo' = Load(disk).tabs
    /\ UNCHANGED <<shutdown, tabs, restored, kept, fileVars, saveVars,
                   autoVars, boundVars, histVars>>

RestoreTab(t) ==
    /\ phase = "restoring" /\ t \in todo
    /\ todo' = todo \ {t}
    /\ tabs' = tabs \cup {t} /\ kept' = kept \cup {t}
    /\ restored' = TRUE
    /\ UNCHANGED <<serverVars, fileVars, saveVars, autoVars, boundVars,
                   histVars>>

\* restore_tab fails before its first pane is spawned, or later: then a tab
\* with a part of the panes stays, and is not counted as restored.
RestoreTabFails(t) ==
    /\ phase = "restoring" /\ t \in todo
    /\ MayFail
    /\ todo' = todo \ {t}
    /\ \E part \in {{}} \cup {{u} : u \in Tabs \ Known} :
          tabs' = tabs \cup part /\ kept' = kept \cup part
    /\ UNCHANGED <<serverVars, restored, fileVars, saveVars, autoVars,
                   changes, starts, histVars>>

\* A window of restored tabs, one of them parked, disappeared meanwhile: the
\* restoration is given up, and what it restored stays and is not counted.
RestoreGivesUp ==
    /\ phase = "restoring" /\ restored
    /\ MayFail
    /\ phase' = "fresh" /\ todo' = {}
    /\ UNCHANGED <<shutdown, tabs, restored, kept, fileVars, saveVars,
                   autoVars, changes, starts, histVars>>

\* A restored session is about to be cleared: from here until the initial
\* save has been committed there is nothing to go back to.
RestoreEnds ==
    /\ phase = "restoring" /\ todo = {}
    /\ phase' = IF restored THEN "clearing" ELSE "fresh"
    /\ promised' = IF restored THEN Absent ELSE promised
    /\ attempts' = IF restored THEN {} ELSE attempts
    /\ UNCHANGED <<shutdown, muxVars, fileVars, saveVars, autoVars, boundVars,
                   source, clean>>

\* clear_session removes session.json, then session.json.prev, then the
\* legacy file.
NextToClear ==
    IF disk["session"] # Absent THEN "session"
    ELSE IF disk["previous"] # Absent THEN "previous"
    ELSE "legacy"

ClearFile ==
    /\ phase = "clearing" /\ disk[NextToClear] # Absent
    /\ Replace(NextToClear, Absent)
    /\ UNCHANGED <<serverVars, muxVars, saveVars, autoVars, boundVars,
                   histVars>>

ClearEnds ==
    /\ phase = "clearing"
    /\ \/ /\ disk[NextToClear] = Absent
          /\ cache' = Absent
          /\ UNCHANGED failures
       \/ /\ disk[NextToClear] # Absent
          /\ MayFail
          /\ UNCHANGED cache
    /\ StartAutoSave
    /\ UNCHANGED <<muxVars, fileVars, changes, starts, histVars>>

\* Nothing was restored: one fresh tab is spawned.
FreshTab(t) ==
    /\ phase = "fresh" /\ t \notin Known
    /\ tabs' = tabs \cup {t} /\ kept' = kept \cup {t}
    /\ StartAutoSave
    /\ UNCHANGED <<todo, restored, fileVars, cache, boundVars, histVars>>

-----------------------------------------------------------------------------
(* save_session.                                                           *)

\* Thread s returns from save_session.  The main thread goes on to spawn the
\* worker, or leaves the process.
Returns(s, ok) ==
    \/ /\ s = "auto" \/ phase = "saving"
       /\ stage' = [stage EXCEPT ![s] = "idle"]
       /\ snapshot' = [snapshot EXCEPT ![s] = {}]
       /\ lock' = "nobody"
       /\ phase' = IF s = "main" THEN "running" ELSE phase
       /\ autoSaving' = (autoSaving \/ s = "main")
       /\ UNCHANGED <<shutdown, muxVars, token, dirty, clean>>
    \/ /\ s = "main" /\ phase = "stopping"
       /\ Gone
       /\ clean' = ok

Continues(s, place) ==
    /\ stage' = [stage EXCEPT ![s] = place]
    /\ UNCHANGED <<serverVars, muxVars, autoVars, clean>>

\* last_committed, read from session.json when this process has not saved.
Committed ==
    IF cache # Absent THEN cache
    ELSE IF disk["session"].kind = "valid" THEN disk["session"] ELSE Absent

\* Fault: the session is built before SAVE_LOCK is taken.
BuildUnlocked(s) ==
    /\ stage[s] = "asked"
    /\ cache' = Committed
    /\ \/ /\ Saved(tabs) = Committed
          /\ Returns(s, TRUE)
       \/ /\ Saved(tabs) # Committed
          /\ Continues(s, IF Committed = Absent THEN "session" ELSE "previous")
          /\ lock' = s
          /\ snapshot' = [snapshot EXCEPT ![s] = tabs]
    /\ UNCHANGED <<fileVars, boundVars, source, promised, attempts>>

\* Fault: the session counts as committed before it is written.
BuildRemembers(s) ==
    /\ stage[s] = "asked" /\ lock = "nobody"
    /\ cache' = Saved(tabs)
    /\ \/ /\ Saved(tabs) = Committed
          /\ Returns(s, TRUE)
       \/ /\ Saved(tabs) # Committed
          /\ Continues(s, IF Committed = Absent THEN "session" ELSE "previous")
          /\ lock' = s
          /\ snapshot' = [snapshot EXCEPT ![s] = tabs]
    /\ UNCHANGED <<fileVars, boundVars, source, promised, attempts>>

\* The session is built with SAVE_LOCK held, and an unchanged one is not
\* written again.
Build(s) ==
    /\ stage[s] = "asked" /\ lock = "nobody"
    /\ cache' = Committed
    /\ \/ /\ Saved(tabs) = Committed
          /\ Returns(s, TRUE)
       \/ /\ Saved(tabs) # Committed
          /\ Continues(s, IF Committed = Absent THEN "session" ELSE "previous")
          /\ lock' = s
          /\ snapshot' = [snapshot EXCEPT ![s] = tabs]
    /\ UNCHANGED <<fileVars, boundVars, source, promised, attempts>>

WritePrevious(s) ==
    /\ stage[s] = "previous"
    /\ Replace("previous", cache)
    /\ Continues(s, "session")
    /\ UNCHANGED <<cache, lock, snapshot, boundVars, source, promised,
                   attempts>>

WriteSession(s) ==
    /\ stage[s] = "session"
    /\ Replace("session", Saved(snapshot[s]))
    /\ attempts' = attempts \cup {snapshot[s]}
    /\ Continues(s, "syncing")
    /\ UNCHANGED <<cache, lock, snapshot, boundVars, source, promised>>

\* sync_parent_directory.  The legacy file is in another directory.
SyncDirectory(s) ==
    /\ stage[s] = "syncing"
    /\ durable' = [n \in Names |-> IF n = "legacy" THEN durable[n]
                                                  ELSE {disk[n]}]
    /\ promised' = Saved(snapshot[s])
    /\ attempts' = {}
    /\ cache' = Saved(snapshot[s])
    /\ Returns(s, TRUE)
    /\ UNCHANGED <<disk, boundVars, source>>

SaveFails(s) ==
    /\ stage[s] \in {"asked", "previous", "session"} \cup
          (IF SyncFails THEN {"syncing"} ELSE {})
    /\ stage[s] = "asked" => lock = "nobody"
    /\ MayFail
    /\ Returns(s, FALSE)
    /\ UNCHANGED <<fileVars, cache, changes, starts, source, promised,
                   attempts>>

-----------------------------------------------------------------------------
(* run_auto_save.                                                          *)

WorkerIdle == autoSaving /\ stage["auto"] = "idle"

Receive ==
    /\ WorkerIdle /\ token
    /\ token' = FALSE
    /\ dirty' = TRUE
    /\ UNCHANGED <<autoSaving, serverVars, muxVars, fileVars, saveVars,
                   boundVars, histVars>>

\* take_save_due, once recv_timeout has found no message until the next
\* deadline: the debounce of the last change, or the periodic one.
SaveDue ==
    /\ WorkerIdle /\ ~token
    /\ dirty' = FALSE
    /\ stage' = [stage EXCEPT !["auto"] = "asked"]
    /\ UNCHANGED <<autoSaving, token, serverVars, muxVars, fileVars, cache,
                   lock, snapshot, boundVars, histVars>>

-----------------------------------------------------------------------------
\* The server has not run yet; an earlier version may have left its files.
Init ==
    /\ phase = "down" /\ shutdown = FALSE
    /\ tabs = {} /\ todo = {} /\ restored = FALSE /\ kept = {}
    /\ \E session \in {Absent, Broken, Saved(OldTabs)} :
       \E legacy \in {Absent, Saved(OldTabs)} :
          disk = [n \in Names |-> IF n = "session" THEN session
                                  ELSE IF n = "legacy" THEN legacy
                                  ELSE Absent]
    /\ durable = [n \in Names |-> {disk[n]}]
    /\ cache = Absent /\ lock = "nobody"
    /\ stage = [s \in Savers |-> "idle"]
    /\ snapshot = [s \in Savers |-> {}]
    /\ autoSaving = FALSE /\ token = FALSE /\ dirty = FALSE
    /\ changes = 0 /\ starts = 0 /\ failures = 0
    /\ source = Absent /\ promised = Absent /\ attempts = {}
    /\ clean = FALSE

SaveStep(s) ==
    Build(s) \/ WritePrevious(s) \/ WriteSession(s) \/ SyncDirectory(s)

Restoring ==
    \/ SkipRestore \/ LoadSession \/ RestoreGivesUp \/ RestoreEnds
    \/ ClearFile \/ ClearEnds
    \/ \E t \in Tabs : RestoreTab(t) \/ RestoreTabFails(t) \/ FreshTab(t)

Next ==
    \/ Start \/ Kill \/ PowerLoss \/ BeginShutdown \/ Stop
    \/ \E t \in Tabs : OpenTab(t) \/ CloseTab(t) \/ ProgramExits(t)
    \/ \E t, u \in Tabs : ChangeTab(t, u)
    \/ Restoring
    \/ \E s \in Savers : SaveStep(s) \/ SaveFails(s)
    \/ Receive \/ SaveDue

Spec == Init /\ [][Next]_vars

\* A thread that saves goes on, and the deadlines of the worker pass.
FairSpec ==
    /\ Spec
    /\ \A s \in Savers : WF_vars(SaveStep(s))
    /\ WF_vars(Receive) /\ WF_vars(SaveDue)

-----------------------------------------------------------------------------
(* Properties.                                                             *)

\* Every variable of the server, its threads and the files has its type.
SessionTypeOK ==
    /\ phase \in {"down", "starting", "restoring", "clearing", "fresh",
                  "saving", "running", "stopping"}
    /\ shutdown \in BOOLEAN /\ restored \in BOOLEAN /\ clean \in BOOLEAN
    /\ tabs \subseteq Tabs /\ todo \subseteq Tabs /\ kept \subseteq Tabs
    /\ disk \in [Names -> Files]
    /\ durable \in [Names -> SUBSET Files]
    /\ cache \in Files
    /\ lock \in Savers \cup {"nobody"}
    /\ stage \in [Savers -> {"idle", "asked", "previous", "session",
                             "syncing"}]
    /\ snapshot \in [Savers -> SUBSET Tabs]
    /\ autoSaving \in BOOLEAN /\ token \in BOOLEAN /\ dirty \in BOOLEAN
    /\ changes \in Nat /\ starts \in Nat /\ failures \in Nat
    /\ source \in Files /\ promised \in Files
    /\ attempts \subseteq SUBSET Tabs

\* What the files may hold after a power loss now.
Outcomes ==
    {d \in [Names -> UNION {durable[n] : n \in Names}] :
        \A n \in Names : d[n] \in durable[n]}

\* Whenever the machine stops, the next server loads the session that was
\* last committed, or one whose commit had begun since: never an older one,
\* a broken one or none (commit_serialized_session, load_first_valid_session).
\* A restored session is no longer promised once clear_session begins.
CommittedSurvives ==
    promised.kind = "valid" =>
        \A d \in Outcomes :
            Load(d) \in {promised} \cup {Saved(layout) : layout \in attempts}

\* A server that was told to stop, and whose last save succeeded, leaves
\* exactly the tabs that nobody had closed, in whatever order the worker and
\* the main thread saved (SAVE_LOCK, begin_shutdown).
StopSavesAll ==
    phase = "down" /\ clean => disk["session"] = Saved(kept)

\* Restoration cannot overwrite its source: until auto-save starts, the
\* files still hold the session that the server started from, except that
\* a restored one is cleared (request_session_save).
StartupKeepsSource ==
    /\ phase \in {"starting", "restoring", "fresh", "stopping"}
    /\ ~autoSaving /\ source.kind = "valid"
    => Load(disk) = source

\* A change is saved in the end, although saves may fail (run_auto_save).
EventuallySaved ==
    phase = "running" /\ disk["session"] # Saved(tabs)
        ~> phase # "running" \/ disk["session"] = Saved(tabs)

-----------------------------------------------------------------------------
(* The inductive invariant behind CommittedSurvives.                       *)

Startup == {"starting", "restoring", "clearing", "fresh"}

\* Nobody saves before auto-save starts, nor in a server that is down.
SavesInTurn ==
    /\ phase \in {"down"} \cup Startup =>
          ~autoSaving /\ \A s \in Savers : stage[s] = "idle"
    /\ phase = "saving" => ~autoSaving /\ stage["auto"] = "idle"
    /\ stage["main"] # "idle" => phase \in {"saving", "stopping"}

\* Only the holder of SAVE_LOCK writes.
OneWriter ==
    \A s \in Savers :
        stage[s] \in {"previous", "session", "syncing"} => lock = s

\* A thread that syncs has written what it is saving.
SyncsItsOwn ==
    \A s \in Savers :
        stage[s] = "syncing" => disk["session"] = Saved(snapshot[s])

\* A file holds what a power loss may leave.
DiskIsPossible == \A n \in Names : disk[n] \in durable[n]

\* A power loss leaves in session.json what was promised, or written since.
PromiseIsDurable ==
    promised.kind = "valid" =>
        \A file \in durable["session"] :
            file = promised \/ \E layout \in attempts : file = Saved(layout)

\* A session that is being cleared is no longer promised.
ClearedIsNotPromised == phase = "clearing" => promised = Absent

SessionIInv ==
    /\ SessionTypeOK
    /\ SavesInTurn
    /\ OneWriter
    /\ SyncsItsOwn
    /\ DiskIsPossible
    /\ PromiseIsDurable
    /\ ClearedIsNotPromised

-----------------------------------------------------------------------------
(* The inductive invariant behind StopSavesAll.                            *)

\* A save that stops the server, and no other, is a clean end.
CleanWhenDown == phase # "down" => ~clean

\* The tabs do not change while the main thread saves them.
MainSavesTabs ==
    stage["main"] \in {"previous", "session", "syncing"} =>
        snapshot["main"] = tabs

\* Unless a thread is just going to sync it, session.json is what the server
\* remembers to have committed.
CacheIsCommitted ==
    /\ phase \in Startup => cache = Absent
    /\ phase # "down" /\ (\A s \in Savers : stage[s] # "syncing") =>
          cache = Absent \/ cache = disk["session"]

StopIInv ==
    /\ SessionIInv
    /\ tabs = kept
    /\ CleanWhenDown
    /\ MainSavesTabs
    /\ CacheIsCommitted
    /\ StopSavesAll

=============================================================================
