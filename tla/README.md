# wakterm: a TLA+ model of its agent control plane, session persistence, mux and client views

wakterm is a terminal multiplexer descended from WezTerm. What it adds to its
ancestor is mostly in the mux server: panes may run coding agents (Claude,
Codex, agy, Devin), and clients send those agents prompts, wait for their
answers, set reminders for them and expect the whole session to come back
after a restart. This directory models that part: the code which talks to
something it does not control (an agent's input box, a disk, a client that
repeats its calls) and must still be right when any of them stops half way.
To it come what all of it rests on, the mux with its panes, tabs and windows,
and the other end of the wire: a GUI client that shows a window of the server's
and lets its user act on it before the server knows.

Everything is in plain TLA+. Paths below are relative to the repository as it
lies under `src/`.

## 1. Inventory

| Component | State | Operations | Interacts with | What is hard, and what must hold |
|---|---|---|---|---|
| Prompt admission (`wakterm-mux-server-impl/src/sessionhandler.rs`, `mux/src/agent_admission.rs`) | ids in flight, the task of each call, the claim store (SQLite), the pane's input generation | claim, capture, refresh, validate, set a draft aside, write, press Enter, confirm, finish, release | return request store, agent metadata and runtime, the pane's pty and screen | repeats of a call race the first attempt; the server stops anywhere; users type meanwhile. A prompt is written at most once, and receipts tell the truth |
| Return requests (`mux/src/agent_request.rs`) | request rows and terminal events (SQLite) | create, save, delete_registered, recover_registered, reconcile, cancel, list | admission, agent events, watchers | blind saves from several owners; correlation with provider turns. One terminal outcome, the right turn's final |
| Session persistence (`mux/src/session_persistence.rs`, `wakterm-mux-server/src/main.rs`) | three session files, the last commit, the auto-save schedule, the shutdown flag | save, commit, load with fallback, restore, clear, auto-save, shutdown | mux topology, signal thread | two savers, crashes between renames, failing saves. A committed session survives, a stop saves everything |
| Mux topology (`mux/src/lib.rs`, `domain.rs`, `tab.rs`, `window.rs`, `activity.rs`) | panes, tabs, windows, views per client, the current identity, the count of activities | spawn, split, move, kill, remove, prune | domains, notifications, client sessions | requests wait for a program in their middle; panes exit while removals and prunings of them are queued. Every pane has one tab, every tab one window, and nothing dead stays |
| Mux notifications (`mux/src/lib.rs`, `wakterm-mux-server-impl/src/dispatch.rs`) | subscribers, a bounded queue per client session | subscribe, notify, coalesce, deliver | every client session | coalescing must not lose the last change, a full queue closes the session |
| Agent events (`mux/src/agent_event.rs`) | event sequence, runtime epoch (SQLite) | append, page, start epoch | observers, return requests, API clients | cursors must neither skip nor repeat |
| Agent observers (`mux/src/lib.rs`) | runtime per pane, refresh throttling | throttle, trailing refresh, artifact batches | transcripts, events | a throttled change must still be seen |
| Agent reminders (`mux/src/agent_reminder.rs`, `wakterm-mux-server-impl/src/agent_reminders.rs`) | reminders with due times (SQLite), the batch being delivered | create, cancel, deliver due ones, reschedule | the agent's pane, freezing | cancellation during a delivery, failing deliveries, restarts. What is due arrives, and missed times are not replayed |
| Agent freezing (`mux/src/agent_freeze.rs`, `wakterm-mux-server-impl/src/agent_freezing.rs`) | frozen panes, time of the last input and thaw, freeze cgroups | freeze when idle, thaw on input, resize and focus, thaw leftovers | every kind of input, the operating system | input to a frozen agent; a mux that stops with an agent frozen. Input is read in the end |
| Agent resume and approvals (`agent_resume.rs`, `agent_approval.rs`) | interrupted turns, pending approvals | resume once, answer | admission | not resumed twice |
| Client RPC and resync (`wakterm-client/src/client.rs`, `domain.rs`, `pane/clientpane.rs`) | the local window, mappings, pending replies, one resync at a time, outboxes | call, resync, coalesce, reconcile, reconnect | server topology, notifications | snapshots older than the user's choice, a lost resync, a lost connection. The user's choice stays and arrives; no tab is missed |
| Pane output (`mux/src/lib.rs`) | read and parse progress, synchronized output | read, parse, apply | pty, terminal | back pressure, order |
| Codec, blob leases, terminal emulation, GUI, fonts, config, Lua, SSH, pty | | | | inherited from upstream, pure or platform code; not modelled (`PROJECT.json` gives the reason for each) |

## 2. Modules

| Module | What it is |
|---|---|
| `Admission` | prompt admission with both stores, cancellation and watchers, the pane's users and the server's life |
| `PromptDelivery` | the abstract specification of what admission promises; `Admission` implements it |
| `MCAdmission` | small instances of `Admission`; three configurations |
| `AdmissionProofs` | theorems about `Admission`: its types, writing once, reservations, refusals |
| `PromiseProofs` | theorems about what admission promises: receipts, repeats, the Enter key, and that it implements `PromptDelivery` |
| `ReturnRequest` | one return request with the agent's turns, the observer, the event store, its readers and the mux's life |
| `MCReturnRequest` | its instance |
| `ReturnRequestProofs` | theorems about `ReturnRequest` |
| `Freezing` | an agent's pane: input, freezing and thawing |
| `Reminders` | extends `Freezing` with the reminder store and its delivery into that pane |
| `MCReminders` | small instances of both; two configurations |
| `RemindersProofs` | theorems about both |
| `MuxTopology` | panes, tabs and windows of the server's mux: requests that wait for a program, moves, exits, pruning |
| `MCMuxTopology` | its small instance; two configurations |
| `MuxTopologyProofs` | theorems about `MuxTopology` |
| `ClientView` | a client's copy of a window, the server's, and the wire between them |
| `MCClientView` | its small instances; two configurations |
| `ClientViewProofs` | theorems about `ClientView` |
| `SessionPersistence` | saving, committing, restoring, clearing, auto-save and shutdown |
| `MCSessionPersistence` | its small instances; two configurations |
| `SessionProofs` | theorems about `SessionPersistence` |

Operators whose comment begins with "Fault:" are wrong on purpose. No action
uses them; each is what a plausible slip in the code would make of the
operator after it, and the property it is listed with in `PROJECT.json` fails
when it takes that operator's place.

### Admission

A *call* is one `AdmitAgentPrompt` PDU. `admit_agent_prompt` is an async task
on the server's main thread, so an action is what runs between two awaits,
together with the store operation on a helper thread that ends it:

| `pc[c]` | the task is about to | actions |
|---|---|---|
| `waiting` | enter its id in `IN_FLIGHT`, or give up after 10 s | `Enter`, `EnterTimeout` |
| `reading` | look up the request (return-final) or claim the id (one-way) | `Lookup`, `Claim`, `ReadFails` |
| `capturing` | capture the target and its input generation | `Capture` |
| `refreshing` | observe the process and transcript | `Refresh`, `RefreshFails` |
| `validating` | validate; set a draft aside | `Validate`, `SetAside` |
| `setting_aside` | look at the box again | `BoxSetAside` |
| `creating` | register the return request | `Create`, `CreateFails` |
| `revalidating` | validate again | `Revalidate` |
| `writing` | validate once more and type the prompt | `WritePrompt`, `WriteRefused`, `WriteBreaks` |
| `typed` | press Enter, or take the prompt back from agy | `PressEnter`, `SubmitRefused`, `Withdraw` |
| `withdrawn` | see whether agy's box is empty | `TakenBack`, `NotTakenBack` |
| `confirming` | wait for the agent to record the prompt | `PressAgain`, `Confirm` |
| `finishing`, `saving`, `failing` | record the outcome | `Finish`, `SaveSubmitted`, `DeliveryFailed`, `RecordFails` |
| `releasing` | release the claim or registration of a refusal | `Release`, `ReleaseFails` |

What the server reads from outside (transcript, foreground process, screen)
is a choice at each read, because it may change between any two. The screen
in particular may lag: a look at the box does not have to see what was typed a
moment ago. `TakenBack` believes it all the same, as the code does: the keys
that empty agy's box are in the pty ahead of anything typed later, so the
prompt counts as removed once the screen shows an empty box.

Fingerprints and incarnation ids are hashes of all arguments and of the
process; the model compares the arguments themselves. An agent that is
replaced has another incarnation and none comes back, except a managed Codex,
whose incarnation is a thread of its app server and survives the mux server.
`Harness` gives each incarnation its harness, so that in `one_id` an agy
replaces a managed Codex between the attempts of one id.

`PromptDelivery` leaves out tasks, stores and incarnations. It says when a
prompt may be written, taken back and entered, and what must be true when a
call is answered `accepted`, `refused`, `unsure`, `failed` (the definitive
`internal_failure`, see section 5) or `lost`. `KeepsPromise` maps `inPane` to
the calls in `typed` and not in `takenBack`, `entered` to those with a press,
and an answer to the receipt's meaning (`Answered`).

### ReturnRequest

`transcript` is what the provider wrote, in order; an index of it is a moment,
which is how `created_at` and the provider's timestamps are compared. `events`
is everything the event store ever held, `pruned` how much of it retention has
removed; a sequence number is an index. Three threads meet:

| Thread | actions |
|---|---|
| observer | `ObserveAgent`, `RecordLifecycle`: store what was read so far and publish the latest sequence in `cached` |
| reader | `ReadSnapshot` takes the snapshot; `AnswerClient`, `ReconcilePage` or `PageFails` answers later and overwrites `cached` with the snapshot's sequence |
| main | `Capture`, `Refresh`, `Register`, `Enter`, `DeliveryFails`, `SaveSubmitted` (the admission, as far as the record goes), `StartReconcile`, `ReconcilePage` (`reconcile_agent_requests`, page after page), `Restart` |

The admission works from three moments. `armed` is the event cursor, from the
cached sequence, which may be older than the store. `seen` is the position of
the runtime snapshot that says the agent is idle and which turn was its last:
`Refresh` reads the transcript of an agent in a terminal, while of a managed
one there is only what the main thread had applied when the target was
captured, anything between the projected part and the whole. `created` is the
present, after the input box was prepared. The agent may have begun a turn
between any two of them, and before the prompt is entered; a prompt entered
into a running turn steers it (`Steer`).

The agent (`StartTurn`, `Steer`, `EndTurn`, `LoseAgent`) is external: anybody
may start a turn with anything, also with an equal prompt, at any time. A terminal
request keeps the cursor of the page rather than of the event that ended it;
nothing reads it.

### Freezing and Reminders

The two are one system: a reminder is input to a pane that may be frozen.
`Freezing` has the pane (`registered`, `frozenAgents`, `unread`, `box`,
`status`), the process (`suspended`, and `orphan` for one that an earlier mux
froze) and the times that `freeze_idle_agents` compares, counted up to
`FreezeAfter`. `Reminders` adds `store`, and the task's local state: `batch`
(the copies that `due` returned), `current` and `place`, the await the task is
in. `NextReminder` runs in the same stretch of the main thread as the step
before it, which is why nothing else of the main thread happens at
`place = "next"`. A mux that stops in `typed` loses the prompt with its panes
and keeps the row.

The draft's idle time (`CLAUDE_DRAFT_IDLE`) and `AGENT_FREEZE_AFTER` are one
constant. `ReadsWithin < FreezeAfter` says that a running Claude reads its
input well before it is next considered for freezing.

### ClientView

`server` and `view` are the window at either end: tabs in order, the active one
and the one before. `requests` and `replies` keep their order (one connection,
one thread at each end); `notices` is the session's `NotificationQueue`, which
the server writes in a lane of its own, so a notification may overtake an
answer. An action of the client is one task of its main thread up to its next
await: `ChooseTab`, `MoveTab`, `TakeReply` (by request: `TakeSync`,
`TakeTabSet`, `TakePaneSet`, ...), `TakeNotice`, `RunScheduled`,
`FinishResync`. `flush[g]` is the intent that the `flush_active_tab` task
started by choice `g` is working on: after a failure has cleared the outbox, a
new choice may start a second task beside it. `Drop` fails every request that
is under way and loses what the server had to say; `Reconnect` is
`reattach` on a session that has no client id.

Remote and local ids are the same in the model; `known` are the mappings that
exist. One pane per tab, so a tab closes when its pane exits. A tab goes in one
of two ways, at either end: `RemoveTab` is `remove_tab`, which turns the view
to another tab; `PruneTab` is `prune_dead_windows`, which leaves the view
naming the tab that is gone, so that whoever asks for the active tab falls back
to the first (`ShownTab`). Closing a tab in the client (`CloseOwnTab`) does the
former there and, through `KillPane`, the latter at the server.

### MuxTopology

`mux` is what `Mux` holds (`panes`, `tabs` with the panes in their trees,
`windows` with their tabs), the count of `Activity` values and the tasks that
are queued for the main thread: `prunes` of them call `prune_dead_windows`,
`removals` are the panes that `remove_pane_if` wants removed. An action is what
runs on the main thread without waiting:

| Code | actions |
|---|---|
| SpawnV2 and SplitPane up to the wait in `spawn_pane` | `SpawnTab`, `SpawnWindow`, `SplitPane` |
| the rest of them | `SpawnDone`, `SplitDone`, `SpawnFails` |
| MovePaneToNewTab; SplitPane with a pane to move; KillPane | `MoveToTab`, `MoveToWindow`; `SplitMove`; `KillPane` |
| a program ends: the thread that waits for the child, the thread that reads the pty | `ChildReaped`; `PtyEnds` and its task `RunEnd` |
| queued tasks | `RunPrune`, `RunRemoval` |

`spawn_pane` really waits in an ssh domain (for the remote end) and in an exec
domain (for its Lua callback). A plain local domain goes on at once, which is
the behaviour of the model in which the request's two steps follow each other.
`task[c].prior` is the `IdentityHolder` of a waiting request. A request that
does not wait sets and restores the identity within its step.

The auto-save thread takes the windows' read lock while it builds a session.
`remove_tab_internal` and `prune_dead_windows` do not wait for it: they use
`try_write` and go without. `free` is the set of those two that get the lock,
chosen anew in every step that calls them, and `mux.owed` records that a
removal or a pruning was left out which had something to do, until one is done.
Nothing in the code knows of it, and no action reads it.

A pane that is moved may not take the size of its new tab (`ResizeFails`),
which leaves it in no tab. A split may not fit (`fits`), which the code notices
only after it has started the program or taken the pane from its tab. Panes that are left in the mux in
no tab have no actor in the model except their program's end.

### SessionPersistence

`disk` is what the three files hold, `durable` what a power loss may leave in
each: a rename or removal adds an outcome, `SyncDirectory` leaves one, except
of the legacy file, which is in another directory. File
contents are synced before the rename, so no outcome is a torn file.
`stage[s]` is where thread `s` (main or worker) is inside `save_session`, and
`lock` is `SAVE_LOCK`. A tab is known by its content as saved; a new tab is
unlike any other, since its panes get fresh tokens, while a changed tab may
change back. Windows, split trees and restore intents are part of that
content.

## 3. Runs

Deadlock checking is off in all of them: when all calls were made, or the
server has started as often as it may, the system may stop.

| Run | Expect | Question |
|---|---|---|
| `one_id` | pass | three calls share one id: equal, with another prompt, or with the other delivery mode; a managed Codex, then an agy; one server stop; every store and pty operation may fail |
| `two_ids` | pass | two calls for one Claude, among them a return-final one; cancellation, watchers, a user typing, one server stop; under fairness; does admission keep its promise? |
| `session` | pass | two starts, two changes, one failure, kills, power losses and signals at any time; under fairness |
| `wakeups` | pass | a one-shot and a repeating reminder for a Claude that is frozen when idle; users, failures, refusals, mux restarts; under fairness |
| `return_request` | pass | one request, from an earlier snapshot and an older cursor, among two turns that anybody may start; lagging observer, pruning, late readers, cancel, deadline, restart; under fairness |
| `client_view` | pass | three tabs, two choices, tabs opened, closed and moved at either end, a queue of two, lost connections; under fairness |
| `topology` | pass | two clients, two requests, among windows, tabs, splits, moves and kills; programs exit and queued tasks run at any time, with the windows being read or not; under fairness |
| `cancel_race` | violation | is a request with a terminal event terminal? |
| `session_startup` | violation | does startup keep the session it restores from? |
| `reminder_cancel` | violation | is a cancelled reminder gone? |
| `reconnect` | violation | does every tab reach a client that has reconnected? |
| `identity` | violation | does the mux act for nobody when no request is under way? |

What the passing runs show:

* `AtMostOnce`: a prompt reaches the pane once per id and delivery mode.
* `OwnsReservation`: while an attempt runs, its claim is its own.
* `AcceptedMeansEntered`: accepted means that Enter was pressed for these
  arguments, or the request was cancelled during its admission.
* `RefusedMeansUnwritten`: a definitive refusal other than `internal_failure`
  means that no attempt with these arguments has written.
* `RefusalFreesId`: after a refusal the call can be repeated.
* `RepeatReturnsSameReceipt`: a repeat gets what the first caller got.
* `RegistrationsAreOwned`: no registration survives the server that made it.
* `OthersStopEnter`: Enter is not pressed again over a user's input.
* `EveryCallEnds`: no wait lasts for ever.
* `CommittedSurvives`: after a power loss at any moment the next server loads
  the last committed session, or one written since.
* `StopSavesAll`: a stop whose save succeeded leaves exactly the open tabs.
* `EventuallySaved`: a change reaches session.json although saves fail.
* `KeepsPromise`: admission implements `PromptDelivery`.
* `InputReachesRunning`, `InputIsRead`: whatever is typed for or by anybody
  finds the agent running, and no agent is frozen with input it has not read.
* `LeftoversThawed`: what a stopped mux left frozen runs again.
* `MissedRunsNotReplayed`, `DueIsDelivered`: one delivery for all the times
  that passed, and it does arrive, whatever failed before.
* `FinalIsOwn`: a completed request holds the answer of the first turn that was
  news to it, that is, neither its baseline nor in the store at its cursor; in
  a terminal session that turn began with its own prompt.
* `GivesUpForCause`: late finals, a cached sequence that ran backwards and page
  boundaries alone never end a request; another turn that was news to it does.
* `AnsweredOnce`, `EndedTurnIsReported`: it ends once, and when its turn has.
* `ChoiceKept`, `ChoiceArrives`: the tab the user chose stays, and becomes the
  server's.
* `NothingMissed`, `TabsReachClient`: coalescing loses no tab, and a resync
  that is asked for takes place, also over a lost connection.
* `OneHome`: a pane is in one tab and a tab in one window, whatever is moved
  while spawns wait and removals are queued; a window has a tab that the mux
  does not know only until what was left out is made up for.
* `NewWindowKept`: the `Activity` of a window that waits for its program keeps
  it from being pruned as empty.
* `NoHusks`: once pruning is done and none was left out, every window has a tab,
  every tab a pane and the mux knows that pane.
* `CatchesUp`: what exits while pruning is held up, or before its window was
  there, is pruned afterwards, unless the last pruning was left out.

### Bounds

`Calls` bounds how often clients call: three calls are an attempt, a repeat
and a repeat of the repeat (or a conflicting one) and two ids are enough for
two prompts to meet in one box. `MaxCrashes = 1` puts the stop anywhere in an
attempt, with the repeat on the next server. `MaxPresses` bounds the Enter
presses that `CLAUDE_SUBMIT_PATIENCE` bounds in the code, `MaxInput` a user's
keys. In the session model `Tabs` has three contents and `OldTabs` two of
them, enough for an older, a partial, an empty and a changed layout;
`MaxStarts = 2` lets a second server load what the first left. `SyncFails` is
off in `session` because `StopSavesAll` does not survive a failed directory
sync (section 5). The proofs leave it free, except for the theorem that is
about exactly this condition (section 4).

In `wakeups` there are a reminder that repeats at every tick of the clock and
one that does not; `MaxTime = 3` with `FreezeAfter = 2` lets the agent be
frozen and thawed around the due times, and `MaxEvents` bounds what users and
failures do together, here to one event. The repeating reminder alone with
`MaxEvents = 2` and `MaxTime = 4` satisfies everything too (188,266 states),
and both reminders with these bounds satisfy the invariants and the action
property (2.8 million states). In `return_request`, pages of two and a store of
three make a turn span pages and be pruned; `MaxTurns = 2` gives a turn before
and one after the request, or two before it that are news to it, or one on
either side of any of its three moments; there is no bound on how far snapshot
and cursor lie behind. In `client_view` the choices and
the events share one budget of four, `Capacity = 2` fills the queue, and
`MaxClosed = 1` tab is closed, by its program, by another client or by the
user; with two tabs closed and three choices the invariants hold as well
(872,426 states). In `topology` the server starts with one
pane in one tab; `MaxPanes`, `MaxTabs` and `MaxWindows` leave room for what
`MaxRequests = 2` requests may make. Two requests are enough to overlap, and
one of them may be a kill or a move while the other waits. Every call of
`remove_tab` and `prune_dead_windows` may or may not find the windows free.
`identity` starts with two panes.

### Fairness

`Admission!FairSpec` is weak fairness of each call's task: the executor polls
every ready task, store threads return, and each wait has its deadline
(`ADMISSION_IN_FLIGHT_WAIT`, `REDRAW_UNRESPONSIVE_LIMIT`,
`ADMISSION_TURN_CONFIRMATION`). Clients, users and crashes are not fair.
`SessionPersistence!FairSpec` is weak fairness of the saving threads and of
the worker's timers; failures stay possible but are bounded. Main-loop
restoration is not fair, and nothing says that it ends.
`Reminders!FairSpec`: the two ticks fire, the executor polls the delivery
task, a running agent reads its terminal, time passes and the mux is started
again. `ReturnRequest!FairSpec`: the observer and the reader threads run, the
agent ends the turns it starts, and a client keeps asking (`agent requests
watch` polls). `ClientView!FairSpec`: as long as a main thread or the connection
has something to do, or a lost connection is to be made again, one of these
steps is taken. That asks for less than fairness of each of them; it is enough
because what they do comes to an end when nobody adds to it.
`MuxTopology!FairSpec`: the main thread's executor runs what is queued, and
`spawn_pane` returns, with a pane or an error. Users, other clients, drops,
exits and failures are never fair.

## 4. Proofs

TLAPS proves the following for every value of the constants that the named
assumptions allow. The assumptions only give the constants their types and keep
`None`, `Nothing` and `NoRequest` apart from what they are not; `MuxTopology`
also has finitely many clients, and `ClientView` finitely many tabs. One
theorem has a hypothesis of its own, which its statement shows.

| Theorem | States | Hypothesis |
|---|---|---|
| `TypeCorrect`, `PromptWrittenAtMostOnce`, `ReservationsAreOwned`, `RefusalIsUnwritten` | `TypeOK`, `AtMostOnce`, `OwnsReservation`, `RefusedMeansUnwritten` of `Admission` | |
| `AcceptedIsEntered`, `NoStrayRegistration` | `AcceptedMeansEntered`, `RegistrationsAreOwned` | |
| `RefusedIdIsFree`, `RepeatedReceiptIsSame`, `OthersAreNotSubmitted` | the action properties `RefusalFreesId`, `RepeatReturnsSameReceipt`, `OthersStopEnter` | |
| `AdmissionKeepsPromise` | `KeepsPromise`: `Admission` implements `PromptDelivery` | |
| `SessionTypeCorrect`, `CommittedSessionSurvives` | `SessionTypeOK`, `CommittedSurvives` of `SessionPersistence` | |
| `StoppedSessionIsComplete` | `StopSavesAll` | `~SyncFails` |
| `RequestTypes`, `OutcomeIsFinal` | `TypeOK` and the action property `AnsweredOnce` of `ReturnRequest` | |
| `CompletedWithOwnFinal`, `IndeterminateForCause` | `FinalIsOwn`, `GivesUpForCause` | |
| `ReminderTypes`, `NoRunIsReplayed`, `TypedInputFindsAgentRunning` | `TypeOK` and the action properties `MissedRunsNotReplayed`, `InputReachesRunning` of `Reminders` | |
| `TopologyTypes`, `PanesHaveOneHome`, `OpenedWindowIsKept`, `NoHusksRemain` | `TypeOK`, `OneHome`, `NewWindowKept`, `NoHusks` of `MuxTopology` | |
| `ClientTypes`, `ChoiceStays`, `ChoiceReachesServer`, `NoTabMissed` | `TypeOK`, `ChoiceKept`, `ChoiceArrives`, `NothingMissed` of `ClientView` | |

The hypothesis is needed: with `SyncFails` TLC finds `StopSavesAll` violated;
section 5 says how.

The arguments, each along its inductive invariant:

* `Admission!IInv` says that an id in flight belongs to one attempt
  (`OneAttempt`), which owns its reservation (`OwnsReservation`,
  `KeepsRequest`), that nobody has written what a running attempt is about to
  write (`UnwrittenUntilWritten`), and that what was written stays on record
  with its fingerprint (`WrittenIsRecorded`). `AtMostOnce` alone is not
  inductive: a second attempt with a fresh claim could write too, and what
  rules it out is that the first one's row is never removed after the write.
  For refusals, `RowsNeverRefuse` says that a stored receipt never is one.
* `Admission!Honest`, on top of `IInv`, is about what receipts say. A row
  that says accepted has somebody's Enter behind it (`RowsTellTruth`), which
  rests on where in the attempt a row may still change (`PlacesFit`,
  `RowsWait`). A caller who was told accepted because of a cancelled request
  stays right, since no attempt is left that could save over it
  (`AcceptedOrCancelled`). The answer to a one-way call is the row's receipt or
  the row was not saved (`AnswersKept`). `GenerationsGrow` is what makes the
  comparison of input generations in `PressAgain` sound: an incarnation that is
  replaced does not come back, so a generation that starts over is not taken
  for the old one.
* The refinement. `AdmissionKeepsPromise` maps each step to the abstract
  action it amounts to (`WritePrompt` and `WriteBreaks` to `Deliver`, a prompt
  taken back to `TakeBack`, every Enter to `PressEnter`, a receipt to `Answer`,
  a crash to `Lose`) or to a stutter: a step that neither writes,
  presses, takes back nor answers leaves the mapped variables alone
  (`PromiseStutters`). What the abstract guards ask for is what `IInv` and
  `Honest` say of the state.
* `SessionIInv` says who may be saving in which phase (`SavesInTurn`), that
  writers hold the lock (`OneWriter`), that a thread which syncs still finds its
  own layout in session.json (`SyncsItsOwn`), and that session.json can only
  become what was promised or written since (`PromiseIsDurable`), except while
  it is being cleared (`ClearedIsNotPromised`). `StopIInv` adds that the tabs
  stand still while the main thread saves them (`MainSavesTabs`) and that what
  the server remembers as committed is what session.json holds
  (`CacheIsCommitted`): a stop that skips the write because "nothing changed"
  is right for that reason, also when the worker committed in between.
* `ReturnRequest!IInv` ties the three orders together that the code compares:
  the transcript (`TurnsInOrder`), the event store, which holds it as far as it
  was projected and in its order (`StoreFollows`), and the request, which at
  its cursor knows all and only what the events up to there say
  (`RequestFollows`, with `BoundToFirst`, `NotBoundYet` and `HasFinal`). That a
  late final ends no request rests on `EndedBy`: the turns that the cursor knew
  to have begun had ended when the snapshot was taken, since the agent was idle
  then (`Alternates`), and so before the request was created.
  `InStep` keeps the reconciling task and the row together. That a page of
  events leads from one such state to the next is an induction over the page:
  the set of prefixes of `ReconcileEvents` for which it holds contains 0 and is
  closed under successor (`SetInduction`).
* `Reminders!IInv`: a row is due no sooner than its last delivery
  (`RowsMoveOn`), and so is every copy in the task's batch, which may be older
  than the row (`CopiesMoveOn`); a process the mux froze is one it knows
  (`FrozenIsKnown`), which is what a thaw on input rests on.
* `MuxTopology!IInv`: the ids in use were given out (`GivenOut`), so a new one
  is in no tree; trees and windows are disjoint, those of windows that are gone
  included (`Homes`); and the count of activities is the number of requests
  that open a window, which is why pruning waits for all of them. `NoHusks` is
  inductive because a removal or pruning that is left out sets `owed` whenever
  it would have changed something.
* `ClientView!IInv` reads answers and requests as one line in which a request
  keeps its place when it is answered (`Line`). On the connection that knows
  the client (`InTouch`) it follows the two things that can be lost on the way.
  A choice: every `flush_active_tab` task has one place in the line and an
  intent of its own (`Tasks`); an intent that waits is the newest, and a task
  is there to take it (`Waiting`); otherwise a task works on the newest one, and
  what older tasks still send stands before it or cannot undo it (`Chased`,
  `Newest`), so that the server shows the tab when its pane is set and when it
  is acknowledged (`Shows`). This is more than a queue of one because a failure
  empties the outbox while its tasks go on, so several may be at work.
  `FocusHolds` is for the choice that `advise_focus` does not send, since the
  server was told of that tab last: then the outbox wants the tab, or nothing
  is left in the line that would make another one active. A tab: whatever the
  server has and the client does not is in a notification, a scheduled or a
  pending resync, an unanswered ListPanes or a snapshot that names it, or the
  client itself has asked to close it (`AllComing`); for a snapshot to take nothing away, it must have every tab
  the client knows and the server still has (`NoneForgotten`), which holds as
  only one resync runs at a time (`OneResync`). Off that connection little is
  left and little is claimed: every request fails while it is down, and later
  those that activate a tab (`AllFail`), which keeps a task from going on
  without an intent. `ChoiceKept` alone is not inductive: a snapshot is
  harmless only because the choice is `focused`, the outbox wants it and the
  snapshot has its tab. `ApplyOrder` and `Only` keep orders without
  repetition (`ApplyOrderKeeps`, `OnlyKeeps`).

Each invariant was first checked with TLC on the constants of the runs:
`Honest` in 2,694,984 states of `one_id` and 65,116 of `two_ids`, `StopIInv` in
1,208,833 of `session`, and the `IInv` of `ReturnRequest` in 1,047,537, of
`Reminders` in 198,764, of `MuxTopology` in 374,094 and of `ClientView` in
872,426 (with three choices and two tabs closed).

Only model-checked: liveness (`EveryCallEnds`, `EventuallySaved`,
`InputIsRead`, `LeftoversThawed`, `DueIsDelivered`, `EndedTurnIsReported`,
`TabsReachClient`, `CatchesUp`), which needs `ENABLED` and fairness and is
beyond the prover. Every invariant and every action property of the runs that
pass has its theorem. What the recursive definitions compute is proved where a
theorem rests on it, by induction on a set of naturals written out in the proof
(`SetInduction`, `EveryNatural`), as the induction theorems of the library
cannot be instantiated.

## 5. Where the code and its words disagree

The five violation runs are findings; `PROJECT.json` quotes the text each one
contradicts. In short:

1. `cancel_race`: a request cancelled while its prompt is being typed is saved
   over as submitted. Its event is in the stream already, so it is reported
   with a state that is not terminal and never reconciled again.
2. `session_startup`: a signal during startup saves the empty or partly
   restored layout over the session.
3. `reminder_cancel`: a reminder cancelled while it is being delivered is
   saved again afterwards, so a repeating one goes on.
4. `reconnect`: a client that lost its connection does not say who it is on
   the new one. The server sends that session no notifications, refuses to set
   its active tab, and shows it the first tab as active in every snapshot.
5. `identity`: `IdentityHolder` puts the identity back that it found, and
   requests keep theirs while they wait for a program. When two overlap and
   end in the order they began, the mux goes on acting for the first client:
   what nobody's request does next (a Lua callback, a task) uses its views.

Three more were seen in the same way and have no run of their own:

* Two prompts can meet in one box. Between typing and Enter the task waits
  until the pane draws, for up to 10 s
  (wakterm-mux-server-impl/src/sessionhandler.rs:2336). Another admission that
  starts in that time, and finds the screen as it was, passes every check and
  types into the same box, which the check of the box is there to prevent
  (mux/src/agent_admission.rs:496). The model has these behaviours, and no
  property denies them.
* A pruning that finds the windows locked returns with "we can prune later"
  (mux/src/lib.rs:6657), and a removed tab stays in its window
  (line 6558). The comment thinks of a caller that holds the lock; when it is
  the auto-save thread, nothing prunes later by itself. A dead tab or an empty
  window then stays until the next exit, kill or closed window, which `owed`
  excepts in `OneHome`, `NoHusks` and `CatchesUp`.
* The key that sets an idle draft aside (`SetAside`) raises the pane's input
  generation, which was captured before (mux/src/agent_admission.rs:439). The
  next validation answers busy, although "A draft nobody is typing is set aside
  before the prompt is written" (line 498). The repeat finds an empty box and
  is admitted.

The properties also have exceptions that reflect what the code does:

* A store that fails on a repeat is answered with the definitive
  `internal_failure`, although an earlier attempt may have written
  (`RefusedMeansUnwritten`; compare docs/agent-api/v1/index.md).
* One id used with `return_final` on and off has a row in each store and is
  written once in each mode (`SameKey`).
* A request cancelled while registered, whose admission is then refused, is
  answered as accepted to a repeat although it was never written
  (`AcceptedMeansEntered`).
* `write_admitted_prompt` validates once more; its refusal is reported as
  indeterminate although nothing was written (`WriteRefused`).
* A return-final call to agy always fails in `validate_baseline`, although
  `classify_runtime` lets it pass (`BoxReady`).
* Between `clear_session` and the initial save there is no session on disk at
  all (`CommittedSurvives` promises nothing there).
* A client that opens a pane before restoration starts makes it be skipped
  (`SkipRestore`), and the initial save then replaces the old session, which
  remains as session.json.prev.
* When `sync_parent_directory` fails, session.json has been replaced but
  `last_committed` is the session before. A layout that returns to that one is
  taken for unchanged, and even the save on shutdown leaves the other layout
  on disk (`StopSavesAll` is checked without such failures).
* `wakterm agent clear` on a frozen agent leaves it frozen, and input to a pane
  without an agent thaws nothing (`InputReachesRunning` and `InputIsRead` except
  it). A pane that is closed while its agent is frozen leaves a process behind
  that runs again when the next mux starts freezing. A thaw that the system
  refuses is not tried again (`refused`).
* A reminder whose Enter was pressed and whose save failed, or was cut off by
  a stop, is delivered again (`MissedRunsNotReplayed` is about recorded
  deliveries). What a user types during the reminder's wait for a redraw is
  submitted with it.
* `TurnStarted` is not compared with `created_at` or with the submission. Any
  turn that is neither the baseline nor behind the request's cursor is news to
  it (`News`), whether it began before or after the request: a turn that began
  between the refresh and `created_at`, or before the prompt was entered; an
  older turn that the observer stores late, behind a snapshot of two turns or
  more; a turn that a cursor from an older read page brings up again. The
  first one decides. In a terminal session it ends the request as indeterminate
  unless it began with an equal prompt, and then its answer is taken for the
  request's. A managed request compares no prompt and binds it in any case: it
  can complete with the answer of a turn that began before it. `FinalIsOwn` and
  `GivesUpForCause` say that the turn is the first one that was news, and that
  nothing but such turns, loss and pruning has this effect.
* A request whose agent is gone and that has no deadline stays open
  (`EndedTurnIsReported` excepts it).
* When a request to activate a tab fails, newer choices are given up with it,
  although the comment at wakterm-client/src/domain.rs:60 keeps the newest
  (`ChoiceKept` and `ChoiceArrives` except failures).
* The order of tabs may differ between client and server for good: a snapshot
  or another client's order that is older than the user's own move replaces
  it, and a session is not told the order it set itself. No property is stated
  about the order beyond the tabs being the same.
* When a program exits, `prune_dead_windows` takes its tab from the window
  before `remove_tab_internal` looks for it there, so the views are not
  repaired and go on naming it. Most readers fall back to the first tab;
  MovePaneToNewTab into that window fails with "has no active tab for this
  client" (mux/src/lib.rs:7110), which the model leaves out as one more
  request that changes nothing.
* A pane is left in the mux in no tab, with its program running, when its
  window goes while `spawn_pane` waits (then with a tab of its own that no
  window shows), when the pane it should be next to goes meanwhile, when the
  split turns out not to fit, when a pane is to be moved next to itself, or when
  a pane that is moved cannot be resized (mux/src/lib.rs:7128), which also
  leaves the tab it came from, if that is dead now, to the next pruning.
  `OneHome` and `NoHusks` speak of windows and what they show.
* A pane that was killed while an `Activity` holds up pruning is still in its
  tab. If it is moved then, `add_pane` takes it back into the mux, until it is
  seen to be dead.
* An acknowledged intent for a tab that closed, and whose mapping had expired,
  is never given up: the client then ignores the server's view of the window
  until its user chooses another tab.

## 6. What is left out

Of admission: the text of prompts, details and diagnostics, and the
slash-command path of confirmation (it only decides between accepted and
unconfirmed). There `Reconcile` may move a row to any state that the code can
reach; `ReturnRequest` says which. Of return requests: several at once (their
rows do not interact beyond what `Admission` has), and the projection of each
provider's transcript into events. Of reminders and freezing: harnesses other
than Claude (agy's `withdraw_typed_input_if_agent_working` is in `Admission`),
the reasons of `claude_freeze_blocker` that are settings, and Windows' job
objects; a write to a pane that is there succeeds (`send_prompt` and the Enter
of `deliver` only fail on a pane that was removed meanwhile). Of session
persistence: the contents of a tab, the resumption of
agents, and read errors while loading. Files that cannot be removed stop
`clear_session` where it is, as in the code. Of the client: parked tabs, focus
of panes inside a tab and `PaneFocused`, titles, sizes, output, several
windows. Of the mux: how a tab is divided and resized, zoom, titles, workspaces, domains that are attached or detached, tmux,
`ExitBehavior::Hold` and `CloseOnCleanExit`, panes that are kept for an agent to
be restored, and the same operations called by a GUI in its own process.

Not modelled at all: observer scheduling, pane output, resume and approvals
(planned or small), and the parts inherited from upstream, which are pure,
generated, or platform code (rendering, fonts, escape sequences, character tables, configuration, ssh).
They are by far the larger share of the repository's lines.

## 7. Plan

Done: admission, session persistence, return requests, reminders with
freezing, the client's view, the mux topology, the abstract specification of
admission, and a theorem for every invariant and action property that the
passing runs check.

Left:

1. Pure algorithms against reference definitions: `heal_tree`, split sizes,
   the auto-save schedule.
2. Observer scheduling: a throttled change is still seen.
