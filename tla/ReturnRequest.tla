--------------------------- MODULE ReturnRequest ---------------------------
(***************************************************************************)
(* A return request: a prompt whose sender waits for the agent's final     *)
(* answer, from its registration to its terminal event.                    *)
(*                                                                         *)
(* The agent writes its turns to a transcript.  The observer thread copies *)
(* the transcript, later, into the durable event store.  The mux's main    *)
(* thread reconciles the request with pages of the store that a reader     *)
(* thread reads for it, whenever a client asks.  A mux restart loses what  *)
(* is in memory.                                                           *)
(*                                                                         *)
(* Time is a position in the transcript: what the transcript holds when    *)
(* the request is created happened before it, and the rest after it.  An   *)
(* admission works from what it knew at an earlier position, and from an   *)
(* event cursor that may be older still.                                   *)
(***************************************************************************)
EXTENDS Naturals, FiniteSets, Sequences

CONSTANTS
    Nothing,     \* no request, no copy, no page, no sequence
    PageLimit,   \* events of a page (256 in reconcile_agent_requests)
    Retention,   \* events the store keeps (retention_limit)
    MaxTurns,    \* turns the agent takes
    MaxEvents    \* how often clients, users and failures interfere

ASSUME ReturnAssumption ==
    /\ {PageLimit, Retention} \subseteq Nat \ {0}
    /\ {MaxTurns, MaxEvents} \subseteq Nat
    /\ Nothing \notin {"entered", "used", "partial"}

VARIABLES
    managed,     \* the agent is a managed Codex app-server session
    transcript,  \* what the provider has recorded, in order
    running,     \* the turn that runs, or 0
    agent,       \* what the mux knows of the target's pane
    projected,   \* how much of the transcript the event store has
    events,      \* every event stored so far: its index is its sequence
    pruned,      \* pruned_through_sequence
    cached,      \* latest_sequence, in memory
    reader,      \* what the reader thread has read and not yet answered
    armed,       \* event_sequence of the admission under way, or Nothing
    seen,        \* the position its runtime snapshot is of, or Nothing
    request,     \* the request as it is stored, or Nothing
    written,     \* the prompt is entered, taken, or perhaps partial
    announced,   \* agent_request_event has the request
    work,        \* the copy reconcile_agent_requests works on, or Nothing
    expired,     \* deadline_at has passed
    interfered   \* how often clients, users and failures have interfered

agentVars == <<managed, transcript, running>>
storeVars == <<projected, events, pruned>>
readerVars == <<cached, reader>>
requestVars == <<armed, seen, request, written, announced>>
vars == <<agentVars, agent, storeVars, readerVars, requestVars, work,
          expired, interfered>>

Outcomes == {"completed", "silent", "aborted"}
Terminal ==
    {"completed", "aborted", "timed_out", "cancelled", "indeterminate"}

\* Nothing is no request.
ASSUME NothingAssumption ==
    Nothing \notin
        [state : {"registered", "submitted", "bound"} \cup Terminal,
         from : Nat, cursor : Nat, baseline : Nat, created : Nat,
         bound : Nat, final : Nat]

\* What starts a turn: the request's prompt, another, or nothing recorded.
Inputs == {"own", "other", "unknown"}

\* The records of the transcript, and the events: the incarnation that the
\* event is stored under is the request's, or a later one.
Records ==
    [kind : {"start"}, turn : 1..MaxTurns, input : Inputs]
    \cup [kind : {"final"}, turn : 1..MaxTurns, outcome : Outcomes]
Lifecycle == [kind |-> "lifecycle", turn |-> 0]
StoredEvents == [record : Records \cup {Lifecycle}, same : BOOLEAN]

Interfere == interfered < MaxEvents /\ interfered' = interfered + 1

Starts(records) ==
    {i \in DOMAIN records : records[i].kind = "start"}
LastTurn == Cardinality(Starts(transcript))

-----------------------------------------------------------------------------
(* The agent.  External: it is modelled from the records the observer      *)
(* reads.                                                                  *)

\* A turn starts when the request's prompt was entered, or anything else
\* made the agent work.
StartTurn(input) ==
    /\ running = 0 /\ LastTurn < MaxTurns
    /\ agent \notin {"exited", "replaced"}
    /\ \/ input = "own" /\ written = "entered" /\ written' = "used"
          /\ UNCHANGED interfered
       \/ Interfere /\ UNCHANGED written
    /\ running' = LastTurn + 1
    /\ transcript' = Append(transcript,
           [kind |-> "start", turn |-> running', input |-> input])
    /\ UNCHANGED <<managed, agent, storeVars, readerVars, armed, seen,
                   request, announced, work, expired>>

\* The prompt was entered while a turn ran, which takes it as steering.
Steer ==
    /\ running # 0 /\ written = "entered" /\ written' = "used"
    /\ UNCHANGED <<agentVars, agent, storeVars, readerVars, armed, seen,
                   request, announced, work, expired, interfered>>

EndTurn(outcome) ==
    /\ running # 0 /\ agent \notin {"exited", "replaced"}
    /\ transcript' = Append(transcript,
           [kind |-> "final", turn |-> running, outcome |-> outcome])
    /\ running' = 0
    /\ UNCHANGED <<managed, agent, storeVars, readerVars, requestVars, work,
                   expired, interfered>>

\* The process exits; another agent runs in the pane; the observer follows
\* another session; the managed transport changes; the pane is gone.
LoseAgent(how) ==
    /\ agent = "here" \/ (agent = "gone" /\ how = "replaced")
    /\ how = "moved" => ~managed
    /\ how = "detached" => managed
    /\ Interfere
    /\ agent' = how
    /\ UNCHANGED <<agentVars, storeVars, readerVars, requestVars, work,
                   expired>>

\* Wall-clock time reaches the request's deadline.
DeadlinePasses ==
    /\ request # Nothing /\ ~expired /\ Interfere
    /\ expired' = TRUE
    /\ UNCHANGED <<agentVars, agent, storeVars, readerVars, requestVars,
                   work>>

-----------------------------------------------------------------------------
(* The event store.                                                        *)

\* Fault: everything beyond the limit is counted from the wrong end.
StoreEventsOverPruned(added) ==
    /\ events' = events \o added
    /\ pruned' = IF Len(events') > Retention
                 THEN pruned + Retention ELSE pruned

\* insert_event for each pending event, then apply_retention.
StoreEvents(added) ==
    /\ events' = events \o added
    /\ pruned' = IF Len(events') - pruned > Retention
                 THEN Len(events') - Retention ELSE pruned

\* observe_agent: the transcript as far as the observer read it, stored and
\* published in one go.  What the agent wrote meanwhile is for the next time.
ObserveAgent ==
    /\ agent \in {"here", "replaced"}
    /\ \E upto \in projected + 1 .. Len(transcript) :
        /\ StoreEvents([i \in 1..upto - projected |->
               [record |-> transcript[projected + i],
                same |-> agent = "here"]])
        /\ projected' = upto
    /\ cached' = Len(events')
    /\ UNCHANGED <<agentVars, agent, reader, requestVars, work, expired,
                   interfered>>

\* record_unavailable and the lifecycle events: they concern no turn.
RecordLifecycle ==
    /\ Interfere
    /\ StoreEvents(<<[record |-> Lifecycle, same |-> TRUE]>>)
    /\ cached' = Len(events')
    /\ UNCHANGED <<agentVars, agent, projected, reader, requestVars, work,
                   expired>>

\* read_page_from_snapshot takes its snapshot for the main thread, which
\* waits, or for a client that reads the agents' events.
ReadSnapshot(whose) ==
    /\ reader = Nothing
    /\ IF whose = "main" THEN work # Nothing /\ UNCHANGED interfered
                         ELSE Interfere
    /\ reader' = [whose |-> whose, latest |-> Len(events), pruned |-> pruned]
    /\ UNCHANGED <<agentVars, agent, storeVars, cached, requestVars, work,
                   expired>>

\* The reader stores the snapshot's sequence, also when it is the older one.
AnswerClient ==
    /\ reader # Nothing /\ reader.whose = "client"
    /\ cached' = reader.latest /\ reader' = Nothing
    /\ UNCHANGED <<agentVars, agent, storeVars, requestVars, work, expired,
                   interfered>>

-----------------------------------------------------------------------------
(* Admission, as far as the request's record goes.                         *)

\* After its first k records the transcript shows an idle agent.
IdleAfter(k) == k # 0 => transcript[k].kind = "final"

\* capture_agent_admission reads the cached sequence.  What it knows of a
\* managed agent are the notifications that the main thread has applied: at
\* least those that are stored, which refresh does not add to.
Capture ==
    /\ armed = Nothing /\ request = Nothing
    /\ work = Nothing
    /\ armed' = cached
    /\ IF managed
       THEN /\ agent = "here"
            /\ seen' \in {k \in projected..Len(transcript) : IdleAfter(k)}
       ELSE seen' = Nothing
    /\ UNCHANGED <<agentVars, agent, storeVars, readerVars, request, written,
                   announced, work, expired, interfered>>

\* refresh reads the transcript of an agent in a terminal once more, and
\* validate_admission finds it idle.
Refresh ==
    /\ armed # Nothing /\ seen = Nothing /\ ~managed
    /\ agent = "here" /\ IdleAfter(Len(transcript))
    /\ seen' = Len(transcript)
    /\ UNCHANGED <<agentVars, agent, storeVars, readerVars, armed, request,
                   written, announced, work, expired, interfered>>

\* The last turn of the first k records, which end with its final.
TurnBefore(k) == IF k = 0 THEN 0 ELSE transcript[k].turn

\* AgentRequest::new, after the input box was prepared: the baseline is the
\* last turn of the snapshot, the time is now.  Stored as registered.
Register ==
    /\ armed # Nothing /\ seen # Nothing /\ request = Nothing
    /\ request' = [state |-> "registered", from |-> armed, cursor |-> armed,
                   baseline |-> TurnBefore(seen), created |-> Len(transcript),
                   bound |-> 0, final |-> 0]
    /\ expired' = FALSE
    /\ UNCHANGED <<agentVars, agent, storeVars, readerVars, armed, seen,
                   written, announced, work, interfered>>

\* A refused prompt takes its registration back (delete_registered).
Withdraw ==
    /\ armed # Nothing /\ written = Nothing /\ Interfere
    /\ request' = IF request # Nothing /\ request.state = "registered"
                  THEN Nothing ELSE request
    /\ armed' = Nothing /\ seen' = Nothing
    /\ UNCHANGED <<agentVars, agent, storeVars, readerVars, written,
                   announced, work, expired>>

\* The prompt is written, after another look at the snapshot, and entered
\* while the agent is the same: it may have begun a turn by then.
Enter ==
    /\ armed # Nothing /\ request # Nothing /\ written = Nothing
    /\ agent \notin {"replaced", "gone"}
    /\ written' = "entered"
    /\ UNCHANGED <<agentVars, agent, storeVars, readerVars, armed, seen,
                   request, announced, work, expired, interfered>>

\* The prompt, or its Enter, could not be written: nobody knows how much of
\* it was (reconcile_written_request_after_failure).  Nobody minds if that
\* cannot be saved.
DeliveryFails ==
    /\ armed # Nothing /\ request # Nothing /\ written = Nothing
    /\ Interfere
    /\ written' = "partial"
    /\ \/ /\ request' = [request EXCEPT !.state = "indeterminate"]
          /\ announced' = TRUE
       \/ UNCHANGED <<request, announced>>
    /\ armed' = Nothing /\ seen' = Nothing
    /\ UNCHANGED <<agentVars, agent, storeVars, readerVars, work, expired>>

\* mark_submitted on the admission's own copy, stored by another thread:
\* it replaces whatever is stored by then.
SaveSubmitted ==
    /\ armed # Nothing /\ written # Nothing
    /\ request' = [request EXCEPT !.state = "submitted"]
    /\ armed' = Nothing /\ seen' = Nothing
    /\ UNCHANGED <<agentVars, agent, storeVars, readerVars, written,
                   announced, work, expired, interfered>>

\* The save fails: the record stays registered until the mux restarts.
SaveFails ==
    /\ armed # Nothing /\ written # Nothing /\ Interfere
    /\ armed' = Nothing /\ seen' = Nothing
    /\ UNCHANGED <<agentVars, agent, storeVars, readerVars, request, written,
                   announced, work, expired>>

-----------------------------------------------------------------------------
(* Reconciliation.                                                         *)

Finish(r, state) == [r EXCEPT !.state = state]

\* AgentRequest::reconcile with what the mux knows of the agent.
Reconcile(r) ==
    IF expired THEN Finish(r, "timed_out")
    ELSE IF agent \in {"replaced", "exited"}
            \/ (agent = "moved" /\ ~managed)
            \/ (agent = "detached" /\ managed)
         THEN Finish(r, "indeterminate")
    ELSE r

\* Fault: the prompt that started the turn is not compared.
BindTurnBlindly(r, record) ==
    [r EXCEPT !.bound = record.turn, !.state = "bound"]

\* TurnStarted while the request has no turn.
BindTurn(r, record) ==
    IF ~managed /\ record.input # "own"
    THEN Finish(r, "indeterminate")
    ELSE [r EXCEPT !.bound = record.turn, !.state = "bound"]

\* Fault: a final without a start always ends the request.
UnstartedFinalEnds(r, i) == Finish(r, "indeterminate")

\* TurnFinal while the request has no turn: the final of a turn that ended
\* before the request was created is not the request's.
UnstartedFinal(r, i) ==
    IF i <= r.created THEN r ELSE Finish(r, "indeterminate")

\* Fault: only a completed turn ends the request.
TakeFinalCompleted(r, record) ==
    IF record.outcome = "completed"
    THEN [Finish(r, "completed") EXCEPT !.final = record.turn] ELSE r

\* TurnFinal of the request's turn.
TakeFinal(r, record) ==
    IF record.outcome = "completed"
    THEN [Finish(r, "completed") EXCEPT !.final = record.turn]
    ELSE Finish(r, IF record.outcome = "silent"
                   THEN "indeterminate" ELSE "aborted")

\* When a record was made: its place in the transcript.
MadeAt(record) ==
    CHOOSE i \in DOMAIN transcript : transcript[i] = record

\* One event of reconcile_event_page.
ReconcileEvent(r, event) ==
    LET record == event.record
    IN  IF \/ r.state \in Terminal
           \/ ~event.same
           \/ record.turn \in {0, r.baseline}
        THEN r
        ELSE IF r.bound # 0 /\ record.turn # r.bound
             THEN Finish(r, "indeterminate")
        ELSE IF record.kind = "start"
             THEN IF r.bound = 0 THEN BindTurn(r, record) ELSE r
        ELSE IF r.bound = 0 THEN UnstartedFinal(r, MadeAt(record))
        ELSE TakeFinal(r, record)

LesserOf(a, b) == IF a < b THEN a ELSE b

\* next_after_sequence: the last event of a page of at most PageLimit.
PageEnd(cursor) == LesserOf(cursor + PageLimit, reader.latest)

\* The events of a page, one after the other.
ReconcileEvents(r, page) ==
    LET after[n \in 0..Len(page)] ==
            IF n = 0 THEN r ELSE ReconcileEvent(after[n - 1], page[n])
    IN  after[Len(page)]

\* reconcile_event_page.  A terminal request keeps the cursor of the event
\* that ended it, which nothing reads any more.
ReconcileEventPage(r) ==
    IF r.cursor < reader.pruned THEN Finish(r, "indeterminate")
    ELSE LET page == SubSeq(events, r.cursor + 1, PageEnd(r.cursor))
         IN  [ReconcileEvents(r, page) EXCEPT !.cursor = PageEnd(r.cursor)]

\* Fault: cancelling does not look whether the request has ended.
CancelsAlways(r) == Finish(r, "cancelled")

\* cancel_agent_request, on the record read again from the store.
Cancelled(r) ==
    IF r.state \in Terminal THEN r ELSE Finish(r, "cancelled")

\* save, and what the client asked for next.
Save(r, then) ==
    /\ request' = IF then = "cancel" THEN Cancelled(r) ELSE r
    /\ announced' = (announced \/ request'.state \in Terminal)
    /\ UNCHANGED <<armed, seen, written>>

\* A client lists, reads or cancels: reconcile_agent_requests takes the
\* active requests that are past registration.
StartReconcile(then) ==
    /\ work = Nothing /\ request # Nothing
    /\ then = "list" => ~announced /\ request.state # "registered"
    /\ IF then = "cancel" THEN Interfere ELSE UNCHANGED interfered
    /\ LET active == ~announced /\ request.state # "registered"
           r == IF active THEN Reconcile(request) ELSE request
       IN  IF active /\ r.state \notin Terminal
           THEN /\ work' = [copy |-> r, then |-> then]
                /\ UNCHANGED requestVars
           ELSE Save(r, then) /\ UNCHANGED work
    /\ UNCHANGED <<agentVars, agent, storeVars, readerVars, expired>>

\* The page has come.  The loop ends when the request has, when the page
\* was empty, or when the page reached the end of the store.
ReconcilePage ==
    /\ work # Nothing /\ reader # Nothing /\ reader.whose = "main"
    /\ cached' = reader.latest /\ reader' = Nothing
    /\ LET r == ReconcileEventPage(work.copy)
       IN  IF \/ r.state \in Terminal
              \/ r.cursor <= work.copy.cursor
              \/ r.cursor >= reader.latest
           THEN Save(r, work.then) /\ work' = Nothing
           ELSE work' = [work EXCEPT !.copy = r] /\ UNCHANGED requestVars
    /\ UNCHANGED <<agentVars, agent, storeVars, expired, interfered>>

\* read_page fails: nothing is saved, and the client gets the error.
PageFails ==
    /\ work # Nothing /\ reader # Nothing /\ reader.whose = "main"
    /\ Interfere
    /\ work' = Nothing /\ reader' = Nothing
    /\ UNCHANGED <<agentVars, agent, storeVars, cached, requestVars, expired>>

\* The mux stops and starts again: recover_registered ends a registration,
\* start_runtime_epoch reports an agent it has lost.
Restart ==
    /\ Interfere
    /\ agent' = IF agent = "here" THEN "gone" ELSE agent
    /\ running' = 0
    /\ StoreEvents(<<[record |-> Lifecycle, same |-> TRUE]>>)
    /\ cached' = Len(events')
    /\ reader' = Nothing /\ work' = Nothing
    /\ armed' = Nothing /\ seen' = Nothing
    /\ IF request # Nothing /\ request.state = "registered" /\ ~announced
       THEN /\ request' = Finish(request, "indeterminate")
            /\ announced' = TRUE
       ELSE UNCHANGED <<request, announced>>
    /\ written' = IF written = "entered" THEN "used" ELSE written
    /\ UNCHANGED <<managed, transcript, projected, expired>>

-----------------------------------------------------------------------------

Init ==
    /\ managed \in BOOLEAN
    /\ transcript = <<>> /\ running = 0 /\ agent = "here"
    /\ projected = 0 /\ events = <<>> /\ pruned = 0
    /\ cached = 0 /\ reader = Nothing
    /\ armed = Nothing /\ seen = Nothing
    /\ request = Nothing /\ written = Nothing
    /\ announced = FALSE /\ work = Nothing
    /\ expired = FALSE /\ interfered = 0

Next ==
    \/ \E input \in Inputs : StartTurn(input)
    \/ Steer
    \/ \E outcome \in Outcomes : EndTurn(outcome)
    \/ \E how \in {"exited", "replaced", "moved", "detached", "gone"} :
           LoseAgent(how)
    \/ DeadlinePasses
    \/ ObserveAgent
    \/ RecordLifecycle
    \/ \E whose \in {"main", "client"} : ReadSnapshot(whose)
    \/ AnswerClient
    \/ Capture
    \/ Refresh
    \/ Register
    \/ Withdraw
    \/ Enter
    \/ DeliveryFails
    \/ SaveSubmitted
    \/ SaveFails
    \/ \E then \in {"list", "cancel"} : StartReconcile(then)
    \/ ReconcilePage
    \/ PageFails
    \/ Restart

Spec == Init /\ [][Next]_vars

\* The observer keeps observing an agent that works, a reader thread answers,
\* the agent ends its turns, and a client keeps watching its request.
FairSpec ==
    /\ Spec
    /\ WF_vars(ObserveAgent)
    /\ WF_vars(\E outcome \in Outcomes : EndTurn(outcome))
    /\ WF_vars(ReadSnapshot("main")) /\ WF_vars(AnswerClient)
    /\ WF_vars(ReconcilePage)
    /\ WF_vars(StartReconcile("list"))

-----------------------------------------------------------------------------

Requests ==
    [state : {"registered", "submitted", "bound"} \cup Terminal,
     from : 0..Len(events), cursor : 0..Len(events), baseline : 0..MaxTurns,
     created : 0..Len(transcript), bound : 0..MaxTurns, final : 0..MaxTurns]

\* Every variable has its type, and no cursor lies beyond the store.
TypeOK ==
    /\ managed \in BOOLEAN
    /\ transcript \in Seq(Records) /\ running \in 0..MaxTurns
    /\ agent \in {"here", "exited", "replaced", "moved", "detached", "gone"}
    /\ projected \in 0..Len(transcript)
    /\ events \in Seq(StoredEvents) /\ pruned \in 0..Len(events)
    /\ cached \in 0..Len(events)
    /\ reader \in [whose : {"main", "client"}, latest : 0..Len(events),
                   pruned : 0..Len(events)] \cup {Nothing}
    /\ armed \in 0..Len(events) \cup {Nothing}
    /\ seen \in 0..Len(transcript) \cup {Nothing}
    /\ request \in Requests \cup {Nothing}
    /\ written \in {Nothing, "entered", "used", "partial"}
    /\ announced \in BOOLEAN
    /\ work \in [copy : Requests, then : {"list", "cancel"}] \cup {Nothing}
    /\ expired \in BOOLEAN /\ interfered \in 0..MaxEvents

Stored(state) == request # Nothing /\ request.state \in state

\* The event e is the record k of the transcript.
Tells(e, k) == events[e].record = transcript[k]

\* The turns that were news to the request r, by their starts: not the last
\* one it knew of, and not in the store when its cursor was taken.
News(r) ==
    {i \in Starts(transcript) :
        /\ transcript[i].turn # r.baseline
        /\ \A e \in 1..r.from : ~Tells(e, i)}

\* A completed request holds the final answer of the first turn that was news
\* to it, and in a terminal session that turn began with the request's own
\* prompt: never the answer of a turn that the admission knew to have ended,
\* of a turn that somebody else's prompt started, or of any but the next,
\* however pages, failed reads and cancellations cut up the stream
\* (reconcile_event_page).
FinalIsOwn ==
    Stored({"completed"}) =>
        \E i \in News(request) :
            /\ transcript[i].turn = request.final
            /\ \A k \in News(request) : k >= i
            /\ transcript[i].input = "own" \/ managed
            /\ \E j \in i..Len(transcript) :
                transcript[j] = [kind |-> "final", turn |-> request.final,
                                 outcome |-> "completed"]

\* A request that ends indeterminate has met one of these causes: the agent
\* or the mux went away, the prompt was perhaps written in part, events were
\* pruned before they were read, or of the turns that were news to it one
\* began with other input, there was a second, or one ended without an
\* answer.  The late final of a turn that had ended, a cached sequence that
\* ran backwards or a page boundary alone are never the cause (reconcile,
\* reconcile_event_page).
GivesUpForCause ==
    Stored({"indeterminate"}) =>
        \/ agent # "here" \/ written = "partial"
        \/ request.cursor < pruned
        \/ ~managed /\ \E i \in News(request) : transcript[i].input # "own"
        \/ Cardinality(News(request)) > 1
        \/ \E i \in News(request), j \in DOMAIN transcript :
              /\ transcript[j].kind = "final"
              /\ transcript[j].turn = transcript[i].turn
              /\ transcript[j].outcome = "silent"

\* An outcome reached after submission is the last: a client that cancels
\* while the answer comes in gets one of the two, for good
\* (cancel_agent_request, reconcile_agent_requests).
AnsweredOnce ==
    [][Stored(Terminal) /\ armed = Nothing => request' = request]_vars

\* Once a turn has ended that began after the admission saw the agent idle, a
\* client that keeps watching sees the submitted request end, unless the mux
\* has lost the agent: no event is passed over between pages, by a failed
\* read or by a cursor that ran backwards (reconcile_agent_requests).
EndedTurnIsReported ==
    (/\ Stored({"submitted", "bound"}) /\ ~announced
     /\ running = 0
     /\ \E i \in Starts(transcript) : transcript[i].turn > request.baseline)
        ~> (Stored(Terminal) \/ agent = "gone")

-----------------------------------------------------------------------------
(* The inductive invariant behind the properties of states and AnsweredOnce. *)

Finals(records) ==
    {j \in DOMAIN records : records[j].kind = "final"}

\* Turns are numbered as they start, and a final comes once, after its start.
TurnsInOrder ==
    /\ \A i \in Starts(transcript) : transcript[i].turn <= LastTurn
    /\ \A i, k \in Starts(transcript) :
          i < k => transcript[i].turn < transcript[k].turn
    /\ LastTurn # 0 =>
          \E i \in Starts(transcript) : transcript[i].turn = LastTurn
    /\ \A j \in Finals(transcript) : \E i \in Starts(transcript) :
          i < j /\ transcript[i].turn = transcript[j].turn
    /\ \A j, k \in Finals(transcript) :
          transcript[j].turn = transcript[k].turn => j = k
    /\ running # 0 =>
          /\ running = LastTurn /\ Len(transcript) \in Starts(transcript)
          /\ transcript[Len(transcript)].turn = running

\* The store has the transcript as far as it was projected, in its order;
\* once an event is of a later incarnation, so are all that follow.
StoreFollows ==
    /\ \A e \in DOMAIN events :
          events[e].record = Lifecycle \/ \E k \in 1..projected : Tells(e, k)
    /\ \A k \in 1..projected : \E e \in DOMAIN events : Tells(e, k)
    /\ \A e, f \in DOMAIN events, k, l \in 1..projected :
          e < f /\ Tells(e, k) /\ Tells(f, l) => k < l
    /\ agent = "here" => \A e \in DOMAIN events : events[e].same
    /\ \A e, f \in DOMAIN events :
          e < f /\ events[f].same /\ events[f].record # Lifecycle
              => events[e].same

\* A request that ended was announced, and one whose prompt was entered is
\* there.  A reconciliation works on a request that is past its admission and
\* has not ended, and its page is not older than its cursor.
InStep ==
    /\ Stored(Terminal) => announced
    /\ written # Nothing => request \in Requests
    /\ armed # Nothing /\ request # Nothing =>
          \/ request.state = "registered"
          \/ request.state = "cancelled" /\ announced
    /\ work # Nothing =>
          /\ armed = Nothing /\ ~announced /\ request # Nothing
          /\ request.state \notin Terminal \cup {"registered"}
          /\ work.copy.state \notin Terminal
    /\ reader # Nothing =>
          /\ reader.pruned <= pruned
          /\ reader.whose = "main" =>
                work # Nothing /\ work.copy.cursor <= reader.latest

\* While the agent is there, a turn's start is followed by its final.
Alternates ==
    agent = "here" =>
        \A i \in Starts(transcript) :
            /\ i < Len(transcript) =>
                  /\ i + 1 \in Finals(transcript)
                  /\ transcript[i + 1].turn = transcript[i].turn
            /\ i = Len(transcript) => running # 0

\* The turns that began by the event c had ended by the position k.
EndedBy(c, k) ==
    \A i \in Starts(transcript) : (\E e \in 1..c : Tells(e, i)) =>
        \E j \in Finals(transcript) :
            j <= k /\ transcript[j].turn = transcript[i].turn

\* A request is bound to the first turn that was news to it, started as it
\* should be, whose start lies behind c.
BoundToFirst(r, c) ==
    r.bound # 0 =>
        \E i \in News(r) :
            /\ transcript[i].turn = r.bound
            /\ \A k \in News(r) : k >= i
            /\ transcript[i].input = "own" \/ managed
            /\ \E e \in 1..c : Tells(e, i)

\* While a request is not bound, no start that was news lies behind c.
NotBoundYet(r, c) ==
    r.bound = 0 /\ r.state # "indeterminate" =>
        \A i \in News(r), e \in 1..c : ~(events[e].same /\ Tells(e, i))

\* A request that completed did so with the final of its turn.
HasFinal(r) ==
    r.state = "completed" =>
        /\ r.bound # 0 /\ r.final = r.bound
        /\ \E j \in Finals(transcript) :
              transcript[j].turn = r.final
              /\ transcript[j].outcome = "completed"

\* The request r, with the events up to c taken into account.
Follows(r, c) ==
    /\ r.from <= c /\ EndedBy(r.from, r.created)
    /\ BoundToFirst(r, c) /\ NotBoundYet(r, c) /\ HasFinal(r)

\* What may end r as indeterminate, apart from pruned events.
Cause(r) ==
    \/ agent # "here" \/ written = "partial"
    \/ ~managed /\ \E i \in News(r) : transcript[i].input # "own"
    \/ \E i, k \in News(r) : i # k
    \/ \E i \in News(r), j \in Finals(transcript) :
          /\ transcript[j].turn = transcript[i].turn
          /\ transcript[j].outcome = "silent"

RequestFollows ==
    /\ armed # Nothing /\ seen # Nothing => EndedBy(armed, seen)
    /\ request # Nothing =>
          /\ Follows(request, request.cursor)
          /\ request.state = "indeterminate" =>
                Cause(request) \/ request.cursor < pruned
    /\ work # Nothing => Follows(work.copy, work.copy.cursor)

IInv ==
    /\ TypeOK /\ TurnsInOrder /\ Alternates /\ StoreFollows /\ InStep
    /\ RequestFollows

=============================================================================
