----------------------------- MODULE Admission -----------------------------
(***************************************************************************)
(* Prompt admission: how the mux server types a client's prompt into an    *)
(* agent's pane at most once, whatever the client repeats, cancels or      *)
(* loses and wherever the server stops.                                    *)
(*                                                                         *)
(* A call is one AdmitAgentPrompt PDU.  Its handler, admit_agent_prompt,   *)
(* is an async task of the main thread: it runs alone from one await to    *)
(* the next, and every action below is one such stretch together with the  *)
(* store operation, done on a thread of its own, that ends it.  The two    *)
(* stores are SQLite databases and outlive the server; the set of ids in   *)
(* flight, the tasks and the input generation of the pane do not.          *)
(*                                                                         *)
(* What the server reads from outside (the transcript, the foreground      *)
(* process, the screen) may change between any two reads, so every read is *)
(* a choice made when it happens.                                          *)
(***************************************************************************)
EXTENDS Naturals

CONSTANTS
    Calls,        \* the AdmitAgentPrompt calls clients may make
    Ids,          \* request ids
    Prompts,      \* prompt texts, with their paste flag and timeout
    Incarnations, \* incarnation ids the pane's agent goes through
    Inputs,       \* the arguments clients use, a subset of InputRecords
    Harness,      \* the harness each incarnation runs
    IoFails,      \* whether a store or pty operation may fail
    MaxCrashes,   \* how often the server stops
    MaxInput,     \* how often somebody else types into the pane
    MaxPresses    \* how often one call presses Enter

InputRecords ==
    [id : Ids, prompt : Prompts, incarnation : Incarnations, final : BOOLEAN]

\* A pane with no registered agent, and a row that holds nothing.
NoAgent == 0
NoInput == [id |-> "none"]

ASSUME ConstantsAssumption ==
    /\ Incarnations \subseteq Nat \ {NoAgent}
    /\ Inputs \subseteq InputRecords
    /\ Harness \in [Incarnations -> {"claude", "codex", "managed_codex", "agy"}]
    /\ IoFails \in BOOLEAN
    /\ MaxCrashes \in Nat
    /\ MaxInput \in Nat
    /\ MaxPresses \in Nat

VARIABLES
    up,          \* whether the mux server runs
    crashes,     \* how often it has stopped
    pc,          \* where the task of each call awaits
    input,       \* the arguments of each call, which never change
    receipt,     \* the receipt a call returned, or is about to return
    captured,    \* candidate.input_generation of each call
    runtime,     \* candidate.runtime of each call, as refreshed
    inputsSeen,  \* inputs_seen of confirm_admitted_input
    inFlight,    \* IN_FLIGHT: the ids this process is admitting
    admissions,  \* agent_prompt_admission: the row of each id
    requests,    \* agent_request: the row of each id
    events,      \* agent_request_event: the ids with a terminal event
    agent,       \* the incarnation the pane's agent metadata names
    retired,     \* the incarnations that are gone
    generation,  \* agent_input_by_pane: the pane's input generation
    others,      \* how often somebody else has typed into the pane
    typed,       \* history: the calls whose prompt reached the pty
    takenBack,   \* history: the calls whose prompt was removed again
    presses,     \* history: how often each call pressed Enter
    disturbed    \* history: calls that somebody typed over while confirming

taskVars == <<pc, receipt, inFlight>>
candidateVars == <<captured, runtime, inputsSeen>>
storeVars == <<admissions, requests, events>>
paneVars == <<agent, retired, generation, others>>
histVars == <<typed, takenBack, presses, disturbed>>
serverVars == <<up, crashes, input>>
vars == <<serverVars, taskVars, candidateVars, storeVars, paneVars, histVars>>

-----------------------------------------------------------------------------
(* Receipts and rows.                                                      *)

Refusals == {"busy", "unavailable", "stale_incarnation", "invalid",
             "unsupported", "observer_failure", "internal_failure"}

\* prompt_written is Some(true), Some(false) or None: "yes", "no", "unknown".
Receipts ==
    [status : Refusals \cup {"none", "accepted", "indeterminate"},
     written : {"yes", "no", "unknown"}]

NoReceipt == [status |-> "none", written |-> "unknown"]
Accepted == [status |-> "accepted", written |-> "yes"]
Rejected(status) == [status |-> status, written |-> "no"]
Indeterminate == [status |-> "indeterminate", written |-> "unknown"]
Unconfirmed == [status |-> "indeterminate", written |-> "yes"]

\* StoredOneWayAdmission: the fingerprint stands for every argument.
AdmissionRows ==
    [state : {"none", "prepared", "accepted", "indeterminate"},
     fingerprint : Inputs \cup {NoInput},
     receipt : Receipts]

NoAdmission ==
    [state |-> "none", fingerprint |-> NoInput, receipt |-> NoReceipt]

Terminal == {"completed", "aborted", "timed_out", "cancelled",
             "delivery_failed", "indeterminate"}

RequestRows ==
    [state : Terminal \cup {"none", "registered", "submitted", "bound"},
     fingerprint : Inputs \cup {NoInput}]

NoRequest == [state |-> "none", fingerprint |-> NoInput]

-----------------------------------------------------------------------------
(* The places where a task awaits.                                         *)

\* Before the prompt is written, with the id in flight and reserved.
Preparing == {"capturing", "refreshing", "validating", "setting_aside",
              "creating", "revalidating", "writing"}
\* After the prompt was written, or might have been.
Delivering == {"typed", "withdrawn", "saving", "confirming", "finishing",
               "failing"}
InFlightAt == {"reading", "releasing"} \cup Preparing \cup Delivering
Ended == {"answered", "lost"}
Places == {"new", "waiting"} \cup InFlightAt \cup Ended

id(c) == input[c].id
OneWay(c) == ~input[c].final

Goto(c, place) == pc' = [pc EXCEPT ![c] = place]

\* The candidate is a local of the task.
Candidates(c, gen, observed, seen) ==
    /\ captured' = [captured EXCEPT ![c] = gen]
    /\ runtime' = [runtime EXCEPT ![c] = observed]
    /\ inputsSeen' = [inputsSeen EXCEPT ![c] = seen]

DropCandidate(c) == Candidates(c, 0, "idle", 0)

\* runtime.harness of the agent registered for the pane.
harness == IF agent = NoAgent THEN "none" ELSE Harness[agent]

\* The task returns r: the guard of its id is dropped with it.
Return(c, r) ==
    /\ Goto(c, "answered")
    /\ receipt' = [receipt EXCEPT ![c] = r]
    /\ inFlight' = inFlight \ {id(c)}
    /\ DropCandidate(c)

\* The task goes on to release_unwritten_claim and will then return.
Refuse(c, status) ==
    /\ Goto(c, "releasing")
    /\ receipt' = [receipt EXCEPT ![c] = Rejected(status)]
    /\ UNCHANGED inFlight
    /\ DropCandidate(c)

\* The task goes on to its next await.
Proceed(c, place) ==
    /\ Goto(c, place)
    /\ UNCHANGED <<receipt, inFlight, candidateVars>>

-----------------------------------------------------------------------------
(* Entering, and what the stores answer about an id used before.           *)

Start(c) ==
    /\ up /\ pc[c] = "new"
    /\ Proceed(c, "waiting")
    /\ UNCHANGED <<serverVars, storeVars, paneVars, histVars>>

\* Fault: an id already in flight is entered again.
EnterAnyway(c) ==
    /\ pc[c] = "waiting"
    /\ Goto(c, "reading")
    /\ inFlight' = inFlight \cup {id(c)}
    /\ UNCHANGED <<receipt, serverVars, candidateVars, storeVars, paneVars,
                   histVars>>

\* AdmissionInFlight::enter
Enter(c) ==
    /\ pc[c] = "waiting" /\ id(c) \notin inFlight
    /\ Goto(c, "reading")
    /\ inFlight' = inFlight \cup {id(c)}
    /\ UNCHANGED <<receipt, serverVars, candidateVars, storeVars, paneVars,
                   histVars>>

\* Another attempt with the id has run for ADMISSION_IN_FLIGHT_WAIT.
EnterTimeout(c) ==
    /\ pc[c] = "waiting" /\ id(c) \in inFlight
    /\ Goto(c, "answered")
    /\ receipt' = [receipt EXCEPT ![c] = Indeterminate]
    /\ UNCHANGED <<inFlight, serverVars, candidateVars, storeVars, paneVars,
                   histVars>>

\* Fault: every request found for the id counts as accepted.
LookupTrusts(c, row) ==
    IF row.fingerprint # input[c] THEN Rejected("invalid") ELSE Accepted

\* Fault: the state of the request is passed on as the receipt's status.
LookupPassesState(c, row) == [status |-> row.state, written |-> "unknown"]

\* The receipt of a return-final call whose id the request store knows.
LookupReceipt(c, row) ==
    IF row.fingerprint # input[c] THEN Rejected("invalid")
    ELSE IF row.state \in {"registered", "delivery_failed", "indeterminate"}
         THEN Indeterminate
         ELSE Accepted

Lookup(c) ==
    /\ pc[c] = "reading" /\ ~OneWay(c)
    /\ IF requests[id(c)].state = "none"
       THEN Proceed(c, "capturing")
       ELSE Return(c, LookupReceipt(c, requests[id(c)]))
    /\ UNCHANGED <<serverVars, storeVars, paneVars, histVars>>

\* Fault: a claim found prepared is taken over and tried again.
ClaimRetries(c) ==
    LET row == admissions[id(c)]
        mine == [state |-> "prepared", fingerprint |-> input[c],
                 receipt |-> Indeterminate]
    IN  /\ pc[c] = "reading" /\ OneWay(c)
        /\ \/ /\ row.state \in {"none", "prepared"}
              /\ admissions' = [admissions EXCEPT ![id(c)] = mine]
              /\ Proceed(c, "capturing")
           \/ /\ row.state \in {"accepted", "indeterminate"}
              /\ Return(c, row.receipt)
              /\ UNCHANGED admissions
        /\ UNCHANGED <<requests, events, serverVars, paneVars, histVars>>

\* AgentAdmissionStore::claim.  A claim found prepared is nobody's: its
\* attempt ended without recording what it did.
Claim(c) ==
    LET row == admissions[id(c)]
        lost == [row EXCEPT !.state = "indeterminate",
                            !.receipt = Indeterminate]
        mine == [state |-> "prepared", fingerprint |-> input[c],
                 receipt |-> Indeterminate]
    IN  /\ pc[c] = "reading" /\ OneWay(c)
        /\ \/ /\ row.state = "none"
              /\ admissions' = [admissions EXCEPT ![id(c)] = mine]
              /\ Proceed(c, "capturing")
           \/ /\ row.state # "none" /\ row.fingerprint # input[c]
              /\ Return(c, Rejected("invalid"))
              /\ UNCHANGED admissions
           \/ /\ row.state = "prepared" /\ row.fingerprint = input[c]
              /\ admissions' = [admissions EXCEPT ![id(c)] = lost]
              /\ Return(c, Indeterminate)
           \/ /\ row.state \in {"accepted", "indeterminate"}
              /\ row.fingerprint = input[c]
              /\ Return(c, row.receipt)
              /\ UNCHANGED admissions
        /\ UNCHANGED <<requests, events, serverVars, paneVars,
                       histVars>>

\* get or claim fails: the call is rejected before it did anything.
ReadFails(c) ==
    /\ IoFails /\ pc[c] = "reading"
    /\ Return(c, Rejected("internal_failure"))
    /\ UNCHANGED <<serverVars, storeVars, paneVars, histVars>>

-----------------------------------------------------------------------------
(* Observing the target and validating it, twice and once more to write.   *)

\* capture_agent_admission, after the wait for an unknown turn state.
Capture(c) ==
    /\ pc[c] = "capturing"
    /\ \/ agent = NoAgent /\ Refuse(c, "unavailable")
       \/ /\ agent \notin {NoAgent, input[c].incarnation}
          /\ Refuse(c, "stale_incarnation")
       \/ /\ agent = input[c].incarnation
          /\ Goto(c, "refreshing")
          /\ Candidates(c, generation, "idle", 0)
          /\ UNCHANGED <<receipt, inFlight>>
    /\ UNCHANGED <<serverVars, storeVars, paneVars, histVars>>

\* What classify_runtime says of each observation; "none" admits.
Observations == {"idle", "working", "exited", "observer_error"}

ClassifyRuntime(observed) ==
    [idle |-> "none", working |-> "busy", exited |-> "unavailable",
     observer_error |-> "observer_failure"][observed]

\* candidate.refresh, on a thread: the process and its transcript are read.
Refresh(c) ==
    /\ pc[c] = "refreshing"
    /\ Goto(c, "validating")
    /\ \E observed \in Observations :
          Candidates(c, captured[c], observed, 0)
    /\ UNCHANGED <<receipt, inFlight, serverVars, storeVars, paneVars,
                   histVars>>

RefreshFails(c) ==
    /\ IoFails /\ pc[c] = "refreshing"
    /\ Refuse(c, "internal_failure")
    /\ UNCHANGED <<serverVars, storeVars, paneVars, histVars>>

\* The part of validate_agent_admission that reads the mux's own state.
MuxRefusal(c) ==
    IF agent = NoAgent THEN "unavailable"
    ELSE IF agent # input[c].incarnation THEN "stale_incarnation"
    ELSE IF generation # captured[c] THEN "busy"
    ELSE ClassifyRuntime(runtime[c])

\* The pane exited, the harness is not in the foreground, Claude has not
\* finished starting, its box is blocked, or the pane is tmux's.
OutsideRefusals == {"unavailable", "stale_incarnation", "busy", "unsupported"}

\* validate_agent_admission: what it may answer; "none" admits.
ValidateAdmission(c) ==
    IF MuxRefusal(c) # "none" THEN {MuxRefusal(c)}
    ELSE {"none"} \cup OutsideRefusals

\* agent_input_box, judged from the screen, which may not show yet what was
\* typed.
AgentInputBox ==
    {"ready", "blocked"}
        \cup (IF harness = "claude" THEN {"idle_draft"} ELSE {})
        \cup (IF harness = "agy" THEN {"survey"} ELSE {})

\* The box is ready: a return-final call proposes its request, which
\* validate_baseline may refuse; a one-way call goes on to write.
BoxReady(c) ==
    IF OneWay(c)
    THEN \E answer \in ValidateAdmission(c) :
            IF answer = "none" THEN Proceed(c, "writing") ELSE Refuse(c, answer)
    ELSE \/ harness # "agy" /\ Proceed(c, "creating")
         \/ Refuse(c, "observer_failure")

Validate(c) ==
    /\ pc[c] = "validating"
    /\ \E answer \in ValidateAdmission(c) : \E box \in AgentInputBox :
          IF answer # "none" THEN Refuse(c, answer)
          ELSE IF box = "blocked" THEN Refuse(c, "busy")
          ELSE box = "ready" /\ BoxReady(c)
    /\ UNCHANGED <<serverVars, storeVars, paneVars, histVars>>

\* A draft nobody is typing, or agy's survey, is set aside by a key typed
\* through the pane's writer, which counts as input.
SetAside(c) ==
    /\ pc[c] = "validating"
    /\ "none" \in ValidateAdmission(c)
    /\ AgentInputBox \cap {"idle_draft", "survey"} # {}
    /\ Proceed(c, "setting_aside")
    /\ generation' = generation + 1
    /\ UNCHANGED <<agent, retired, others, serverVars, storeVars, histVars>>

BoxSetAside(c) ==
    /\ pc[c] = "setting_aside"
    /\ \E box \in AgentInputBox :
          IF box = "ready" THEN BoxReady(c) ELSE Refuse(c, "busy")
    /\ UNCHANGED <<serverVars, storeVars, paneVars, histVars>>

\* AgentRequestStore::create: the id was free when it was looked up.
Create(c) ==
    /\ pc[c] = "creating"
    /\ IF requests[id(c)].state = "none"
       THEN /\ requests' = [requests EXCEPT ![id(c)] =
                               [state |-> "registered",
                                fingerprint |-> input[c]]]
            /\ Proceed(c, "revalidating")
       ELSE /\ Return(c, IF requests[id(c)].fingerprint = input[c]
                         THEN Accepted ELSE Rejected("internal_failure"))
            /\ UNCHANGED requests
    /\ UNCHANGED <<admissions, events, serverVars, paneVars,
                   histVars>>

CreateFails(c) ==
    /\ IoFails /\ pc[c] = "creating"
    /\ Return(c, Rejected("internal_failure"))
    /\ UNCHANGED <<serverVars, storeVars, paneVars, histVars>>

Revalidate(c) ==
    /\ pc[c] = "revalidating"
    /\ \E answer \in ValidateAdmission(c) :
          IF answer = "none" THEN Proceed(c, "writing") ELSE Refuse(c, answer)
    /\ UNCHANGED <<serverVars, storeVars, paneVars, histVars>>

-----------------------------------------------------------------------------
(* Writing the prompt and pressing Enter.                                  *)

\* write_admitted_prompt validates once more, after a frozen agent was given
\* time to settle, and types the prompt without Enter.  send_prompt and
\* record_agent_prompt_submission each count one input.
WritePrompt(c) ==
    /\ pc[c] = "writing"
    /\ "none" \in ValidateAdmission(c) /\ "ready" \in AgentInputBox
    /\ Proceed(c, "typed")
    /\ typed' = typed \cup {c}
    /\ generation' = generation + 2
    /\ UNCHANGED <<agent, retired, others, serverVars,
                   storeVars, takenBack, presses, disturbed>>

\* The validation or the box refuses: nothing is written, but the caller
\* cannot tell this from a write that stopped half way.
WriteRefused(c) ==
    /\ pc[c] = "writing"
    /\ \/ ValidateAdmission(c) # {"none"}
       \/ AgentInputBox # {"ready"}
    /\ Proceed(c, "failing")
    /\ UNCHANGED <<serverVars, storeVars, paneVars, histVars>>

\* send_prompt fails after it wrote part of the prompt.
WriteBreaks(c) ==
    /\ IoFails /\ pc[c] = "writing"
    /\ "none" \in ValidateAdmission(c) /\ "ready" \in AgentInputBox
    /\ Proceed(c, "failing")
    /\ typed' = typed \cup {c}
    /\ generation' = generation + 1
    /\ UNCHANGED <<agent, retired, others, serverVars,
                   storeVars, takenBack, presses, disturbed>>

\* submit_admitted_prompt, once the pane has redrawn: only the incarnation
\* is checked again.  A one-way call samples inputs_seen in the same stretch.
PressEnter(c) ==
    /\ pc[c] = "typed" /\ agent = input[c].incarnation
    /\ Goto(c, IF OneWay(c) THEN "confirming" ELSE "saving")
    /\ generation' = generation + 1
    /\ Candidates(c, 0, "idle", generation + 1)
    /\ presses' = [presses EXCEPT ![c] = @ + 1]
    /\ UNCHANGED <<receipt, inFlight, agent, retired, others, serverVars,
                   storeVars, typed, takenBack, disturbed>>

\* Fault: a target that changed after the prompt was typed is a refusal.
SubmitRefusedIsRefusal(c) ==
    /\ pc[c] = "typed"
    /\ agent # input[c].incarnation \/ IoFails
    /\ Refuse(c, "stale_incarnation")
    /\ UNCHANGED <<serverVars, storeVars, paneVars, histVars>>

SubmitRefused(c) ==
    /\ pc[c] = "typed"
    /\ agent # input[c].incarnation \/ IoFails
    /\ Proceed(c, "failing")
    /\ UNCHANGED <<serverVars, storeVars, paneVars, histVars>>

\* withdraw_typed_input_if_agent_working: agy started a turn before Enter.
Withdraw(c) ==
    /\ harness = "agy" /\ pc[c] = "typed" /\ agent # NoAgent
    /\ Proceed(c, "withdrawn")
    /\ generation' = generation + 1
    /\ UNCHANGED <<agent, retired, others, serverVars,
                   storeVars, histVars>>

\* agy_input_box_empty: the screen shows an empty box.  The keys that empty it
\* are in the pty ahead of whatever is typed next, so the prompt counts as
\* removed even if agy has not read them.
TakenBack(c) ==
    /\ pc[c] = "withdrawn"
    /\ Refuse(c, "busy")
    /\ takenBack' = takenBack \cup {c}
    /\ UNCHANGED <<serverVars, storeVars, paneVars, typed,
                   presses, disturbed>>

\* Fault: the box is not checked after the keys that empty it.
NotTakenBackIsRefusal(c) ==
    /\ pc[c] = "withdrawn"
    /\ Refuse(c, "busy")
    /\ UNCHANGED <<serverVars, storeVars, paneVars, histVars>>

NotTakenBack(c) ==
    /\ pc[c] = "withdrawn"
    /\ Proceed(c, "failing")
    /\ UNCHANGED <<serverVars, storeVars, paneVars, histVars>>

\* Fault: the input generation is not compared with inputs_seen.
PressAgainBlindly(c) ==
    /\ harness = "claude" /\ pc[c] = "confirming" /\ presses[c] < MaxPresses
    /\ agent = input[c].incarnation
    /\ generation' = generation + 1
    /\ Candidates(c, 0, "idle", generation + 1)
    /\ presses' = [presses EXCEPT ![c] = @ + 1]
    /\ UNCHANGED <<agent, retired, others, serverVars, taskVars,
                   storeVars, typed, takenBack, disturbed>>

\* resubmit_admitted_prompt: Claude left the prompt in its box, and nobody
\* has written to the pane since the last Enter.
PressAgain(c) ==
    /\ harness = "claude" /\ pc[c] = "confirming" /\ presses[c] < MaxPresses
    /\ agent = input[c].incarnation
    /\ generation = inputsSeen[c]
    /\ generation' = generation + 1
    /\ Candidates(c, 0, "idle", generation + 1)
    /\ presses' = [presses EXCEPT ![c] = @ + 1]
    /\ UNCHANGED <<agent, retired, others, serverVars, taskVars,
                   storeVars, typed, takenBack, disturbed>>

\* Fault: the wait ends only with an event of the live incarnation.
ConfirmWithoutDeadline(c) ==
    /\ pc[c] = "confirming" /\ agent = input[c].incarnation
    /\ Goto(c, "finishing")
    /\ receipt' = [receipt EXCEPT ![c] = Accepted]
    /\ UNCHANGED <<inFlight, serverVars, candidateVars, storeVars, paneVars,
                   histVars>>

\* confirm_admitted_input ends: the agent recorded the prompt, or did not.
Confirm(c) ==
    /\ pc[c] = "confirming"
    /\ Goto(c, "finishing")
    /\ \E r \in {Accepted, Unconfirmed} :
          receipt' = [receipt EXCEPT ![c] = r]
    /\ UNCHANGED <<inFlight, serverVars, candidateVars, storeVars, paneVars,
                   histVars>>

-----------------------------------------------------------------------------
(* Recording the outcome.                                                  *)

\* Fault: the row keeps the receipt it was prepared with.
FinishedWithoutReceipt(row, r) ==
    [row EXCEPT !.state = IF r.status = "accepted" THEN "accepted"
                          ELSE "indeterminate"]

\* AgentAdmissionStore::finish
Finished(row, r) ==
    [row EXCEPT !.state = IF r.status = "accepted" THEN "accepted"
                          ELSE "indeterminate",
                !.receipt = r]

Finish(c) ==
    /\ pc[c] = "finishing"
    /\ admissions' = [admissions EXCEPT ![id(c)] = Finished(@, receipt[c])]
    /\ Return(c, receipt[c])
    /\ UNCHANGED <<requests, events, serverVars, paneVars,
                   histVars>>

\* AgentRequestStore::save writes whatever state it is given, and adds the
\* terminal event of a terminal state.
Save(i, state) ==
    /\ requests' = [requests EXCEPT ![i].state = state]
    /\ events' = IF state \in Terminal THEN events \cup {i} ELSE events

SaveSubmitted(c) ==
    /\ pc[c] = "saving"
    /\ Save(id(c), "submitted")
    /\ Return(c, Accepted)
    /\ UNCHANGED <<admissions, serverVars, paneVars, histVars>>

\* The receipt of a written prompt cannot be persisted.
RecordFails(c) ==
    /\ IoFails /\ pc[c] \in {"finishing", "saving", "failing"}
    /\ Return(c, Indeterminate)
    /\ UNCHANGED <<serverVars, storeVars, paneVars, histVars>>

\* Delivery failed: the outcome is recorded as indeterminate.
DeliveryFailed(c) ==
    /\ pc[c] = "failing"
    /\ IF OneWay(c)
       THEN /\ admissions' =
                  [admissions EXCEPT ![id(c)] = Finished(@, Indeterminate)]
            /\ UNCHANGED <<requests, events>>
       ELSE Save(id(c), "indeterminate") /\ UNCHANGED admissions
    /\ Return(c, Indeterminate)
    /\ UNCHANGED <<serverVars, paneVars, histVars>>

\* Fault: only one-way claims are released.
ReleaseClaimOnly(c) ==
    /\ pc[c] = "releasing"
    /\ admissions' = IF OneWay(c) /\ admissions[id(c)].state = "prepared"
                     THEN [admissions EXCEPT ![id(c)] = NoAdmission]
                     ELSE admissions
    /\ Return(c, receipt[c])
    /\ UNCHANGED <<requests, events, serverVars, paneVars, histVars>>

\* release_unwritten_claim: only an untouched reservation is deleted.
Release(c) ==
    /\ pc[c] = "releasing"
    /\ IF OneWay(c)
       THEN /\ admissions' = IF admissions[id(c)].state = "prepared"
                             THEN [admissions EXCEPT ![id(c)] = NoAdmission]
                             ELSE admissions
            /\ UNCHANGED requests
       ELSE /\ requests' = IF requests[id(c)].state = "registered"
                           THEN [requests EXCEPT ![id(c)] = NoRequest]
                           ELSE requests
            /\ UNCHANGED admissions
    /\ Return(c, receipt[c])
    /\ UNCHANGED <<events, serverVars, paneVars, histVars>>

ReleaseFails(c) ==
    /\ IoFails /\ pc[c] = "releasing"
    /\ Return(c, Rejected("internal_failure"))
    /\ UNCHANGED <<serverVars, storeVars, paneVars, histVars>>

-----------------------------------------------------------------------------
(* Watchers and cancellation of return requests.                           *)

\* What reconcile_agent_requests may make of the row of i: a row with a
\* terminal event is not read, and a registration is left alone.
Reconciled(i) ==
    IF i \in events \/ requests[i].state \notin {"submitted", "bound"} THEN {}
    ELSE {"bound", "completed", "aborted", "timed_out", "indeterminate"}

\* Every get and every poll of the terminal stream reconciles first.
Reconcile(i) ==
    /\ up
    /\ \E state \in Reconciled(i) \ {requests[i].state} : Save(i, state)
    /\ UNCHANGED <<admissions, serverVars, taskVars, candidateVars, paneVars,
                   histVars>>

\* cancel_agent_request, after the reconciliation it starts with.
Cancel(i) ==
    /\ up /\ requests[i].state \notin Terminal \cup {"none"}
    /\ Save(i, "cancelled")
    /\ UNCHANGED <<admissions, serverVars, taskVars, candidateVars, paneVars,
                   histVars>>

-----------------------------------------------------------------------------
(* The pane's users and agents, and the server's life.                     *)

\* record_agent_input_generation, for keys, mouse, paste and other writers.
SomebodyTypes ==
    /\ up /\ agent # NoAgent /\ others < MaxInput
    /\ others' = others + 1
    /\ generation' = generation + 1
    /\ disturbed' = disturbed \cup {c \in Calls : pc[c] = "confirming"}
    /\ UNCHANGED <<agent, retired, serverVars, taskVars, candidateVars,
                   storeVars, typed, takenBack, presses>>

\* clear_agent_metadata: the input generation goes with the metadata.
AgentLeaves ==
    /\ up /\ agent # NoAgent
    /\ agent' = NoAgent
    /\ retired' = retired \cup {agent}
    /\ generation' = 0
    /\ UNCHANGED <<others, serverVars, taskVars, candidateVars, storeVars,
                   histVars>>

\* An agent is registered, in an empty pane or in place of the last one.
AgentRegistered ==
    /\ up
    /\ agent' \in Incarnations \ (retired \cup {agent})
    /\ retired' = retired \cup ({agent} \ {NoAgent})
    /\ UNCHANGED <<generation, others, serverVars, taskVars, candidateVars,
                   storeVars, histVars>>

\* The server stops: its tasks and its panes are gone, the stores stay.  An
\* incarnation is its process, except for managed Codex: that is the thread
\* and session of the app server, which the next server restores.
Crash ==
    /\ up /\ crashes < MaxCrashes
    /\ up' = FALSE
    /\ crashes' = crashes + 1
    /\ pc' = [c \in Calls |-> IF pc[c] \in {"new"} \cup Ended THEN pc[c]
                              ELSE "lost"]
    /\ inFlight' = {}
    /\ agent' = NoAgent
    /\ retired' = IF harness = "managed_codex" THEN retired
                  ELSE retired \cup ({agent} \ {NoAgent})
    /\ generation' = 0
    /\ captured' = [c \in Calls |-> 0]
    /\ runtime' = [c \in Calls |-> "idle"]
    /\ inputsSeen' = [c \in Calls |-> 0]
    /\ UNCHANGED <<input, receipt, others, storeVars, histVars>>

\* The registrations that recover_registered finds unfinished.
Unfinished == {i \in Ids \ events : requests[i].state = "registered"}

\* Fault: the server starts without recovering registrations.
RestartWithoutRecovery ==
    /\ ~up
    /\ up' = TRUE
    /\ UNCHANGED <<crashes, input, storeVars, taskVars, candidateVars,
                   paneVars, histVars>>

\* start_agent_event_runtime_epoch, before any call is accepted.
Restart ==
    /\ ~up
    /\ up' = TRUE
    /\ requests' = [i \in Ids |-> IF i \in Unfinished
                                  THEN [requests[i] EXCEPT !.state =
                                           "indeterminate"]
                                  ELSE requests[i]]
    /\ events' = events \cup Unfinished
    /\ UNCHANGED <<crashes, input, admissions, taskVars, candidateVars,
                   paneVars, histVars>>

-----------------------------------------------------------------------------
Init ==
    /\ up = TRUE /\ crashes = 0
    /\ pc = [c \in Calls |-> "new"]
    /\ input \in [Calls -> Inputs]
    /\ receipt = [c \in Calls |-> NoReceipt]
    /\ captured = [c \in Calls |-> 0]
    /\ runtime = [c \in Calls |-> "idle"]
    /\ inputsSeen = [c \in Calls |-> 0]
    /\ inFlight = {}
    /\ admissions = [i \in Ids |-> NoAdmission]
    /\ requests = [i \in Ids |-> NoRequest]
    /\ events = {}
    /\ agent \in Incarnations /\ retired = {}
    /\ generation = 0 /\ others = 0
    /\ typed = {} /\ takenBack = {} /\ disturbed = {}
    /\ presses = [c \in Calls |-> 0]

\* One stretch of the task of c; the server schedules every ready task.
Step(c) ==
    \/ Enter(c) \/ EnterTimeout(c) \/ Lookup(c) \/ Claim(c) \/ ReadFails(c)
    \/ Capture(c) \/ Refresh(c) \/ RefreshFails(c) \/ Validate(c)
    \/ SetAside(c) \/ BoxSetAside(c) \/ Create(c) \/ CreateFails(c)
    \/ Revalidate(c) \/ WritePrompt(c) \/ WriteRefused(c) \/ WriteBreaks(c)
    \/ PressEnter(c) \/ SubmitRefused(c) \/ Withdraw(c) \/ TakenBack(c)
    \/ NotTakenBack(c) \/ PressAgain(c) \/ Confirm(c) \/ Finish(c)
    \/ SaveSubmitted(c) \/ RecordFails(c) \/ DeliveryFailed(c) \/ Release(c)
    \/ ReleaseFails(c)

Environment ==
    \/ SomebodyTypes \/ AgentLeaves \/ AgentRegistered \/ Crash \/ Restart

Next ==
    \/ \E c \in Calls : Start(c) \/ Step(c)
    \/ \E i \in Ids : Reconcile(i) \/ Cancel(i)
    \/ Environment

Spec == Init /\ [][Next]_vars

\* The executor of the main thread polls every task that can run, the store
\* threads return, and every wait of admission has a deadline.
FairSpec == Spec /\ \A c \in Calls : WF_vars(Step(c))

-----------------------------------------------------------------------------
(* Properties.                                                             *)

Written(c) == c \in typed \ takenBack
SameKey(c, d) == id(c) = id(d) /\ (OneWay(c) <=> OneWay(d))
Answers(c) == pc[c] # "answered" /\ pc'[c] = "answered"

\* Every variable of the server, the stores and the pane has its type.
TypeOK ==
    /\ up \in BOOLEAN /\ crashes \in Nat
    /\ pc \in [Calls -> Places]
    /\ input \in [Calls -> Inputs]
    /\ receipt \in [Calls -> Receipts]
    /\ captured \in [Calls -> Nat]
    /\ runtime \in [Calls -> Observations]
    /\ inputsSeen \in [Calls -> Nat]
    /\ inFlight \subseteq Ids
    /\ admissions \in [Ids -> AdmissionRows]
    /\ requests \in [Ids -> RequestRows]
    /\ events \subseteq Ids
    /\ agent \in Incarnations \cup {NoAgent}
    /\ retired \subseteq Incarnations
    /\ generation \in Nat /\ others \in Nat
    /\ typed \subseteq Calls /\ takenBack \subseteq Calls
    /\ disturbed \subseteq Calls
    /\ presses \in [Calls -> Nat]

\* However often a call is repeated with one request_id, and wherever the
\* server stops in between, the prompt reaches the pane at most once per
\* delivery mode; a prompt that was taken back out of agy's box again does
\* not count (admit_agent_prompt, claim and create).
AtMostOnce ==
    \A c, d \in Calls :
        Written(c) /\ Written(d) /\ SameKey(c, d) => c = d

\* An attempt owns its reservation until it ends: no repeat takes an
\* unfinished claim for a lost one, and no request row appears between the
\* lookup of the id and its registration (AdmissionInFlight).
OwnsReservation ==
    \A c \in Calls :
        /\ pc[c] \in Preparing \cup Delivering /\ OneWay(c) =>
              /\ admissions[id(c)].state = "prepared"
              /\ admissions[id(c)].fingerprint = input[c]
        /\ pc[c] \in {"capturing", "refreshing", "validating",
                      "setting_aside", "creating"} /\ ~OneWay(c) =>
              requests[id(c)].state = "none"

\* An accepted receipt means that some attempt with the same arguments
\* pressed Enter, unless the request had been cancelled while admission was
\* still running (accepted receipts of claim, lookup, confirm and save).
AcceptedMeansEntered ==
    \A c \in Calls :
        pc[c] = "answered" /\ receipt[c].status = "accepted" =>
            \/ \E d \in Calls : input[d] = input[c] /\ presses[d] > 0
            \/ ~OneWay(c) /\ requests[id(c)].state = "cancelled"

\* A registration is always some running attempt's: one that the previous
\* server left behind is indeterminate before any call is accepted, so no
\* later prompt can satisfy it (recover_registered).  Only a store that
\* fails can leave one behind.
RegistrationsAreOwned ==
    up /\ ~IoFails => \A i \in Ids :
        requests[i].state = "registered" =>
            \E c \in Calls : /\ pc[c] \in InFlightAt
                             /\ id(c) = i /\ ~OneWay(c)

\* The event stream holds terminal requests only (events_after).
EventsAreTerminal == \A i \in events : requests[i].state \in Terminal

\* A definitive refusal means no prompt bytes were written: neither by the
\* refused call nor by an earlier one with the same arguments.  Stores that
\* fail are the exception, and are reported as internal_failure.
RefusalStep ==
    \A c \in Calls :
        (/\ Answers(c) /\ receipt'[c].written = "no"
         /\ receipt'[c].status # "internal_failure")
            => \A d \in Calls : input[d] = input[c] => ~Written(d)

RefusedMeansUnwritten == [][RefusalStep]_vars

\* A refusal leaves the id free, so that repeating the call admits it: the
\* reservation is gone when the refusal is answered, or the request was
\* cancelled meanwhile (release_unwritten_claim).
FreesIdStep ==
    \A c \in Calls :
        (/\ Answers(c) /\ receipt'[c].written = "no"
         /\ receipt'[c].status \notin {"invalid", "internal_failure"})
            => IF OneWay(c) THEN admissions'[id(c)].state = "none"
               ELSE requests'[id(c)].state \in {"none", "cancelled"}

RefusalFreesId == [][FreesIdStep]_vars

\* A repeat of a one-way call that was written and answered gets the same
\* receipt, however the first attempt ended (claim and finish).  A repeat
\* that gives up waiting, or whose claim fails, does not reach the store.
SameReceiptStep ==
    \A c, d \in Calls :
        (/\ pc[c] = "answered" /\ Written(c) /\ OneWay(c)
         /\ input[d] = input[c]
         /\ Answers(d) /\ pc[d] # "waiting"
         /\ receipt'[d].status # "internal_failure")
            => receipt'[d] = receipt[c]

RepeatReturnsSameReceipt == [][SameReceiptStep]_vars

\* While a one-way call waits for Claude to take its prompt, input from
\* anyone else stops it from pressing Enter again
\* (resubmit_admitted_prompt).
EnterAgainStep ==
    \A c \in Calls :
        pc[c] = "confirming" /\ presses'[c] > presses[c]
            => c \notin disturbed

OthersStopEnter == [][EnterAgainStep]_vars

\* Every call that reached the server is answered, unless the server stops:
\* no wait of admission is without end (admit_agent_prompt).
EveryCallEnds == \A c \in Calls : pc[c] = "waiting" ~> pc[c] \in Ended

-----------------------------------------------------------------------------
(* What admission promises, and how its state stands for that promise.     *)

\* The answer a call got: lost calls have a receipt nobody saw.
Answered(c) ==
    IF pc[c] = "lost" THEN "lost"
    ELSE IF pc[c] # "answered" THEN "none"
    ELSE IF receipt[c].status = "accepted" THEN "accepted"
    ELSE IF receipt[c].status = "internal_failure" THEN "failed"
    ELSE IF receipt[c].written = "no" THEN "refused"
    ELSE "unsure"

Promise ==
    INSTANCE PromptDelivery WITH
        Arguments <- Inputs,
        asks <- input,
        inPane <- typed \ takenBack,
        entered <- {c \in Calls : presses[c] > 0},
        cancelled <- {i \in Ids : requests[i].state = "cancelled"},
        answer <- [c \in Calls |-> Answered(c)]

\* Admission implements PromptDelivery: each of its steps writes, takes
\* back, submits, cancels, answers or loses calls as the promise allows, or
\* is invisible (admit_agent_prompt as a whole).
KeepsPromise == Promise!Spec

-----------------------------------------------------------------------------
(* The inductive invariant behind AtMostOnce and RefusedMeansUnwritten.    *)

\* An id is in flight for one attempt at a time.
OneAttempt ==
    /\ \A c \in Calls : pc[c] \in InFlightAt => id(c) \in inFlight
    /\ \A c, d \in Calls :
          pc[c] \in InFlightAt /\ pc[d] \in InFlightAt /\ id(c) = id(d)
              => c = d

\* Only return-final attempts register a request and save it.
ModesApart ==
    \A c \in Calls :
        pc[c] \in {"creating", "revalidating", "saving"} => ~OneWay(c)

\* A return-final attempt keeps the row it created.
KeepsRequest ==
    \A c \in Calls :
        pc[c] \in {"revalidating", "writing"} \cup Delivering /\ ~OneWay(c)
            => /\ requests[id(c)].state # "none"
               /\ requests[id(c)].fingerprint = input[c]

\* Nobody else has written the prompt of a running attempt, and the attempt
\* itself has not before it writes, nor when it is being refused.
UnwrittenUntilWritten ==
    \A c, d \in Calls :
        /\ SameKey(c, d) /\ c # d
              /\ pc[c] \in {"releasing"} \cup Preparing \cup Delivering
              => ~Written(d)
        /\ pc[c] \in {"releasing"} \cup Preparing => ~Written(c)

\* The row of a written prompt stays, with its fingerprint.
WrittenIsRecorded ==
    \A c \in Calls : Written(c) =>
        IF OneWay(c) THEN /\ admissions[id(c)].state # "none"
                          /\ admissions[id(c)].fingerprint = input[c]
        ELSE /\ requests[id(c)].state # "none"
             /\ requests[id(c)].fingerprint = input[c]

\* No store hands out a refusal.
RowsNeverRefuse ==
    /\ \A i \in Ids : admissions[i].receipt.written # "no"
    /\ \A c \in Calls : pc[c] = "finishing" => receipt[c].written # "no"

IInv ==
    /\ TypeOK
    /\ OneAttempt
    /\ ModesApart
    /\ OwnsReservation
    /\ KeepsRequest
    /\ UnwrittenUntilWritten
    /\ WrittenIsRecorded
    /\ RowsNeverRefuse
    /\ AtMostOnce

-----------------------------------------------------------------------------
(* The inductive invariant behind what receipts say and refusals leave.    *)

\* The arguments for which somebody pressed Enter.
Submitted == {input[d] : d \in {e \in Calls : presses[e] > 0}}

\* What the place of a task says of what it did.
PlacesFit ==
    /\ ~up => \A c \in Calls : pc[c] \in {"new"} \cup Ended
    /\ \A c \in Calls :
          /\ pc[c] \in {"confirming", "finishing"} => OneWay(c)
          /\ pc[c] \in {"typed", "withdrawn", "confirming", "saving",
                        "finishing"} => Written(c)
          /\ pc[c] \in {"confirming", "saving", "finishing"} =>
                presses[c] > 0
          /\ pc[c] = "releasing" => receipt[c].status # "accepted"
    /\ \A c \in typed : pc[c] \in {"releasing"} \cup Delivering \cup Ended
    /\ \A c \in takenBack : pc[c] \in {"releasing"} \cup Ended
    /\ \A c \in disturbed : pc[c] \in {"confirming", "finishing"} \cup Ended

\* Until its outcome is known an attempt's row is as it made it, unless the
\* request was cancelled.
RowsWait ==
    \A c \in Calls :
        /\ pc[c] = "releasing" /\ OneWay(c) =>
              admissions[id(c)].state = "prepared"
        /\ pc[c] = "releasing" /\ ~OneWay(c) =>
              requests[id(c)].state \in {"none", "registered", "cancelled"}
        /\ pc[c] \in {"revalidating", "writing", "typed", "withdrawn"}
              /\ ~OneWay(c) =>
              requests[id(c)].state \in {"registered", "cancelled"}

\* Requests belong to calls, registrations to running ones, and nothing is
\* reported of a request before it is over.
RequestsHaveCalls ==
    \A i \in Ids :
        /\ requests[i].state # "none" => \E c \in Calls : id(c) = i
        /\ requests[i].state \in {"none", "registered"} => i \notin events
        /\ up /\ ~IoFails /\ requests[i].state = "registered" =>
              \E c \in Calls :
                  /\ id(c) = i /\ ~OneWay(c)
                  /\ pc[c] \in {"revalidating", "writing", "releasing"}
                                   \cup Delivering

\* The stores call accepted what was submitted.
RowsTellTruth ==
    \A i \in Ids :
        /\ admissions[i].receipt.status = "accepted" =>
              admissions[i].fingerprint \in Submitted
        /\ requests[i].state \in {"submitted", "bound", "completed",
                                  "aborted", "timed_out"} =>
              requests[i].fingerprint \in Submitted

\* A call that was accepted for a cancelled request can rely on it: no
\* attempt is left that could save another state.
AcceptedOrCancelled ==
    \A c \in Calls :
        pc[c] = "answered" /\ receipt[c].status = "accepted" =>
            \/ input[c] \in Submitted
            \/ /\ ~OneWay(c)
               /\ requests[id(c)].state = "cancelled"
               /\ requests[id(c)].fingerprint = input[c]
               /\ \A d \in Calls :
                     id(d) = id(c) /\ ~OneWay(d) =>
                         pc[d] \notin {"releasing"} \cup Preparing
                                                    \cup Delivering

\* The row of a prompt that was written and answered holds the answer, or
\* could not be saved.
AnswersKept ==
    \A c \in Calls :
        pc[c] = "answered" /\ Written(c) /\ OneWay(c) =>
            \/ /\ admissions[id(c)].state \in {"accepted", "indeterminate"}
               /\ admissions[id(c)].receipt = receipt[c]
            \/ /\ admissions[id(c)].state = "prepared"
               /\ receipt[c] = Indeterminate

\* An input generation seen while confirming is not seen again after others
\* have typed, also when it starts over with another agent.
GenerationsGrow ==
    /\ agent \notin retired
    /\ \A c \in Calls : pc[c] = "confirming" =>
          \/ input[c].incarnation \in retired
          \/ /\ agent = input[c].incarnation
             /\ inputsSeen[c] <= generation
             /\ c \in disturbed => inputsSeen[c] < generation

Honest ==
    /\ PlacesFit
    /\ RowsWait
    /\ RequestsHaveCalls
    /\ RowsTellTruth
    /\ AcceptedOrCancelled
    /\ AnswersKept
    /\ GenerationsGrow

=============================================================================
