----------------------------- MODULE Freezing -----------------------------
(***************************************************************************)
(* Freezing idle agents: the mux freezes the process of an idle Claude     *)
(* agent, and thaws it before input reaches its pane.                      *)
(*                                                                         *)
(* One pane of one mux.  The mux remembers in frozen_agents which process  *)
(* it froze; the process itself is frozen by the operating system, which   *)
(* may refuse either change, and stays frozen when the mux stops.  Each    *)
(* action is one stretch of the main thread.                               *)
(***************************************************************************)
EXTENDS Naturals

CONSTANTS
    FreezeAfter,  \* AGENT_FREEZE_AFTER, in units of time
    ReadsWithin,  \* how long a running agent takes to read its input at most
    FreezeFails,  \* whether the system may refuse to freeze or thaw
    MaxEvents     \* how often users, clients and failures interfere

ASSUME FreezingAssumption ==
    /\ FreezeAfter \in Nat /\ ReadsWithin \in Nat
    /\ ReadsWithin < FreezeAfter
    /\ FreezeFails \in BOOLEAN
    /\ MaxEvents \in Nat

VARIABLES
    up,           \* whether the mux runs
    configured,   \* agent_idle_freeze
    started,      \* agent_freeze_started is set
    registered,   \* the pane has agent metadata and runtime
    frozenAgents, \* frozen_agents holds the pane
    suspended,    \* the process of the pane's agent is frozen
    orphan,       \* a process of an earlier mux is frozen
    sinceInput,   \* time since agent_input_by_pane's input, if any is known
    sinceThaw,    \* time since the last thaw, or since agent_freeze_started
    unread,       \* input the agent has not read yet
    box,          \* what the screen shows in Claude's input box
    status,       \* the status Claude reports in its session record
    events,       \* how often users, clients and failures have interfered
    cleared,      \* history: the agent's registration went, once
    refused       \* history: the system refused to thaw

muxVars == <<up, configured, started>>
frozenVars == <<frozenAgents, suspended, orphan, refused>>
agentVars == <<unread, box, status>>
clockVars == <<sinceInput, sinceThaw>>
paneVars ==
    <<muxVars, registered, frozenVars, clockVars, agentVars, cleared>>
freezingVars == <<paneVars, events>>

Interfere == events < MaxEvents /\ events' = events + 1

\* Times are counted up to FreezeAfter, and an unknown time is that long ago.
Elapse(t) == IF t < FreezeAfter THEN t + 1 ELSE t

-----------------------------------------------------------------------------
(* The process.                                                            *)

\* agent_freeze::thaw: the system may refuse.
ThawProcess ==
    \/ suspended' = FALSE /\ UNCHANGED refused
    \/ FreezeFails /\ suspended /\ refused' = TRUE /\ UNCHANGED suspended

\* Fault: the pane is forgotten before the process is looked up.
ThawForgets ==
    /\ frozenAgents' = FALSE /\ sinceThaw' = 0
    /\ UNCHANGED <<suspended, refused, orphan>>

\* thaw_agent_pane: the pane is forgotten first, whatever thaw answers.
ThawAgentPane ==
    /\ IF frozenAgents
       THEN frozenAgents' = FALSE /\ sinceThaw' = 0 /\ ThawProcess
       ELSE UNCHANGED <<frozenAgents, sinceThaw, suspended, refused>>
    /\ UNCHANGED orphan

\* record_agent_input_generation, before any input reaches the program.
RecordInput ==
    IF registered
    THEN ThawAgentPane /\ sinceInput' = 0
    ELSE UNCHANGED <<frozenVars, clockVars>>

-----------------------------------------------------------------------------
(* Input, and what thaws without input.                                    *)

\* Input through LocalPane: it is in the pty when the action ends.
Write ==
    /\ RecordInput
    /\ unread' = TRUE

\* key_down, key_up, mouse_event, send_paste: the user leaves a draft.
Keys ==
    /\ up /\ Interfere
    /\ Write
    /\ UNCHANGED <<muxVars, registered, box, status, cleared>>

\* resize and focus_changed.
ResizeOrFocus ==
    /\ up /\ frozenAgents
    /\ ThawAgentPane
    /\ UNCHANGED <<muxVars, registered, sinceInput, agentVars, events,
                   cleared>>

-----------------------------------------------------------------------------
(* The freezing tick.                                                      *)

\* Fault: the first tick counts as the start before it thaws leftovers.
StartWithoutLeftovers ==
    /\ started' = TRUE
    /\ sinceThaw' = 0
    /\ UNCHANGED <<orphan, refused>>

\* thaw_leftovers, once per mux, whatever it answers.
StartFreezing ==
    /\ started' = TRUE
    /\ sinceThaw' = 0
    /\ \/ orphan' = FALSE /\ UNCHANGED refused
       \/ FreezeFails /\ orphan /\ refused' = TRUE /\ UNCHANGED orphan

FirstFreezeTick ==
    /\ up /\ configured /\ ~started
    /\ StartFreezing
    /\ UNCHANGED <<up, configured, registered, frozenAgents, suspended,
                   sinceInput, agentVars, events, cleared>>

\* Fault: the last input of the pane is not looked at.
MayFreezeSoon ==
    /\ registered /\ ~frozenAgents
    /\ box = "empty"
    /\ status = "idle"

\* Nothing prevents freezing: no input and no thaw for AGENT_FREEZE_AFTER,
\* no draft on the screen, and Claude reports itself idle
\* (claude_freeze_blocker, whose other reasons do not change).
MayFreeze ==
    /\ registered /\ ~frozenAgents
    /\ sinceInput = FreezeAfter /\ sinceThaw = FreezeAfter
    /\ box = "empty"
    /\ status = "idle"

\* freeze_idle_agents, the first tick's loop included: it never freezes then.
FreezeTick ==
    /\ up /\ configured /\ started
    /\ MayFreeze
    /\ \/ frozenAgents' = TRUE /\ suspended' = TRUE
       \/ FreezeFails /\ UNCHANGED <<frozenAgents, suspended>>
    /\ UNCHANGED <<muxVars, registered, orphan, refused, clockVars, agentVars,
                   events, cleared>>

-----------------------------------------------------------------------------
(* The agent's process (external), its registration and the mux's life.    *)

\* A running agent reads what was written and shows it, or starts its turn.
AgentReads ==
    /\ ~suspended /\ unread
    /\ unread' = FALSE
    /\ \/ box' \in {"empty", "draft"} /\ UNCHANGED status
       \/ box' = "empty" /\ status' = "working"
    /\ UNCHANGED <<muxVars, registered, frozenVars, clockVars, events,
                   cleared>>

AgentFinishes ==
    /\ ~suspended /\ status = "working"
    /\ status' = "idle"
    /\ UNCHANGED <<muxVars, registered, frozenVars, clockVars, unread, box,
                   events, cleared>>

\* clear_agent_metadata, by wakterm agent clear: the inputs counted for the
\* pane are forgotten, what is frozen is not.
ClearAgentMetadata ==
    /\ up /\ registered /\ Interfere
    /\ registered' = FALSE
    /\ cleared' = TRUE
    /\ sinceInput' = FreezeAfter
    /\ UNCHANGED <<muxVars, frozenVars, sinceThaw, agentVars>>

\* set_agent_metadata
SetAgentMetadata ==
    /\ up /\ ~registered
    /\ registered' = TRUE
    /\ UNCHANGED <<muxVars, frozenVars, clockVars, agentVars, events, cleared>>

\* remove_pane_internal: kill asks the process to exit, which a frozen one
\* cannot do.  The agent's next pane has an id of its own.
RemovePane ==
    /\ up /\ Interfere
    /\ registered' = FALSE /\ frozenAgents' = FALSE
    /\ suspended' = FALSE
    /\ orphan' = (orphan \/ suspended)
    /\ sinceInput' = FreezeAfter
    /\ unread' = FALSE /\ box' = "empty" /\ status' = "idle"
    /\ cleared' = TRUE
    /\ UNCHANGED <<muxVars, sinceThaw, refused>>

\* The configuration is reloaded.
Configure ==
    /\ up /\ Interfere
    /\ configured' = ~configured
    /\ UNCHANGED <<up, started, registered, frozenVars, clockVars,
                   agentVars, cleared>>

\* The mux stops: its panes are gone, a process it froze stays frozen.
StopMux ==
    /\ up /\ Interfere
    /\ up' = FALSE
    /\ started' = FALSE /\ registered' = FALSE /\ frozenAgents' = FALSE
    /\ suspended' = FALSE
    /\ orphan' = (orphan \/ suspended)
    /\ unread' = FALSE /\ box' = "empty" /\ status' = "idle"
    /\ sinceInput' = FreezeAfter /\ sinceThaw' = FreezeAfter
    /\ UNCHANGED <<configured, refused, cleared>>

\* The mux starts and the restored session registers the pane's agent anew.
StartMux ==
    /\ ~up
    /\ up' = TRUE
    /\ registered' = TRUE
    /\ UNCHANGED <<configured, started, frozenVars, clockVars,
                   agentVars, events, cleared>>

\* Time passes; a running agent has read its input before ReadsWithin.
PassTime ==
    /\ unread /\ ~suspended =>
          sinceInput < ReadsWithin \/ sinceThaw < ReadsWithin
    /\ sinceInput' = Elapse(sinceInput)
    /\ sinceThaw' = Elapse(sinceThaw)

FreezingInit ==
    /\ up = TRUE /\ configured \in BOOLEAN /\ started = FALSE
    /\ registered = TRUE
    /\ frozenAgents = FALSE /\ suspended = FALSE /\ orphan = FALSE
    /\ sinceInput = FreezeAfter /\ sinceThaw = FreezeAfter
    /\ unread = FALSE /\ box = "empty" /\ status = "idle"
    /\ events = 0 /\ cleared = FALSE /\ refused = FALSE

\* What the main thread does about freezing and leaves reminders alone.
FreezingStep ==
    \/ Keys \/ ResizeOrFocus \/ FirstFreezeTick \/ FreezeTick
    \/ ClearAgentMetadata \/ SetAgentMetadata \/ Configure

AgentStep == AgentReads \/ AgentFinishes

FreezingTypeOK ==
    /\ up \in BOOLEAN /\ configured \in BOOLEAN
    /\ started \in BOOLEAN /\ registered \in BOOLEAN
    /\ frozenAgents \in BOOLEAN /\ suspended \in BOOLEAN
    /\ orphan \in BOOLEAN /\ refused \in BOOLEAN
    /\ sinceInput \in 0..FreezeAfter /\ sinceThaw \in 0..FreezeAfter
    /\ unread \in BOOLEAN /\ box \in {"empty", "draft"}
    /\ status \in {"idle", "working"}
    /\ events \in Nat /\ cleared \in BOOLEAN

=============================================================================
