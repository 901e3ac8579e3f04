--------------------------- MODULE RemindersProofs ---------------------------
(***************************************************************************)
(* What is proved of reminders and of freezing, for any number of          *)
(* reminders, any due times and intervals, and any times of the clock.     *)
(***************************************************************************)
EXTENDS Reminders, TLAPS

-----------------------------------------------------------------------------
(* Types.                                                                  *)

\* Input, and the thaw before it, keep the types.
LEMMA WriteTypes ==
    ASSUME FreezingTypeOK, Write
    PROVE  /\ sinceInput' \in 0..FreezeAfter /\ sinceThaw' \in 0..FreezeAfter
           /\ frozenAgents' \in BOOLEAN /\ suspended' \in BOOLEAN
           /\ refused' \in BOOLEAN /\ orphan' \in BOOLEAN
PROOF
<1>0. 0 \in 0..FreezeAfter
  BY FreezingAssumption
<1>1. CASE ~registered
  BY <1>1 DEF FreezingTypeOK, Write, RecordInput, frozenVars, clockVars
<1>2. CASE registered
  BY <1>0, <1>2 DEF FreezingTypeOK, Write, RecordInput, ThawAgentPane, ThawProcess
<1>3. QED
  BY <1>1, <1>2

\* What a step of the pane's freezing may do keeps the types.
LEMMA FreezingTypes ==
    ASSUME FreezingTypeOK, FreezingStep \/ AgentStep
    PROVE  FreezingTypeOK'
PROOF
<1>0. 0 \in 0..FreezeAfter /\ FreezeAfter \in 0..FreezeAfter
  BY FreezingAssumption
<1> USE <1>0 DEF FreezingTypeOK, muxVars, frozenVars, clockVars, agentVars
<1>1. CASE Keys
  <2>1. events' \in Nat
    BY <1>1 DEF Keys, Interfere
  <2>2. /\ sinceInput' \in 0..FreezeAfter /\ sinceThaw' \in 0..FreezeAfter
        /\ frozenAgents' \in BOOLEAN /\ suspended' \in BOOLEAN
        /\ refused' \in BOOLEAN /\ orphan' \in BOOLEAN
    BY <1>1, WriteTypes DEF Keys
  <2>3. QED
    BY <1>1, <2>1, <2>2 DEF Keys, Write
<1>2. CASE ResizeOrFocus
  BY <1>2 DEF ResizeOrFocus, ThawAgentPane, ThawProcess
<1>3. CASE FirstFreezeTick
  BY <1>3 DEF FirstFreezeTick, StartFreezing
<1>4. CASE FreezeTick
  BY <1>4 DEF FreezeTick
<1>5. CASE ClearAgentMetadata
  <2>1. events' \in Nat
    BY <1>5 DEF ClearAgentMetadata, Interfere
  <2>2. QED
    BY <1>5, <2>1 DEF ClearAgentMetadata
<1>6. CASE SetAgentMetadata
  BY <1>6 DEF SetAgentMetadata
<1>7. CASE Configure
  BY <1>7 DEF Configure, Interfere
<1>8. CASE AgentReads
  BY <1>8 DEF AgentReads
<1>9. CASE AgentFinishes
  BY <1>9 DEF AgentFinishes
<1>10. QED
  BY <1>1, <1>2, <1>3, <1>4, <1>5, <1>6, <1>7, <1>8, <1>9
  DEF FreezingStep, AgentStep

\* What the task holds, and what is stored and counted beside it.
TaskTypeOK ==
    /\ batch \subseteq Copies /\ batchNow \in Nat
    /\ place \in {"sleeping", "next", "stashing", "typed"}
    /\ place = "sleeping" <=> batch = {}
    /\ current \in Copies \cup {Nobody} /\ lost \in BOOLEAN
    /\ events \in Nat

RestTypeOK ==
    /\ now \in Nat
    /\ dialog \in BOOLEAN
    /\ created \subseteq Ids /\ cancelled \subseteq Ids
    /\ lastSent \in [Ids -> Nat]

-----------------------------------------------------------------------------
(* The task and the store.                                                 *)

\* The batch goes on, or is given up.
LEMMA BatchGoesOn ==
    ASSUME TaskTypeOK, CopiesMoveOn, NEW left \in SUBSET batch,
           Continue(left) \/ GiveUp, UNCHANGED created,
           \A r \in left : lastSent'[r.id] = lastSent[r.id]
    PROVE  TaskTypeOK' /\ CopiesMoveOn'
PROOF
<1>1. CASE Continue(left)
  BY <1>1 DEF Continue, TaskTypeOK, CopiesMoveOn
<1>2. CASE GiveUp
  <2>1. events' \in Nat
    BY <1>2 DEF GiveUp, Interfere, TaskTypeOK
  <2>2. QED
    BY <1>2, <2>1 DEF GiveUp, TaskTypeOK, CopiesMoveOn
<1>3. QED
  BY <1>1, <1>2

\* A delivery that failed: at most the error is written, to a row that is due
\* when the copy was.
LEMMA NotDeliveredKeeps ==
    ASSUME TypeOK, RowsMoveOn, CopiesMoveOn, NEW r \in batch,
           NotDelivered(r), UNCHANGED <<created, lastSent>>
    PROVE  /\ TaskTypeOK' /\ CopiesMoveOn'
           /\ store' \in [Ids -> Rows] /\ RowsMoveOn'
PROOF
<1>1. TaskTypeOK' /\ CopiesMoveOn'
  <2>1. TaskTypeOK
    BY DEF TypeOK, FreezingTypeOK, TaskTypeOK
  <2>2. Continue(batch \ {r}) \/ GiveUp
    BY DEF NotDelivered
  <2>3. QED
    BY <2>1, <2>2, BatchGoesOn
<1>2. /\ r.id \in Ids /\ r.due \in Nat /\ Row(r.due, TRUE) \in Rows
      /\ Row(r.due, TRUE).due = r.due
  BY DEF TypeOK, Copies, Rows, Row
<1>3. store' \in {store, [store EXCEPT ![r.id] = Row(r.due, TRUE)]}
  BY DEF NotDelivered
<1>4. store' \in [Ids -> Rows]
  BY <1>2, <1>3 DEF TypeOK
<1>5. RowsMoveOn'
  BY <1>2, <1>3 DEF TypeOK, RowsMoveOn, CopiesMoveOn
<1>6. QED
  BY <1>1, <1>4, <1>5

\* after_delivery: the next due time is after the moment of the batch.
LEMMA AfterDeliveryMovesOn ==
    ASSUME NEW r \in Copies, NEW at \in Nat
    PROVE  /\ AfterDelivery(r, at) \in Rows
           /\ AfterDelivery(r, at).stored => AfterDelivery(r, at).due >= at + 1
PROOF
<1>1. Every[r.id] \in Nat /\ r.due \in Nat /\ r.id \in Ids
  BY RemindersAssumption DEF Copies
<1>2. CASE Every[r.id] = 0
  BY <1>1, <1>2 DEF AfterDelivery, Gone, Rows
<1>3. CASE Every[r.id] # 0 /\ r.due + Every[r.id] <= at
  BY <1>1, <1>3 DEF AfterDelivery, Row, Rows
<1>4. CASE Every[r.id] # 0 /\ ~(r.due + Every[r.id] <= at)
  BY <1>1, <1>4 DEF AfterDelivery, Row, Rows
<1>5. QED
  BY <1>2, <1>3, <1>4

\* What the task and the store satisfy together.
DeliveryInv ==
    /\ TaskTypeOK /\ RestTypeOK /\ store \in [Ids -> Rows]
    /\ RowsMoveOn /\ CopiesMoveOn

\* The whole, by its two halves.
LEMMA Halves ==
    /\ IInv <=> FreezingTypeOK /\ FrozenIsKnown /\ DeliveryInv
    /\ IInv' <=> FreezingTypeOK' /\ FrozenIsKnown' /\ DeliveryInv'
PROOF
<1>1. IInv <=> FreezingTypeOK /\ FrozenIsKnown /\ DeliveryInv
  BY DEF IInv, TypeOK, FreezingTypeOK, DeliveryInv, TaskTypeOK, RestTypeOK
<1>2. IInv' <=> FreezingTypeOK' /\ FrozenIsKnown' /\ DeliveryInv'
  BY DEF IInv, TypeOK, FreezingTypeOK, DeliveryInv, TaskTypeOK, RestTypeOK
<1>3. QED
  BY <1>1, <1>2

\* The task, from one await to the next, keeps its half.
LEMMA DeliverKeeps ==
    ASSUME IInv, Deliver
    PROVE  DeliveryInv'
PROOF
<1>0. TypeOK /\ DeliveryInv /\ TaskTypeOK /\ CopiesMoveOn /\ RowsMoveOn
  BY Halves DEF IInv, DeliveryInv
<1>1. CASE NotHere
  <2>1. PICK r \in batch : Continue(batch \ {r})
    BY <1>1 DEF NotHere, Soonest
  <2>2. UNCHANGED <<now, store, dialog, created, cancelled, lastSent>>
    BY <1>1 DEF NotHere
  <2>3. TaskTypeOK' /\ CopiesMoveOn'
    BY <1>0, <2>1, <2>2, BatchGoesOn
  <2>4. QED
    BY <1>0, <2>2, <2>3 DEF DeliveryInv, RestTypeOK, RowsMoveOn
<1>2. CASE Blocked
  <2>1. PICK r \in batch : NotDelivered(r)
    BY <1>2 DEF Blocked, Soonest
  <2>2. UNCHANGED <<now, dialog, created, cancelled, lastSent>>
    BY <1>2 DEF Blocked
  <2>3. /\ TaskTypeOK' /\ CopiesMoveOn'
        /\ store' \in [Ids -> Rows] /\ RowsMoveOn'
    BY <1>0, <2>1, <2>2, NotDeliveredKeeps
  <2>4. QED
    BY <1>0, <2>2, <2>3 DEF DeliveryInv, RestTypeOK
<1>3. CASE Type \/ Stash
  <2>1. /\ current' \in batch /\ place' \in {"typed", "stashing"}
        /\ UNCHANGED <<events, now, store, batch, batchNow, lost, dialog,
                       created, cancelled, lastSent>>
    BY <1>3 DEF Type, Stash, Soonest
  <2>2. TaskTypeOK' /\ CopiesMoveOn'
    BY <1>0, <2>1 DEF TaskTypeOK, CopiesMoveOn
  <2>3. QED
    BY <1>0, <2>1, <2>2 DEF DeliveryInv, RestTypeOK, RowsMoveOn
<1>4. CASE Stashed
  <2>1. /\ current \in batch
        /\ UNCHANGED <<now, dialog, created, cancelled, lastSent>>
    BY <1>0, <1>4 DEF Stashed, CopiesMoveOn
  <2>2. /\ TaskTypeOK' /\ CopiesMoveOn'
        /\ store' \in [Ids -> Rows] /\ RowsMoveOn'
    <3>1. CASE NotDelivered(current)
      BY <1>0, <2>1, <3>1, NotDeliveredKeeps
    <3>2. CASE /\ place' = "typed"
               /\ UNCHANGED <<events, store, batch, batchNow, current, lost>>
      BY <1>0, <2>1, <3>2
      DEF TypeOK, TaskTypeOK, CopiesMoveOn, RowsMoveOn
    <3>3. QED
      BY <1>4, <3>1, <3>2 DEF Stashed
  <2>3. QED
    BY <1>0, <2>1, <2>2 DEF DeliveryInv, RestTypeOK
<1>5. CASE PressEnter
  <2>1. /\ current \in batch /\ current \in Copies /\ current.id \in Ids
        /\ UNCHANGED <<now, dialog, created, cancelled>>
    BY <1>0, <1>5 DEF PressEnter, CopiesMoveOn, TaskTypeOK, Copies
  <2>2. CASE /\ store' = [store EXCEPT ![current.id] =
                             AfterDelivery(current, batchNow)]
             /\ lastSent' = [lastSent EXCEPT ![current.id] = batchNow + 1]
             /\ Continue(batch \ {current})
    <3>1. /\ batchNow \in Nat /\ AfterDelivery(current, batchNow) \in Rows
          /\ AfterDelivery(current, batchNow).stored =>
                AfterDelivery(current, batchNow).due >= batchNow + 1
      BY <1>0, <2>1, AfterDeliveryMovesOn DEF TaskTypeOK
    <3>2. /\ lastSent' \in [Ids -> Nat] /\ store' \in [Ids -> Rows]
          /\ lastSent'[current.id] = batchNow + 1
          /\ store'[current.id] = AfterDelivery(current, batchNow)
          /\ \A i \in Ids \ {current.id} :
                lastSent'[i] = lastSent[i] /\ store'[i] = store[i]
      <4> DEFINE row == AfterDelivery(current, batchNow)
                 at == batchNow + 1
      <4>1. at \in Nat /\ row \in Rows
        BY <3>1
      <4> HIDE DEF row, at
      <4>2. /\ lastSent' = [lastSent EXCEPT ![current.id] = at]
            /\ store' = [store EXCEPT ![current.id] = row]
        BY <2>2 DEF row, at
      <4>3. /\ lastSent' \in [Ids -> Nat] /\ store' \in [Ids -> Rows]
            /\ lastSent'[current.id] = at /\ store'[current.id] = row
            /\ \A i \in Ids \ {current.id} :
                  lastSent'[i] = lastSent[i] /\ store'[i] = store[i]
        BY <1>0, <2>1, <4>1, <4>2 DEF TypeOK
      <4>4. QED
        BY <4>3 DEF row, at
    <3>3. \A r \in batch \ {current} : r.id \in Ids \ {current.id}
      BY <1>0, <2>1 DEF CopiesMoveOn, TaskTypeOK, Copies
    <3>4. TaskTypeOK' /\ CopiesMoveOn'
      BY <1>0, <2>1, <2>2, <3>2, <3>3, BatchGoesOn
    <3>5. RowsMoveOn'
      BY <1>0, <2>1, <3>1, <3>2 DEF RowsMoveOn, CopiesMoveOn
    <3>6. QED
      BY <1>0, <2>1, <3>2, <3>4, <3>5 DEF DeliveryInv, RestTypeOK
  <2>3. CASE GiveUp /\ UNCHANGED <<store, lastSent>>
    <3>1. TaskTypeOK' /\ CopiesMoveOn'
      BY <1>0, <2>1, <2>3, BatchGoesOn
    <3>2. QED
      BY <1>0, <2>1, <2>3, <3>1 DEF DeliveryInv, RestTypeOK, RowsMoveOn
  <2>4. CASE NotDelivered(current) /\ UNCHANGED lastSent
    <3>1. /\ TaskTypeOK' /\ CopiesMoveOn'
          /\ store' \in [Ids -> Rows] /\ RowsMoveOn'
      BY <1>0, <2>1, <2>4, NotDeliveredKeeps
    <3>2. QED
      BY <1>0, <2>1, <2>4, <3>1 DEF DeliveryInv, RestTypeOK
  <2>5. QED
    BY <1>5, <2>2, <2>3, <2>4 DEF PressEnter
<1>6. QED
  BY <1>1, <1>2, <1>3, <1>4, <1>5 DEF Deliver, NextReminder

\* Clients create and cancel, and the task reads what is due.
LEMMA StoreKeeps ==
    ASSUME IInv, ReadDue \/ \E i \in Ids : Create(i) \/ Cancel(i)
    PROVE  DeliveryInv'
PROOF
<1>0. /\ DeliveryInv /\ TaskTypeOK /\ CopiesMoveOn /\ RowsMoveOn /\ RestTypeOK
      /\ store \in [Ids -> Rows]
  BY Halves DEF DeliveryInv
<1>1. ASSUME NEW i \in Ids, Create(i)
      PROVE  DeliveryInv'
  <2>1. PICK due \in Dues : store' = [store EXCEPT ![i] = Row(due, FALSE)]
    BY <1>1 DEF Create
  <2>2. /\ i \notin created /\ created' = created \cup {i}
        /\ UNCHANGED <<events, now, batch, batchNow, place, current, lost,
                       dialog, cancelled, lastSent>>
    BY <1>1 DEF Create, taskVars, freezingVars
  <2>3. /\ Row(due, FALSE) \in Rows /\ Row(due, FALSE).due = due
        /\ due \in Nat /\ due >= 0
    BY RemindersAssumption DEF Row, Rows
  <2>4. store' \in [Ids -> Rows] /\ RowsMoveOn'
    BY <1>0, <2>1, <2>2, <2>3 DEF RowsMoveOn, RestTypeOK
  <2>5. TaskTypeOK' /\ CopiesMoveOn'
    BY <1>0, <2>2 DEF TaskTypeOK, CopiesMoveOn
  <2>6. QED
    BY <1>0, <2>2, <2>4, <2>5 DEF DeliveryInv, RestTypeOK
<1>2. ASSUME NEW i \in Ids, Cancel(i)
      PROVE  DeliveryInv'
  <2>1. /\ store' = [store EXCEPT ![i] = Gone]
        /\ cancelled' = cancelled \cup {i}
        /\ UNCHANGED <<events, now, batch, batchNow, place, current, lost,
                       dialog, created, lastSent>>
    BY <1>2 DEF Cancel, taskVars, freezingVars
  <2>2. store' \in [Ids -> Rows] /\ RowsMoveOn'
    BY <1>0, <2>1 DEF RowsMoveOn, RestTypeOK, Gone, Rows
  <2>3. TaskTypeOK' /\ CopiesMoveOn'
    BY <1>0, <2>1 DEF TaskTypeOK, CopiesMoveOn
  <2>4. QED
    BY <1>0, <2>1, <2>2, <2>3 DEF DeliveryInv, RestTypeOK
<1>3. CASE ReadDue
  <2> DEFINE due == {i \in Ids : store[i].stored /\ store[i].due <= now}
  <2>1. /\ batch' = {Copy(i) : i \in due} /\ due \subseteq Ids
        /\ \A i \in due : store[i].stored
    BY <1>3 DEF ReadDue
  <2>2. /\ batchNow' = now /\ place' = "next"
        /\ UNCHANGED <<events, now, store, current, lost, dialog, created,
                       cancelled, lastSent>>
    BY <1>3 DEF ReadDue, freezingVars
  <2> HIDE DEF due
  <2>3. \A i \in due : /\ Copy(i) \in Copies /\ Copy(i).id = i
                        /\ Copy(i).due = store[i].due
    BY <1>0, <2>1 DEF Copy, Copies, Rows
  <2>4. TaskTypeOK'
    <3>1. batch' # {}
      BY <1>3, <2>1 DEF ReadDue, due
    <3>2. QED
      BY <1>0, <2>1, <2>2, <2>3, <3>1 DEF TaskTypeOK, RestTypeOK
  <2>5. CopiesMoveOn'
    BY <1>0, <2>1, <2>2, <2>3 DEF CopiesMoveOn, RowsMoveOn
  <2>6. QED
    BY <1>0, <2>2, <2>4, <2>5 DEF DeliveryInv, RestTypeOK, RowsMoveOn
<1>4. QED
  BY <1>1, <1>2, <1>3

\* Every other step leaves store and batch as they are, or ends the batch.
LEMMA OthersKeep ==
    ASSUME IInv,
           \/ RemoveAgentPane \/ OpenDialog \/ CloseDialog \/ Tick
           \/ Stop \/ Restart
           \/ (FreezingStep \/ AgentStep) /\ UNCHANGED reminderVars
    PROVE  DeliveryInv'
PROOF
<1>0. /\ DeliveryInv /\ TaskTypeOK /\ CopiesMoveOn /\ RowsMoveOn /\ RestTypeOK
      /\ store \in [Ids -> Rows] /\ FreezingTypeOK
  BY Halves DEF DeliveryInv
<1>1. events' \in Nat
  <2>1. CASE RemoveAgentPane \/ OpenDialog \/ Stop
    BY <1>0, <2>1 DEF RemoveAgentPane, RemovePane, OpenDialog, Stop, StopMux,
                      Interfere, TaskTypeOK
  <2>2. CASE CloseDialog \/ Tick \/ Restart
    BY <1>0, <2>2 DEF CloseDialog, Tick, Restart, StartMux, freezingVars,
                      TaskTypeOK
  <2>3. CASE FreezingStep \/ AgentStep
    BY <1>0, <2>3, FreezingTypes DEF FreezingTypeOK
  <2>4. QED
    BY <2>1, <2>2, <2>3
<1>2. UNCHANGED <<store, created, cancelled, lastSent>>
  BY DEF RemoveAgentPane, OpenDialog, CloseDialog, Tick, Stop, Restart,
         reminderVars
<1>3. now' \in Nat
  BY <1>0 DEF RemoveAgentPane, OpenDialog, CloseDialog, Tick, Stop, Restart,
              reminderVars, RestTypeOK
<1>4. dialog' \in BOOLEAN
  BY <1>0 DEF RemoveAgentPane, OpenDialog, CloseDialog, Tick, Stop, Restart,
              reminderVars, RestTypeOK
<1>5. lost' \in BOOLEAN
  <2>1. CASE RemoveAgentPane
    <3>1. lost' = (place \in {"stashing", "typed"})
      BY <2>1 DEF RemoveAgentPane
    <3>2. QED
      BY <3>1
  <2>2. CASE lost' = lost \/ lost' = FALSE
    BY <1>0, <2>2 DEF TaskTypeOK
  <2>3. QED
    BY <2>1, <2>2 DEF OpenDialog, CloseDialog, Tick, Stop, Restart,
                      reminderVars, taskVars
<1>6. \/ UNCHANGED <<batch, batchNow, place, current>>
      \/ batch' = {} /\ batchNow' = 0 /\ place' = "sleeping"
         /\ current' = Nobody
  BY DEF RemoveAgentPane, OpenDialog, CloseDialog, Tick, Stop, Restart,
         reminderVars, taskVars
<1>7. TaskTypeOK' /\ CopiesMoveOn'
  BY <1>0, <1>1, <1>2, <1>5, <1>6 DEF TaskTypeOK, CopiesMoveOn
<1>8. QED
  BY <1>0, <1>2, <1>3, <1>4, <1>7 DEF DeliveryInv, RestTypeOK, RowsMoveOn

-----------------------------------------------------------------------------
(* The pane.                                                               *)

\* thaw_agent_pane leaves no frozen process behind, unless it is refused.
LEMMA ThawLeavesNone ==
    ASSUME FrozenIsKnown, ThawAgentPane
    PROVE  ~suspended' \/ refused'
PROOF
<1>1. CASE frozenAgents
  BY <1>1 DEF ThawAgentPane, ThawProcess
<1>2. CASE ~frozenAgents
  BY <1>2 DEF ThawAgentPane, FrozenIsKnown
<1>3. QED
  BY <1>1, <1>2

\* Input that is recorded keeps the mux's knowledge of what is frozen.
LEMMA WriteKeepsKnown ==
    ASSUME FrozenIsKnown, Write
    PROVE  FrozenIsKnown' /\ (registered => ~suspended' \/ refused')
PROOF
<1>1. CASE registered
  BY <1>1, ThawLeavesNone DEF Write, RecordInput, FrozenIsKnown
<1>2. CASE ~registered
  BY <1>2 DEF Write, RecordInput, FrozenIsKnown, frozenVars
<1>3. QED
  BY <1>1, <1>2

\* Every step keeps the pane's half, given the count of events.
LEMMA PaneKeeps ==
    ASSUME IInv, Next, events' \in Nat
    PROVE  FreezingTypeOK' /\ FrozenIsKnown'
PROOF
<1>0. FreezingTypeOK /\ FrozenIsKnown
  BY Halves
<1>1. ASSUME UNCHANGED paneVars
      PROVE  FreezingTypeOK' /\ FrozenIsKnown'
  BY <1>0, <1>1 DEF paneVars, muxVars, frozenVars, clockVars, agentVars,
                    FreezingTypeOK, FrozenIsKnown
<1>2. ASSUME Write \/ UNCHANGED <<frozenVars, clockVars, unread>>,
             UNCHANGED <<muxVars, registered, box, status, cleared>>
      PROVE  FreezingTypeOK' /\ FrozenIsKnown'
  <2>1. CASE Write
    <3>1. unread' = TRUE
      BY <2>1 DEF Write
    <3>2. /\ sinceInput' \in 0..FreezeAfter /\ sinceThaw' \in 0..FreezeAfter
          /\ frozenAgents' \in BOOLEAN /\ suspended' \in BOOLEAN
          /\ refused' \in BOOLEAN /\ orphan' \in BOOLEAN
      BY <1>0, <2>1, WriteTypes
    <3>3. FrozenIsKnown'
      BY <1>0, <2>1, WriteKeepsKnown
    <3>4. QED
      BY <1>0, <1>2, <3>1, <3>2, <3>3 DEF FreezingTypeOK, muxVars
  <2>2. CASE UNCHANGED <<frozenVars, clockVars, unread>>
    BY <1>0, <1>2, <2>2 DEF muxVars, frozenVars, clockVars, FreezingTypeOK,
                            FrozenIsKnown
  <2>3. QED
    BY <1>2, <2>1, <2>2
<1>3. CASE NotHere \/ Blocked
  <2>1. UNCHANGED paneVars
    BY <1>3 DEF NotHere, Blocked
  <2>2. QED
    BY <1>1, <2>1
<1>4. CASE Type \/ Stash \/ Stashed \/ PressEnter
  <2>1. /\ Write \/ UNCHANGED <<frozenVars, clockVars, unread>>
        /\ UNCHANGED <<muxVars, registered, box, status, cleared>>
    BY <1>4 DEF Type, Stash, Stashed, PressEnter, WriteHeld
  <2>2. QED
    BY <1>2, <2>1
<1>5. CASE FreezingStep \/ AgentStep
  <2>1. FreezingTypeOK'
    BY <1>0, <1>5, FreezingTypes
  <2>2. CASE Keys
    BY <1>0, <2>1, <2>2, WriteKeepsKnown DEF Keys
  <2>3. CASE ResizeOrFocus
    BY <1>0, <2>1, <2>3, ThawLeavesNone DEF ResizeOrFocus, FrozenIsKnown
  <2>4. CASE FirstFreezeTick
    BY <1>0, <2>1, <2>4 DEF FirstFreezeTick, StartFreezing, FrozenIsKnown
  <2>5. CASE FreezeTick
    BY <1>0, <2>1, <2>5 DEF FreezeTick, FrozenIsKnown
  <2>6. CASE \/ ClearAgentMetadata \/ SetAgentMetadata \/ Configure
             \/ AgentReads \/ AgentFinishes
    BY <1>0, <2>1, <2>6 DEF ClearAgentMetadata, SetAgentMetadata, Configure,
                      AgentReads, AgentFinishes, frozenVars, FrozenIsKnown
  <2>7. QED
    BY <1>5, <2>1, <2>2, <2>3, <2>4, <2>5, <2>6 DEF FreezingStep, AgentStep
<1>6. CASE (\E i \in Ids : Create(i) \/ Cancel(i)) \/ ReadDue \/ CloseDialog
  <2>1. UNCHANGED paneVars
    BY <1>6 DEF Create, Cancel, ReadDue, CloseDialog, freezingVars
  <2>2. QED
    BY <1>1, <2>1
<1>7. CASE OpenDialog
  <2>1. UNCHANGED paneVars
    BY <1>7 DEF OpenDialog, paneVars
  <2>2. QED
    BY <1>1, <2>1
<1>8. CASE RemoveAgentPane
  <2>1. orphan' \in BOOLEAN
    <3>1. orphan' = (orphan \/ suspended)
      BY <1>8 DEF RemoveAgentPane, RemovePane
    <3>2. QED
      BY <3>1
  <2>2. sinceInput' \in 0..FreezeAfter
    BY <1>8, FreezingAssumption DEF RemoveAgentPane, RemovePane
  <2>3. QED
    BY <1>0, <1>8, <2>1, <2>2 DEF RemoveAgentPane, RemovePane, muxVars,
                                  FreezingTypeOK, FrozenIsKnown
<1>9. CASE Stop
  <2>1. orphan' \in BOOLEAN
    <3>1. orphan' = (orphan \/ suspended)
      BY <1>9 DEF Stop, StopMux
    <3>2. QED
      BY <3>1
  <2>2. sinceInput' \in 0..FreezeAfter /\ sinceThaw' \in 0..FreezeAfter
    BY <1>9, FreezingAssumption DEF Stop, StopMux
  <2>3. QED
    BY <1>0, <1>9, <2>1, <2>2 DEF Stop, StopMux, FreezingTypeOK, FrozenIsKnown
<1>10. CASE Restart
  BY <1>0, <1>10 DEF Restart, StartMux, frozenVars, clockVars, agentVars,
                     FreezingTypeOK, FrozenIsKnown
<1>11. CASE Tick
  <2>1. sinceInput' \in 0..FreezeAfter /\ sinceThaw' \in 0..FreezeAfter
    BY <1>0, <1>11, FreezingAssumption
    DEF Tick, PassTime, Elapse, FreezingTypeOK
  <2>2. QED
    BY <1>0, <1>11, <2>1 DEF Tick, muxVars, frozenVars, agentVars,
                             FreezingTypeOK, FrozenIsKnown
<1>12. QED
  BY <1>3, <1>4, <1>5, <1>6, <1>7, <1>8, <1>9, <1>10, <1>11
  DEF Next, NextReminder, MainThread, Outside

-----------------------------------------------------------------------------
(* The invariant, and what follows from it.                                *)

\* The mux as it starts, and nothing stored.
LEMMA InitKeeps == Init => IInv
PROOF
<1> SUFFICES ASSUME Init PROVE IInv
  OBVIOUS
<1>1. FreezingTypeOK /\ FrozenIsKnown
  <2>1. FreezeAfter \in 0..FreezeAfter /\ 0 \in Nat
    BY FreezingAssumption
  <2>2. QED
    BY <2>1 DEF Init, FreezingInit, FreezingTypeOK, FrozenIsKnown
<1>2. Gone \in Rows /\ ~Gone.stored
  BY DEF Gone, Rows
<1>3. store \in [Ids -> Rows] /\ lastSent \in [Ids -> Nat] /\ RowsMoveOn
  BY <1>2 DEF Init, RowsMoveOn
<1>4. TaskTypeOK /\ RestTypeOK /\ CopiesMoveOn
  BY <1>3 DEF Init, FreezingInit, TaskTypeOK, RestTypeOK, CopiesMoveOn
<1>5. QED
  BY <1>1, <1>3, <1>4, Halves DEF DeliveryInv

\* Every step keeps it.
LEMMA NextKeeps == IInv /\ [Next]_vars => IInv'
PROOF
<1> SUFFICES ASSUME IInv, [Next]_vars PROVE IInv'
  OBVIOUS
<1>1. CASE UNCHANGED vars
  <2>1. UNCHANGED <<freezingVars, reminderVars>>
    BY <1>1 DEF vars
  <2>2. DeliveryInv'
    BY <2>1, Halves
    DEF reminderVars, taskVars, freezingVars, DeliveryInv, TaskTypeOK,
        RestTypeOK, RowsMoveOn, CopiesMoveOn
  <2>3. FreezingTypeOK' /\ FrozenIsKnown'
    BY <2>1, Halves
    DEF freezingVars, paneVars, muxVars, frozenVars, clockVars, agentVars,
        FreezingTypeOK, FrozenIsKnown
  <2>4. QED
    BY <2>2, <2>3, Halves
<1>2. CASE Next
  <2>1. DeliveryInv'
    BY <1>2, DeliverKeeps, StoreKeeps, OthersKeep
    DEF Next, Deliver, MainThread, Outside
  <2>2. events' \in Nat
    BY <2>1 DEF DeliveryInv, TaskTypeOK
  <2>3. QED
    BY <1>2, <2>1, <2>2, PaneKeeps, Halves
<1>3. QED
  BY <1>1, <1>2

\* The invariant holds in every state that is reached.
LEMMA AlwaysIInv == Spec => []IInv
PROOF
<1>1. QED
  BY InitKeeps, NextKeeps, PTL DEF Spec

\* Store, task and pane have their types, whatever clients, agents, failures
\* and stops of the mux do.
THEOREM ReminderTypes == Spec => []TypeOK
PROOF
<1>1. IInv => TypeOK
  BY DEF IInv
<1>2. QED
  BY <1>1, AlwaysIInv, PTL

\* Only PressEnter records a delivery, and it does so for the reminder that
\* the task is delivering.
LEMMA DeliveryIsCurrent ==
    ASSUME IInv, Next, NEW i \in Ids, lastSent'[i] # lastSent[i]
    PROVE  current.due >= lastSent[i]
PROOF
<1>1. lastSent' # lastSent
  OBVIOUS
<1>2. PressEnter
  BY <1>1 DEF Next, NextReminder, MainThread, Outside, NotHere, Blocked, Type,
     Stash, Stashed, Create, Cancel, ReadDue, RemoveAgentPane, OpenDialog,
     CloseDialog, Stop, Restart, Tick, reminderVars
<1>3. /\ place = "typed" /\ current \in batch
      /\ lastSent' = [lastSent EXCEPT ![current.id] = batchNow + 1]
  BY <1>1, <1>2 DEF PressEnter, IInv, CopiesMoveOn
<1>4. i = current.id
  BY <1>3 DEF IInv, TypeOK
<1>5. QED
  BY <1>3, <1>4 DEF IInv, CopiesMoveOn

\* No delivery is of a due time that an earlier delivery of the reminder
\* covered, for any intervals and whatever happens between the two.
THEOREM NoRunIsReplayed == Spec => MissedRunsNotReplayed
PROOF
<1>1. IInv /\ [Next]_vars =>
        [\A i \in Ids :
            lastSent'[i] # lastSent[i] => current.due >= lastSent[i]]_vars
  BY DeliveryIsCurrent
<1>2. QED
  BY <1>1, AlwaysIInv, PTL DEF Spec, MissedRunsNotReplayed

\* Whoever types into a registered agent's pane finds its process running,
\* or was refused the thaw.
THEOREM TypedInputFindsAgentRunning == Spec => InputReachesRunning
PROOF
<1>1. IInv /\ registered /\ ~lost /\ (Keys \/ Type \/ Stash \/ PressEnter)
        => ~suspended' \/ refused'
  <2> SUFFICES ASSUME IInv, registered, ~lost,
                      Keys \/ Type \/ Stash \/ PressEnter
               PROVE  ~suspended' \/ refused'
    OBVIOUS
  <2>1. Write
    BY DEF Keys, Type, Stash, PressEnter, WriteHeld
  <2>2. QED
    BY <2>1, WriteKeepsKnown DEF IInv
<1>2. IInv /\ [Next]_vars =>
        [registered /\ ~lost /\ (Keys \/ Type \/ Stash \/ PressEnter)
            => ~suspended' \/ refused']_vars
  BY <1>1
<1>3. QED
  BY <1>2, AlwaysIInv, PTL DEF Spec, InputReachesRunning

=============================================================================
