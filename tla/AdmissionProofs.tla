-------------------------- MODULE AdmissionProofs --------------------------
(***************************************************************************)
(* Theorems about Admission, for every value of its constants.             *)
(***************************************************************************)
EXTENDS Admission, TLAPS

(***************************************************************************)
(* The parts of an action's definition that every proof step unfolds.      *)
(***************************************************************************)

\* The receipts and rows that the actions build have their types.
LEMMA ReceiptTypes ==
    /\ NoReceipt \in Receipts /\ Accepted \in Receipts
    /\ Indeterminate \in Receipts /\ Unconfirmed \in Receipts
    /\ \A status \in Refusals : Rejected(status) \in Receipts
    /\ NoAdmission \in AdmissionRows
    /\ NoRequest \in RequestRows
BY DEF NoReceipt, Accepted, Indeterminate, Unconfirmed, Rejected, Refusals,
       Receipts, NoAdmission, AdmissionRows, NoRequest, RequestRows, Terminal

\* The refusals of a validation are refusals.
LEMMA ValidationTypes ==
    ASSUME TypeOK, NEW c \in Calls
    PROVE  ValidateAdmission(c) \subseteq Refusals \cup {"none"}
BY DEF ValidateAdmission, MuxRefusal, ClassifyRuntime, OutsideRefusals,
       Refusals, TypeOK, Observations

\* The id of a call is a request id.
LEMMA IdType == ASSUME TypeOK, NEW c \in Calls PROVE id(c) \in Ids
BY ConstantsAssumption DEF id, TypeOK, InputRecords

\* The part of TypeOK about the tasks.
TaskTypeOK ==
    /\ pc \in [Calls -> Places]
    /\ receipt \in [Calls -> Receipts]
    /\ inFlight \subseteq Ids
    /\ captured \in [Calls -> Nat]
    /\ runtime \in [Calls -> Observations]
    /\ inputsSeen \in [Calls -> Nat]

\* Returning keeps the types of the tasks.
LEMMA ReturnTypes ==
    ASSUME TypeOK, NEW c \in Calls, NEW r \in Receipts, Return(c, r)
    PROVE  TaskTypeOK'
BY DEF Return, Goto, DropCandidate, Candidates, TypeOK, TaskTypeOK, Places,
       Ended, Observations

\* Going on to release the reservation keeps the types of the tasks.
LEMMA RefuseTypes ==
    ASSUME TypeOK, NEW c \in Calls, NEW status \in Refusals,
           Refuse(c, status)
    PROVE  TaskTypeOK'
BY ReceiptTypes
   DEF Refuse, Goto, DropCandidate, Candidates, TypeOK, TaskTypeOK, Places,
       InFlightAt, Observations

\* Going on to the next await keeps the types of the tasks.
LEMMA ProceedTypes ==
    ASSUME TypeOK, NEW c \in Calls, NEW place \in Places, Proceed(c, place)
    PROVE  TaskTypeOK'
BY DEF Proceed, Goto, candidateVars, TypeOK, TaskTypeOK

\* The receipt of a lookup is a receipt, whatever row the store holds.
LEMMA LookupTypes ==
    ASSUME TypeOK, NEW c \in Calls, NEW row
    PROVE  LookupReceipt(c, row) \in Receipts
BY ReceiptTypes DEF LookupReceipt, Refusals

\* Saving a request keeps the types of its row and of the event stream.
LEMMA SaveTypes ==
    ASSUME TypeOK, NEW i \in Ids,
           NEW state \in Terminal \cup {"registered", "submitted", "bound"},
           Save(i, state)
    PROVE  requests' \in [Ids -> RequestRows] /\ events' \subseteq Ids
BY DEF Save, TypeOK, RequestRows

\* Finishing a row gives a row.
LEMMA FinishedType ==
    ASSUME NEW row \in AdmissionRows, NEW r \in Receipts
    PROVE  Finished(row, r) \in AdmissionRows
BY DEF Finished, AdmissionRows

\* Claiming gives rows.
LEMMA ClaimTypes ==
    ASSUME TypeOK, NEW c \in Calls, NEW row \in AdmissionRows
    PROVE  /\ [state |-> "prepared", fingerprint |-> input[c],
               receipt |-> Indeterminate] \in AdmissionRows
           /\ [row EXCEPT !.state = "indeterminate",
                          !.receipt = Indeterminate] \in AdmissionRows
           /\ row.receipt \in Receipts
BY ReceiptTypes DEF AdmissionRows, TypeOK

\* Creating a request gives a row.
LEMMA CreateType ==
    ASSUME TypeOK, NEW c \in Calls
    PROVE  [state |-> "registered", fingerprint |-> input[c]] \in RequestRows
BY DEF TypeOK, RequestRows

\* A ready box keeps the types of the tasks.
LEMMA BoxReadyTypes ==
    ASSUME TypeOK, NEW c \in Calls, BoxReady(c)
    PROVE  TaskTypeOK'
BY RefuseTypes, ProceedTypes, ValidationTypes
   DEF BoxReady, Refusals, Places, InFlightAt, Preparing

\* A step of a task keeps TypeOK.
LEMMA StepTypes ==
    ASSUME TypeOK, NEW c \in Calls, Start(c) \/ Step(c)
    PROVE  TypeOK'
PROOF
<1> USE DEF serverVars, taskVars, candidateVars, storeVars, paneVars,
            histVars, TypeOK, TaskTypeOK
<1>1. CASE Start(c)
  BY <1>1, ProceedTypes DEF Start, Places, InFlightAt, Preparing,
     Delivering, Ended
<1>2. CASE Enter(c)
  BY <1>2, IdType DEF Enter, Goto, Places, InFlightAt, Preparing,
     Delivering, Ended
<1>3. CASE EnterTimeout(c)
  BY <1>3, ReceiptTypes DEF EnterTimeout, Goto, Places, InFlightAt,
     Preparing, Delivering, Ended
<1>4. CASE Lookup(c)
  BY <1>4, ReturnTypes, ProceedTypes, LookupTypes DEF Lookup, Places,
     InFlightAt, Preparing, Delivering, Ended
<1>5. CASE Claim(c)
  <2>1. admissions[id(c)] \in AdmissionRows
    BY IdType
  <2>2. admissions' \in [Ids -> AdmissionRows]
    BY <1>5, <2>1, ClaimTypes DEF Claim
  <2>3. TaskTypeOK'
    BY <1>5, <2>1, ClaimTypes, ReturnTypes, ProceedTypes, ReceiptTypes
       DEF Claim, Refusals, Places, InFlightAt, Preparing
  <2>4. QED
    BY <1>5, <2>2, <2>3 DEF Claim
<1>6. CASE ReadFails(c)
  BY <1>6, ReturnTypes, ReceiptTypes DEF ReadFails, Refusals
<1>7. CASE Capture(c)
  BY <1>7, RefuseTypes DEF Capture, Goto, Candidates, Refusals,
     Observations, Places, InFlightAt, Preparing, Delivering, Ended
<1>8. CASE Refresh(c)
  BY <1>8 DEF Refresh, Goto, Candidates, Places, InFlightAt, Preparing,
     Delivering, Ended
<1>9. CASE RefreshFails(c)
  BY <1>9, RefuseTypes DEF RefreshFails, Refusals
<1>10. CASE Validate(c)
  BY <1>10, BoxReadyTypes, RefuseTypes, ValidationTypes DEF Validate,
     Refusals
<1>11. CASE SetAside(c)
  BY <1>11, ProceedTypes DEF SetAside, Places, InFlightAt, Preparing,
     Delivering, Ended
<1>12. CASE BoxSetAside(c)
  BY <1>12, BoxReadyTypes, RefuseTypes DEF BoxSetAside, Refusals
<1>13. CASE Create(c)
  BY <1>13, ReturnTypes, ProceedTypes, ReceiptTypes, CreateType, IdType DEF
     Create, Refusals, Places, InFlightAt, Preparing, Delivering, Ended
<1>14. CASE CreateFails(c)
  BY <1>14, ReturnTypes, ReceiptTypes DEF CreateFails, Refusals
<1>15. CASE Revalidate(c)
  BY <1>15, RefuseTypes, ProceedTypes, ValidationTypes DEF Revalidate,
     Places, InFlightAt, Preparing, Delivering, Ended
<1>16. CASE WritePrompt(c)
  BY <1>16, ProceedTypes DEF WritePrompt, Places, InFlightAt, Preparing,
     Delivering, Ended
<1>17. CASE WriteRefused(c)
  BY <1>17, ProceedTypes DEF WriteRefused, Places, InFlightAt, Preparing,
     Delivering, Ended
<1>18. CASE WriteBreaks(c)
  BY <1>18, ProceedTypes DEF WriteBreaks, Places, InFlightAt, Preparing,
     Delivering, Ended
<1>19. CASE PressEnter(c)
  BY <1>19 DEF PressEnter, Goto, Candidates, Observations, Places,
     InFlightAt, Preparing, Delivering, Ended
<1>20. CASE SubmitRefused(c)
  BY <1>20, ProceedTypes DEF SubmitRefused, Places, InFlightAt, Preparing,
     Delivering, Ended
<1>21. CASE Withdraw(c)
  BY <1>21, ProceedTypes DEF Withdraw, Places, InFlightAt, Preparing,
     Delivering, Ended
<1>22. CASE TakenBack(c)
  BY <1>22, RefuseTypes DEF TakenBack, Refusals
<1>23. CASE NotTakenBack(c)
  BY <1>23, ProceedTypes DEF NotTakenBack, Places, InFlightAt, Preparing,
     Delivering, Ended
<1>24. CASE PressAgain(c)
  BY <1>24 DEF PressAgain, Candidates, Observations
<1>25. CASE Confirm(c)
  BY <1>25, ReceiptTypes DEF Confirm, Goto, Places, InFlightAt, Preparing,
     Delivering, Ended
<1>26. CASE Finish(c)
  BY <1>26, ReturnTypes, IdType, FinishedType DEF Finish
<1>27. CASE SaveSubmitted(c)
  BY <1>27, ReturnTypes, IdType, ReceiptTypes, SaveTypes DEF SaveSubmitted
<1>28. CASE RecordFails(c)
  BY <1>28, ReturnTypes, ReceiptTypes DEF RecordFails
<1>29. CASE DeliveryFailed(c)
  <2>1. admissions' \in [Ids -> AdmissionRows]
    <3>1. CASE OneWay(c)
      <4>1. Finished(admissions[id(c)], Indeterminate) \in AdmissionRows
        BY IdType, ReceiptTypes, FinishedType
      <4>2. admissions' = [admissions EXCEPT ![id(c)] =
                              Finished(admissions[id(c)], Indeterminate)]
        BY <1>29, <3>1 DEF DeliveryFailed
      <4>3. QED
        BY <4>1, <4>2, IdType
    <3>2. CASE ~OneWay(c)
      BY <1>29, <3>2 DEF DeliveryFailed
    <3>3. QED
      BY <3>1, <3>2
  <2>2. requests' \in [Ids -> RequestRows] /\ events' \subseteq Ids
    BY <1>29, IdType, SaveTypes DEF DeliveryFailed, Terminal
  <2>3. TaskTypeOK'
    BY <1>29, ReturnTypes, ReceiptTypes DEF DeliveryFailed
  <2>4. QED
    BY <1>29, <2>1, <2>2, <2>3 DEF DeliveryFailed
<1>30. CASE Release(c)
  BY <1>30, ReturnTypes, ReceiptTypes, IdType DEF Release
<1>31. CASE ReleaseFails(c)
  BY <1>31, ReturnTypes, ReceiptTypes DEF ReleaseFails, Refusals
<1>32. QED
  BY <1>1, <1>2, <1>3, <1>4, <1>5, <1>6, <1>7, <1>8, <1>9, <1>10, <1>11,
     <1>12, <1>13, <1>14, <1>15, <1>16, <1>17, <1>18, <1>19, <1>20, <1>21,
     <1>22, <1>23, <1>24, <1>25, <1>26, <1>27, <1>28, <1>29, <1>30, <1>31
     DEF Step

\* Watchers, cancellation, the pane and the server's life keep TypeOK.
LEMMA OtherTypes ==
    ASSUME TypeOK, (\E i \in Ids : Reconcile(i) \/ Cancel(i)) \/ Environment
    PROVE  TypeOK'
PROOF
<1> USE DEF serverVars, taskVars, candidateVars, storeVars, paneVars,
            histVars, TypeOK
<1>1. ASSUME NEW i \in Ids, Reconcile(i) PROVE TypeOK'
  BY <1>1, SaveTypes DEF Reconcile, Reconciled, Terminal
<1>2. ASSUME NEW i \in Ids, Cancel(i) PROVE TypeOK'
  BY <1>2, SaveTypes DEF Cancel, Terminal
<1>3. CASE SomebodyTypes
  BY <1>3 DEF SomebodyTypes
<1>4. CASE AgentLeaves
  BY <1>4, ConstantsAssumption DEF AgentLeaves, NoAgent
<1>5. CASE AgentRegistered
  BY <1>5, ConstantsAssumption DEF AgentRegistered, NoAgent
<1>6. CASE Crash
  <2>1. pc' \in [Calls -> Places]
    BY <1>6 DEF Crash, Places, Ended
  <2>2. retired' \subseteq Incarnations
    BY <1>6 DEF Crash
  <2>3. /\ captured' \in [Calls -> Nat]
        /\ runtime' \in [Calls -> Observations]
        /\ inputsSeen' \in [Calls -> Nat]
    BY <1>6 DEF Crash, Observations
  <2>4. up' \in BOOLEAN /\ crashes' \in Nat
    <3>1. up' \in BOOLEAN
      BY <1>6 DEF Crash
    <3>2. crashes' \in Nat
      BY <1>6 DEF Crash
    <3>3. QED
      BY <3>1, <3>2
  <2>5. /\ inFlight' \subseteq Ids /\ generation' \in Nat
        /\ agent' \in Incarnations \cup {NoAgent}
    BY <1>6 DEF Crash
  <2>6. UNCHANGED <<input, receipt, others, storeVars, histVars>>
    BY <1>6 DEF Crash
  <2>7. QED
    BY <2>1, <2>2, <2>3, <2>4, <2>5, <2>6
<1>7. CASE Restart
  BY <1>7 DEF Restart, Unfinished, RequestRows, Terminal
<1>8. QED
  BY <1>1, <1>2, <1>3, <1>4, <1>5, <1>6, <1>7 DEF Environment

\* Every step, and stuttering, keeps TypeOK.
LEMMA TypeStep == TypeOK /\ [Next]_vars => TypeOK'
PROOF
<1>1. CASE UNCHANGED vars
  BY <1>1 DEF vars, serverVars, taskVars, candidateVars, storeVars, paneVars,
              histVars, TypeOK
<1>2. QED
  BY <1>1, StepTypes, OtherTypes DEF Next

\* The initial states have their types.
LEMMA TypeInit == Init => TypeOK
BY ReceiptTypes DEF Init, TypeOK, Places, Observations, Observations

\* Every variable keeps its type, for any set of calls, ids, prompts and
\* incarnations and however often the server stops.
THEOREM TypeCorrect == Spec => []TypeOK
PROOF
<1>1. QED
  BY TypeInit, TypeStep, PTL DEF Spec

-----------------------------------------------------------------------------
\* A step of a task keeps the inductive invariant.
LEMMA StepSafe ==
    ASSUME IInv, NEW c \in Calls, Start(c) \/ Step(c)
    PROVE  IInv'
PROOF
<1> USE DEF serverVars, taskVars, candidateVars, storeVars, paneVars,
            histVars, Goto, Return, Refuse, Proceed, id, OneWay, Written,
            SameKey, InFlightAt, Preparing, Delivering, Ended, IInv,
            OneAttempt, ModesApart, OwnsReservation, KeepsRequest,
            UnwrittenUntilWritten, WrittenIsRecorded, RowsNeverRefuse, AtMostOnce
<1>0. TypeOK /\ TypeOK' /\ \A d \in Calls : id(d) \in Ids
  BY StepTypes, IdType
<1>1. CASE Start(c)
  BY <1>1, <1>0 DEF Start, TypeOK
<1>2. CASE Enter(c)
  BY <1>2, <1>0 DEF Enter, TypeOK
<1>3. CASE EnterTimeout(c)
  BY <1>3, <1>0 DEF EnterTimeout, TypeOK
<1>4. CASE Lookup(c)
  <2>1. CASE requests[id(c)].state = "none"
    BY <1>4, <1>0, <2>1 DEF Lookup, TypeOK
  <2>2. CASE requests[id(c)].state # "none"
    <3>1. /\ pc[c] = "reading" /\ pc' = [pc EXCEPT ![c] = "answered"]
          /\ inFlight' = inFlight \ {id(c)}
          /\ \A d \in Calls \ {c} : receipt'[d] = receipt[d]
          /\ UNCHANGED <<admissions, requests, input, typed, takenBack>>
      BY <1>4, <1>0, <2>2 DEF Lookup, TypeOK
    <3>2. QED
      BY <1>0, <3>1 DEF TypeOK
  <2>3. QED
    BY <2>1, <2>2
<1>5. CASE Claim(c)
  <2>1. CASE admissions[id(c)].state = "none"
    <3>1. admissions' = [admissions EXCEPT ![id(c)] =
                            [state |-> "prepared", fingerprint |-> input[c],
                             receipt |-> Indeterminate]]
      BY <1>5, <2>1 DEF Claim
    <3>2. pc' = [pc EXCEPT ![c] = "capturing"]
      BY <1>5, <2>1 DEF Claim
    <3>3. pc[c] = "reading" /\ ~input[c].final
      BY <1>5 DEF Claim
    <3>4. UNCHANGED <<receipt, inFlight, requests, input, typed, takenBack>>
      BY <1>5, <2>1 DEF Claim
    <3>5. RowsNeverRefuse'
      BY <1>0, <3>1, <3>2, <3>4 DEF TypeOK, Indeterminate
    <3>6. OneAttempt' /\ ModesApart' /\ OwnsReservation' /\ KeepsRequest'
      BY <1>0, <2>1, <3>1, <3>2, <3>3, <3>4 DEF TypeOK
    <3>7. UnwrittenUntilWritten' /\ WrittenIsRecorded' /\ AtMostOnce'
      BY <1>0, <2>1, <3>1, <3>2, <3>3, <3>4 DEF TypeOK
    <3>8. QED
      BY <1>0, <3>5, <3>6, <3>7
  <2>2. CASE admissions[id(c)].state # "none" /\ admissions' = admissions
    <3>1. /\ pc[c] = "reading" /\ pc' = [pc EXCEPT ![c] = "answered"]
          /\ inFlight' = inFlight \ {id(c)}
          /\ \A d \in Calls \ {c} : receipt'[d] = receipt[d]
          /\ UNCHANGED <<requests, input, typed, takenBack>>
      BY <1>5, <1>0, <2>2 DEF Claim, TypeOK
    <3>2. QED
      BY <1>0, <2>2, <3>1 DEF TypeOK
  <2>3. CASE admissions[id(c)].state = "prepared" /\ admissions' # admissions
    <3>1. admissions' = [admissions EXCEPT ![id(c)] =
                            [admissions[id(c)] EXCEPT
                                !.state = "indeterminate",
                                !.receipt = Indeterminate]]
      BY <1>5, <2>3 DEF Claim
    <3>2. pc' = [pc EXCEPT ![c] = "answered"] /\ inFlight' = inFlight \ {id(c)}
      BY <1>5, <2>3 DEF Claim
    <3>3. pc[c] = "reading" /\ ~input[c].final
      BY <1>5 DEF Claim
    <3>4. /\ UNCHANGED <<requests, input, typed, takenBack>>
          /\ receipt' = [receipt EXCEPT ![c] = Indeterminate]
      BY <1>5, <2>3 DEF Claim
    <3>5. RowsNeverRefuse'
      BY <1>0, <3>1, <3>2, <3>4 DEF TypeOK, Indeterminate, AdmissionRows
    <3>6. OneAttempt' /\ ModesApart' /\ OwnsReservation' /\ KeepsRequest'
      BY <1>0, <3>1, <3>2, <3>3, <3>4 DEF TypeOK
    <3>7. UnwrittenUntilWritten' /\ WrittenIsRecorded' /\ AtMostOnce'
      BY <1>0, <2>3, <3>1, <3>2, <3>3, <3>4 DEF TypeOK, AdmissionRows
    <3>8. QED
      BY <1>0, <3>5, <3>6, <3>7
  <2>4. QED
    BY <1>5, <2>1, <2>2, <2>3 DEF Claim
<1>6. CASE ReadFails(c)
  BY <1>6, <1>0 DEF ReadFails, TypeOK
<1>7. CASE Capture(c)
  BY <1>7, <1>0 DEF Capture, TypeOK
<1>8. CASE Refresh(c)
  BY <1>8, <1>0 DEF Refresh, TypeOK
<1>9. CASE RefreshFails(c)
  BY <1>9, <1>0 DEF RefreshFails, TypeOK
<1>10. CASE Validate(c)
  BY <1>10, <1>0 DEF Validate, BoxReady, TypeOK
<1>11. CASE SetAside(c)
  BY <1>11, <1>0 DEF SetAside, TypeOK
<1>12. CASE BoxSetAside(c)
  BY <1>12, <1>0 DEF BoxSetAside, BoxReady, TypeOK
<1>13. CASE Create(c)
  <2>1. requests[id(c)].state = "none"
    BY <1>13 DEF Create
  <2>2. /\ requests' = [requests EXCEPT ![id(c)] =
                           [state |-> "registered", fingerprint |-> input[c]]]
        /\ pc' = [pc EXCEPT ![c] = "revalidating"]
        /\ UNCHANGED <<receipt, inFlight, admissions, input, typed, takenBack>>
    BY <1>13, <2>1 DEF Create
  <2>3. pc[c] = "creating" /\ ~OneWay(c)
    BY <1>13 DEF Create
  <2>4. OneAttempt' /\ ModesApart' /\ RowsNeverRefuse' /\ AtMostOnce'
    BY <1>0, <2>2, <2>3 DEF TypeOK
  <2>5. OwnsReservation' /\ KeepsRequest'
    BY <1>0, <2>2, <2>3 DEF TypeOK
  <2>6. UnwrittenUntilWritten' /\ WrittenIsRecorded'
    BY <1>0, <2>1, <2>2, <2>3 DEF TypeOK
  <2>7. QED
    BY <1>0, <2>4, <2>5, <2>6
<1>14. CASE CreateFails(c)
  BY <1>14, <1>0 DEF CreateFails, TypeOK
<1>15. CASE Revalidate(c)
  BY <1>15, <1>0 DEF Revalidate, TypeOK
<1>16. CASE WritePrompt(c)
  BY <1>16, <1>0 DEF WritePrompt, TypeOK
<1>17. CASE WriteRefused(c)
  BY <1>17, <1>0 DEF WriteRefused, TypeOK
<1>18. CASE WriteBreaks(c)
  BY <1>18, <1>0 DEF WriteBreaks, TypeOK
<1>19. CASE PressEnter(c)
  BY <1>19, <1>0 DEF PressEnter, TypeOK
<1>20. CASE SubmitRefused(c)
  BY <1>20, <1>0 DEF SubmitRefused, TypeOK
<1>21. CASE Withdraw(c)
  BY <1>21, <1>0 DEF Withdraw, TypeOK
<1>22. CASE TakenBack(c)
  BY <1>22, <1>0 DEF TakenBack, TypeOK
<1>23. CASE NotTakenBack(c)
  BY <1>23, <1>0 DEF NotTakenBack, TypeOK
<1>24. CASE PressAgain(c)
  BY <1>24, <1>0 DEF PressAgain, TypeOK
<1>25. CASE Confirm(c)
  <2>1. RowsNeverRefuse'
    BY <1>25, <1>0 DEF Confirm, TypeOK, Accepted, Unconfirmed
  <2>2. /\ OneAttempt' /\ ModesApart' /\ OwnsReservation' /\ KeepsRequest'
        /\ UnwrittenUntilWritten' /\ WrittenIsRecorded' /\ AtMostOnce'
    BY <1>25, <1>0 DEF Confirm, TypeOK
  <2>3. QED
    BY <1>0, <2>1, <2>2
<1>26. CASE Finish(c)
  BY <1>26, <1>0 DEF Finish, Finished, TypeOK
<1>27. CASE SaveSubmitted(c)
  BY <1>27, <1>0 DEF SaveSubmitted, Save, TypeOK
<1>28. CASE RecordFails(c)
  BY <1>28, <1>0 DEF RecordFails, TypeOK
<1>29. CASE DeliveryFailed(c)
  <2>1. CASE OneWay(c)
    <3>1. /\ admissions' = [admissions EXCEPT ![id(c)] =
                               Finished(admissions[id(c)], Indeterminate)]
          /\ UNCHANGED <<requests, input, typed, takenBack>>
      BY <1>29, <2>1 DEF DeliveryFailed
    <3>2. /\ pc[c] = "failing" /\ pc' = [pc EXCEPT ![c] = "answered"]
          /\ inFlight' = inFlight \ {id(c)}
          /\ receipt' = [receipt EXCEPT ![c] = Indeterminate]
      BY <1>29 DEF DeliveryFailed
    <3>3. RowsNeverRefuse'
      BY <1>0, <3>1, <3>2 DEF TypeOK, Finished, Indeterminate, AdmissionRows
    <3>4. OneAttempt' /\ ModesApart' /\ OwnsReservation' /\ KeepsRequest'
      BY <1>0, <3>1, <3>2 DEF TypeOK
    <3>5. UnwrittenUntilWritten' /\ WrittenIsRecorded' /\ AtMostOnce'
      BY <1>0, <3>1, <3>2
         DEF TypeOK, Finished, Indeterminate, AdmissionRows
    <3>6. QED
      BY <1>0, <3>3, <3>4, <3>5
  <2>2. CASE ~OneWay(c)
    <3>1. /\ requests' = [requests EXCEPT ![id(c)].state = "indeterminate"]
          /\ UNCHANGED <<admissions, input, typed, takenBack>>
      BY <1>29, <2>2 DEF DeliveryFailed, Save
    <3>2. /\ pc[c] = "failing" /\ pc' = [pc EXCEPT ![c] = "answered"]
          /\ inFlight' = inFlight \ {id(c)}
          /\ receipt' = [receipt EXCEPT ![c] = Indeterminate]
      BY <1>29 DEF DeliveryFailed
    <3>3. /\ RowsNeverRefuse' /\ OneAttempt' /\ ModesApart'
          /\ OwnsReservation' /\ KeepsRequest'
      BY <1>0, <2>2, <3>1, <3>2 DEF TypeOK, Indeterminate, RequestRows
    <3>4. UnwrittenUntilWritten' /\ WrittenIsRecorded' /\ AtMostOnce'
      BY <1>0, <2>2, <3>1, <3>2 DEF TypeOK, RequestRows
    <3>5. QED
      BY <1>0, <3>3, <3>4
  <2>3. QED
    BY <2>1, <2>2
<1>30. CASE Release(c)
  <2>1. /\ pc[c] = "releasing" /\ pc' = [pc EXCEPT ![c] = "answered"]
        /\ inFlight' = inFlight \ {id(c)}
        /\ receipt' = [receipt EXCEPT ![c] = receipt[c]]
        /\ UNCHANGED <<input, typed, takenBack>>
    BY <1>30 DEF Release
  <2>2. \A d \in Calls : SameKey(c, d) => ~Written(d)
    BY <2>1
  <2>3. CASE admissions' = admissions /\ requests' = requests
    BY <1>0, <2>1, <2>2, <2>3 DEF TypeOK
  <2>4. CASE /\ OneWay(c) /\ UNCHANGED requests
             /\ admissions' = [admissions EXCEPT ![id(c)] = NoAdmission]
    <3>1. /\ RowsNeverRefuse' /\ OneAttempt' /\ ModesApart'
          /\ OwnsReservation' /\ KeepsRequest'
      BY <1>0, <2>1, <2>4 DEF TypeOK, NoAdmission, NoReceipt
    <3>2. UnwrittenUntilWritten' /\ WrittenIsRecorded' /\ AtMostOnce'
      BY <1>0, <2>1, <2>2, <2>4 DEF TypeOK
    <3>3. QED
      BY <1>0, <3>1, <3>2
  <2>5. CASE /\ ~OneWay(c) /\ UNCHANGED admissions
             /\ requests' = [requests EXCEPT ![id(c)] = NoRequest]
    <3>1. /\ RowsNeverRefuse' /\ OneAttempt' /\ ModesApart'
          /\ OwnsReservation' /\ KeepsRequest'
      BY <1>0, <2>1, <2>5 DEF TypeOK, NoRequest
    <3>2. UnwrittenUntilWritten' /\ WrittenIsRecorded' /\ AtMostOnce'
      BY <1>0, <2>1, <2>2, <2>5 DEF TypeOK
    <3>3. QED
      BY <1>0, <3>1, <3>2
  <2>6. QED
    BY <1>30, <2>3, <2>4, <2>5 DEF Release
<1>31. CASE ReleaseFails(c)
  BY <1>31, <1>0 DEF ReleaseFails, TypeOK
<1>32. QED
  BY <1>1, <1>2, <1>3, <1>4, <1>5, <1>6, <1>7, <1>8, <1>9, <1>10, <1>11,
     <1>12, <1>13, <1>14, <1>15, <1>16, <1>17, <1>18, <1>19, <1>20, <1>21,
     <1>22, <1>23, <1>24, <1>25, <1>26, <1>27, <1>28, <1>29, <1>30, <1>31
     DEF Step

\* Watchers, cancellation, the pane and the server's life keep the inductive
\* invariant: none of them writes a prompt or removes a row.
LEMMA OtherSafe ==
    ASSUME IInv, (\E i \in Ids : Reconcile(i) \/ Cancel(i)) \/ Environment
    PROVE  IInv'
PROOF
<1> USE DEF serverVars, taskVars, candidateVars, storeVars, paneVars,
            histVars, id, OneWay, Written, SameKey, InFlightAt, Preparing,
            Delivering, Ended, IInv, OneAttempt, ModesApart, OwnsReservation,
            KeepsRequest, UnwrittenUntilWritten, WrittenIsRecorded,
            RowsNeverRefuse, AtMostOnce
<1>0. TypeOK /\ TypeOK' /\ \A d \in Calls : id(d) \in Ids
  BY OtherTypes, IdType
<1>1. ASSUME NEW i \in Ids, NEW state \in Terminal \cup {"bound"},
             requests[i].state # "none", Save(i, state),
             UNCHANGED <<admissions, serverVars, taskVars, histVars>>
      PROVE  IInv'
  BY <1>0, <1>1 DEF Save, TypeOK, RequestRows, Terminal
<1>2. ASSUME NEW i \in Ids, Reconcile(i) PROVE IInv'
  BY <1>1, <1>2 DEF Reconcile, Reconciled, Terminal
<1>3. ASSUME NEW i \in Ids, Cancel(i) PROVE IInv'
  BY <1>1, <1>3 DEF Cancel, Terminal
<1>4. CASE SomebodyTypes
  BY <1>0, <1>4 DEF SomebodyTypes
<1>5. CASE AgentLeaves
  BY <1>0, <1>5 DEF AgentLeaves
<1>6. CASE AgentRegistered
  BY <1>0, <1>6 DEF AgentRegistered
<1>7. CASE Crash
  <2>1. /\ \A c \in Calls : pc'[c] \in {"new"} \cup Ended
        /\ UNCHANGED <<input, receipt, storeVars, histVars>>
    BY <1>0, <1>7 DEF Crash, TypeOK
  <2>2. QED
    BY <1>0, <2>1
<1>8. CASE Restart
  BY <1>0, <1>8 DEF Restart, Unfinished, TypeOK, RequestRows
<1>9. QED
  BY <1>2, <1>3, <1>4, <1>5, <1>6, <1>7, <1>8 DEF Environment

\* The inductive invariant holds initially.
LEMMA InitSafe == Init => IInv
BY TypeInit
   DEF Init, IInv, OneAttempt, ModesApart, OwnsReservation, KeepsRequest,
       UnwrittenUntilWritten, WrittenIsRecorded, RowsNeverRefuse, AtMostOnce,
       Written, InFlightAt, Preparing, Delivering, NoAdmission, NoReceipt

\* Every step, and stuttering, keeps the inductive invariant.
LEMMA NextSafe == IInv /\ [Next]_vars => IInv'
PROOF
<1>1. CASE UNCHANGED vars
  BY <1>1 DEF vars, serverVars, taskVars, candidateVars, storeVars, paneVars,
              histVars, TypeOK, id, OneWay, Written, SameKey, IInv,
              OneAttempt, ModesApart, OwnsReservation, KeepsRequest,
              UnwrittenUntilWritten, WrittenIsRecorded, RowsNeverRefuse,
              AtMostOnce
<1>2. QED
  BY <1>1, StepSafe, OtherSafe DEF Next

\* The inductive invariant holds in every reachable state.
LEMMA Safe == Spec => []IInv
PROOF
<1>1. QED
  BY InitSafe, NextSafe, PTL DEF Spec

\* Whatever clients repeat, cancel or mix up, however often the server stops
\* and whichever store operations fail, each prompt reaches the pane at most
\* once per request id and delivery mode.
THEOREM PromptWrittenAtMostOnce == Spec => []AtMostOnce
PROOF
<1>1. IInv => AtMostOnce
  BY DEF IInv
<1>2. QED
  BY <1>1, Safe, PTL

\* No repeat ever takes a running attempt's claim for a lost one, and the id
\* of a return-final attempt is free until the attempt registers it.
THEOREM ReservationsAreOwned == Spec => []OwnsReservation
PROOF
<1>1. IInv => OwnsReservation
  BY DEF IInv
<1>2. QED
  BY <1>1, Safe, PTL

-----------------------------------------------------------------------------
\* The steps that let a task go on, rather than return, answer nobody.
LEMMA GoingOnAnswersNobody ==
    ASSUME TypeOK, NEW e \in Calls,
           \/ Start(e) \/ Enter(e) \/ Capture(e) \/ Refresh(e)
           \/ RefreshFails(e) \/ Validate(e) \/ SetAside(e) \/ BoxSetAside(e)
           \/ Revalidate(e) \/ WritePrompt(e) \/ WriteRefused(e)
           \/ WriteBreaks(e) \/ PressEnter(e) \/ SubmitRefused(e)
           \/ Withdraw(e) \/ TakenBack(e) \/ NotTakenBack(e) \/ PressAgain(e)
           \/ Confirm(e)
    PROVE  \A c \in Calls : ~Answers(c)
PROOF
<1> USE DEF Answers, TypeOK, Goto, Refuse, Proceed
<1>1. CASE \/ Start(e) \/ Enter(e) \/ Capture(e) \/ Refresh(e)
           \/ RefreshFails(e) \/ SetAside(e) \/ Confirm(e)
  BY <1>1 DEF Start, Enter, Capture, Refresh, RefreshFails, SetAside, Confirm
<1>2. CASE Validate(e) \/ BoxSetAside(e) \/ Revalidate(e)
  BY <1>2 DEF Validate, BoxSetAside, BoxReady, Revalidate
<1>3. CASE \/ WritePrompt(e) \/ WriteRefused(e) \/ WriteBreaks(e)
           \/ PressEnter(e) \/ SubmitRefused(e)
  BY <1>3 DEF WritePrompt, WriteRefused, WriteBreaks, PressEnter,
              SubmitRefused
<1>4. CASE Withdraw(e) \/ TakenBack(e) \/ NotTakenBack(e) \/ PressAgain(e)
  BY <1>4 DEF Withdraw, TakenBack, NotTakenBack, PressAgain, taskVars
<1>5. QED
  BY <1>1, <1>2, <1>3, <1>4

\* A task that returns a receipt that is no refusal breaks no promise.
LEMMA ReturnIsNoRefusal ==
    ASSUME TypeOK, NEW e \in Calls, NEW r, Return(e, r),
           r.written # "no" \/ r.status = "internal_failure"
    PROVE  RefusalStep
BY DEF RefusalStep, Answers, TypeOK, Return, Goto

\* A task that returns any receipt breaks no promise while nothing with its
\* arguments is written.
LEMMA ReturnUnwritten ==
    ASSUME TypeOK, NEW e \in Calls, NEW r, Return(e, r),
           \A d \in Calls : input[d] = input[e] => ~Written(d)
    PROVE  RefusalStep
BY DEF RefusalStep, Answers, TypeOK, Return, Goto

\* A row with another fingerprint means that nothing with these arguments is
\* written.
LEMMA OtherFingerprintUnwritten ==
    ASSUME IInv, NEW c \in Calls,
           IF OneWay(c) THEN admissions[id(c)].fingerprint # input[c]
           ELSE requests[id(c)].fingerprint # input[c]
    PROVE  \A d \in Calls : input[d] = input[c] => ~Written(d)
BY DEF IInv, WrittenIsRecorded, id, OneWay

\* No step answers a refusal for a prompt that was written.
LEMMA StepRefusal ==
    ASSUME IInv, NEW e \in Calls, Start(e) \/ Step(e)
    PROVE  RefusalStep
PROOF
<1>0. TypeOK /\ id(e) \in Ids
  BY IdType DEF IInv
<1> USE DEF Accepted, Indeterminate, Rejected
<1>1. CASE EnterTimeout(e)
  BY <1>0, <1>1 DEF EnterTimeout, RefusalStep, Answers, TypeOK, Goto
<1>2. CASE Lookup(e)
  BY <1>0, <1>2, ReturnIsNoRefusal, ReturnUnwritten,
     OtherFingerprintUnwritten
     DEF Lookup, LookupReceipt, Proceed, Goto, RefusalStep, Answers, TypeOK
<1>3. CASE Claim(e)
  <2>1. admissions[id(e)].receipt.written # "no"
    BY <1>0 DEF IInv, RowsNeverRefuse
  <2>2. QED
    BY <1>0, <1>3, <2>1, ReturnIsNoRefusal, ReturnUnwritten,
       OtherFingerprintUnwritten
       DEF Claim, Proceed, Goto, RefusalStep, Answers, TypeOK
<1>4. CASE ReadFails(e) \/ CreateFails(e) \/ ReleaseFails(e)
  BY <1>0, <1>4, ReturnIsNoRefusal DEF ReadFails, CreateFails, ReleaseFails
<1>5. CASE Create(e)
  BY <1>0, <1>5, ReturnIsNoRefusal
     DEF Create, Proceed, Goto, RefusalStep, Answers, TypeOK
<1>6. CASE Finish(e)
  BY <1>0, <1>6, ReturnIsNoRefusal DEF Finish, IInv, RowsNeverRefuse
<1>7. CASE SaveSubmitted(e) \/ RecordFails(e) \/ DeliveryFailed(e)
  BY <1>0, <1>7, ReturnIsNoRefusal
     DEF SaveSubmitted, RecordFails, DeliveryFailed
<1>8. CASE Release(e)
  <2>1. \A d \in Calls : input[d] = input[e] => ~Written(d)
    BY <1>8 DEF Release, IInv, UnwrittenUntilWritten, SameKey, id, OneWay
  <2>2. QED
    BY <1>0, <1>8, <2>1, ReturnUnwritten DEF Release
<1>9. QED
  BY <1>0, <1>1, <1>2, <1>3, <1>4, <1>5, <1>6, <1>7, <1>8,
     GoingOnAnswersNobody DEF Step, RefusalStep

\* A definitive refusal, other than one a failing store forces, is never
\* given for a prompt that reached the pane: not by the refused call, nor by
\* any earlier call with the same arguments.
THEOREM RefusalIsUnwritten == Spec => RefusedMeansUnwritten
PROOF
<1>1. ASSUME IInv, [Next]_vars
      PROVE  [RefusalStep]_vars
  <2>1. CASE \E c \in Calls : Start(c) \/ Step(c)
    BY <1>1, <2>1, StepRefusal
  <2>2. CASE (\E i \in Ids : Reconcile(i) \/ Cancel(i))
    BY <2>2 DEF Reconcile, Cancel, taskVars, RefusalStep, Answers
  <2>3. CASE Environment
    BY <1>1, <2>3
       DEF Environment, SomebodyTypes, AgentLeaves, AgentRegistered, Crash,
           Restart, taskVars, RefusalStep, Answers, IInv, TypeOK, Ended
  <2>4. QED
    BY <1>1, <2>1, <2>2, <2>3 DEF Next
<1>2. QED
  BY <1>1, Safe, PTL DEF Spec, RefusedMeansUnwritten

=============================================================================
