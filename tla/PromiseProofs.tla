--------------------------- MODULE PromiseProofs ---------------------------
(***************************************************************************)
(* What receipts mean, for every value of the constants of Admission, and  *)
(* that Admission implements PromptDelivery.                               *)
(***************************************************************************)
EXTENDS AdmissionProofs

\* A call keeps its arguments, and what it submitted stays submitted.
LEMMA SubmittedGrows ==
    ASSUME TypeOK, [Next]_vars
    PROVE  input' = input /\ Submitted \subseteq Submitted'
PROOF
<1> USE DEF serverVars, taskVars, candidateVars, storeVars, paneVars,
            histVars
<1>1. ASSUME NEW c \in Calls, Start(c) \/ Step(c)
      PROVE  /\ input' = input
             /\ presses' = presses \/ presses' = [presses EXCEPT ![c] = @ + 1]
  BY <1>1 DEF Step, Start, Enter, EnterTimeout, Lookup, Claim, ReadFails,
     Capture, Refresh, RefreshFails, Validate, SetAside, BoxSetAside, Create,
     CreateFails, Revalidate, WritePrompt, WriteRefused, WriteBreaks,
     PressEnter, SubmitRefused, Withdraw, TakenBack, NotTakenBack,
     PressAgain, Confirm, Finish, SaveSubmitted, RecordFails,
     DeliveryFailed, Release, ReleaseFails
<1>2. ASSUME (\E i \in Ids : Reconcile(i) \/ Cancel(i)) \/ Environment
      PROVE  input' = input /\ presses' = presses
  BY <1>2 DEF Reconcile, Cancel, Environment, SomebodyTypes, AgentLeaves,
     AgentRegistered, Crash, Restart
<1>3. /\ input' = input
      /\ \A d \in Calls : presses[d] > 0 => presses'[d] > 0
  <2>1. CASE UNCHANGED vars
    BY <2>1 DEF vars
  <2>2. QED
    BY <1>1, <1>2, <2>1 DEF Next, TypeOK
<1>4. QED
  BY <1>3 DEF Submitted

\* The arguments of a call that pressed Enter were submitted.
LEMMA PressedIsSubmitted ==
    ASSUME NEW c \in Calls, presses[c] > 0
    PROVE  input[c] \in Submitted
BY DEF Submitted

\* A refusal before the prompt is written keeps Honest: the row is as the
\* attempt made it.
LEMMA RefuseHonest ==
    ASSUME IInv, Honest, NEW c \in Calls, NEW status \in Refusals,
           pc[c] \in Preparing, Refuse(c, status),
           UNCHANGED <<serverVars, storeVars, paneVars, histVars>>
    PROVE  Honest'
PROOF
<1> USE DEF serverVars, taskVars, candidateVars, storeVars, paneVars,
            histVars, Goto, id, OneWay, Written, InFlightAt, Preparing,
            Delivering, Ended, Honest, PlacesFit, RowsWait,
            RequestsHaveCalls, RowsTellTruth, AcceptedOrCancelled,
            AnswersKept, GenerationsGrow, Candidates, DropCandidate, IInv
<1>0. /\ TypeOK /\ Submitted' = Submitted
      /\ \A d \in Calls : id(d) \in Ids
  BY IdType DEF Submitted
<1>1. /\ pc' = [pc EXCEPT ![c] = "releasing"]
      /\ receipt' = [receipt EXCEPT ![c] = Rejected(status)]
      /\ inputsSeen' = [inputsSeen EXCEPT ![c] = 0]
  BY DEF Refuse
<1>2. PlacesFit' /\ GenerationsGrow'
  BY <1>0, <1>1 DEF TypeOK, Rejected, Refusals
<1>3. RowsWait'
  BY <1>0, <1>1 DEF TypeOK, OwnsReservation
<1>4. RequestsHaveCalls' /\ RowsTellTruth' /\ AnswersKept'
  BY <1>0, <1>1 DEF TypeOK
<1>5. AcceptedOrCancelled'
  BY <1>0, <1>1 DEF TypeOK
<1>6. QED
  BY <1>2, <1>3, <1>4, <1>5

\* Going on to register or to write keeps Honest.
LEMMA ValidatedHonest ==
    ASSUME IInv, Honest, NEW c \in Calls, NEW place,
           \/ /\ pc[c] \in {"validating", "setting_aside"} /\ OneWay(c)
              /\ place = "writing"
           \/ /\ pc[c] \in {"validating", "setting_aside"} /\ ~OneWay(c)
              /\ place = "creating"
           \/ pc[c] = "revalidating" /\ place = "writing",
           Proceed(c, place),
           UNCHANGED <<serverVars, storeVars, paneVars, histVars>>
    PROVE  Honest'
PROOF
<1> USE DEF serverVars, taskVars, candidateVars, storeVars, paneVars,
            histVars, Goto, id, OneWay, Written, InFlightAt, Preparing,
            Delivering, Ended, Honest, PlacesFit, RowsWait,
            RequestsHaveCalls, RowsTellTruth, AcceptedOrCancelled,
            AnswersKept, GenerationsGrow, Candidates, DropCandidate, IInv
<1>0. /\ TypeOK /\ Submitted' = Submitted
      /\ \A d \in Calls : id(d) \in Ids
  BY IdType DEF Submitted
<1>1. /\ pc' = [pc EXCEPT ![c] = place]
      /\ UNCHANGED <<receipt, inputsSeen>>
  BY DEF Proceed
<1>2. PlacesFit' /\ GenerationsGrow' /\ RowsWait'
  BY <1>0, <1>1 DEF TypeOK
<1>3. /\ RequestsHaveCalls' /\ RowsTellTruth' /\ AnswersKept'
      /\ AcceptedOrCancelled'
  BY <1>0, <1>1 DEF TypeOK
<1>4. QED
  BY <1>2, <1>3

\* Returning a receipt keeps Honest when the receipt tells the truth and
\* leaves no registration behind.
LEMMA ReturnHonest ==
    ASSUME IInv, Honest, NEW c \in Calls, NEW r \in Receipts,
           pc[c] \in InFlightAt, Return(c, r),
           UNCHANGED <<serverVars, storeVars, paneVars, histVars>>,
           r.status = "accepted" =>
               \/ input[c] \in Submitted
               \/ /\ ~OneWay(c)
                  /\ requests[id(c)].state = "cancelled"
                  /\ requests[id(c)].fingerprint = input[c],
           Written(c) /\ OneWay(c) =>
               /\ admissions[id(c)].state = "prepared"
               /\ r = Indeterminate,
           IoFails \/ pc[c] \in {"reading", "creating"}
    PROVE  Honest'
PROOF
<1> USE DEF serverVars, taskVars, candidateVars, storeVars, paneVars,
            histVars, Goto, id, OneWay, Written, InFlightAt, Preparing,
            Delivering, Ended, Honest, PlacesFit, RowsWait,
            RequestsHaveCalls, RowsTellTruth, AcceptedOrCancelled,
            AnswersKept, GenerationsGrow, Candidates, DropCandidate, IInv
<1>0. /\ TypeOK /\ Submitted' = Submitted
      /\ \A d \in Calls : id(d) \in Ids
  BY IdType DEF Submitted
<1>1. /\ pc' = [pc EXCEPT ![c] = "answered"]
      /\ receipt' = [receipt EXCEPT ![c] = r]
      /\ inputsSeen' = [inputsSeen EXCEPT ![c] = 0]
  BY DEF Return
<1>2. PlacesFit' /\ GenerationsGrow' /\ RowsWait' /\ RowsTellTruth'
  BY <1>0, <1>1 DEF TypeOK
<1>3. RequestsHaveCalls'
  BY <1>0, <1>1 DEF TypeOK
<1>4. AcceptedOrCancelled'
  BY <1>0, <1>1 DEF TypeOK, OneAttempt
<1>5. AnswersKept'
  BY <1>0, <1>1 DEF TypeOK
<1>6. QED
  BY <1>2, <1>3, <1>4, <1>5

\* A step of a task keeps Honest.
LEMMA StepHonest ==
    ASSUME IInv, Honest, NEW c \in Calls, Start(c) \/ Step(c)
    PROVE  Honest'
PROOF
<1> USE DEF serverVars, taskVars, candidateVars, storeVars, paneVars,
            histVars, Goto, Proceed, id, OneWay, Written, InFlightAt,
            Preparing, Delivering, Ended, Honest, PlacesFit, RowsWait,
            RequestsHaveCalls, RowsTellTruth, AcceptedOrCancelled,
            AnswersKept, GenerationsGrow, Candidates, DropCandidate
<1>0. TypeOK /\ \A d \in Calls : id(d) \in Ids
  BY IdType DEF IInv
<1>s. input' = input /\ Submitted \subseteq Submitted'
  BY SubmittedGrows DEF Next, IInv
<1>1. CASE Start(c) \/ Enter(c) \/ Refresh(c) \/ SetAside(c)
  <2>1. CASE Start(c)
    BY <2>1, <1>0, <1>s DEF Start, TypeOK
  <2>2. CASE Enter(c)
    BY <2>2, <1>0, <1>s DEF Enter, TypeOK
  <2>3. CASE Refresh(c)
    BY <2>3, <1>0, <1>s DEF Refresh, TypeOK
  <2>4. CASE SetAside(c)
    BY <2>4, <1>0, <1>s DEF SetAside, TypeOK
  <2>5. QED
    BY <1>1, <2>1, <2>2, <2>3, <2>4
<1>2. CASE EnterTimeout(c)
  BY <1>2, <1>0, <1>s DEF EnterTimeout, Indeterminate, TypeOK
<1>3. CASE Lookup(c)
  <2>1. CASE requests[id(c)].state = "none"
    BY <1>3, <2>1, <1>0, <1>s DEF Lookup, TypeOK
  <2>2. CASE requests[id(c)].state # "none"
    <3> DEFINE r == LookupReceipt(c, requests[id(c)])
    <3>1. /\ pc[c] = "reading" /\ Return(c, r)
          /\ UNCHANGED <<serverVars, storeVars, paneVars, histVars>>
          /\ ~OneWay(c)
      BY <1>3, <2>2 DEF Lookup
    <3>2. r \in Receipts
      BY LookupTypes, <1>0
    <3>3. requests[id(c)].state \in Terminal \cup {"registered", "submitted",
                                                   "bound"}
      BY <1>0, <2>2 DEF TypeOK, RequestRows
    <3>4. r.status = "accepted" =>
             \/ input[c] \in Submitted
             \/ /\ requests[id(c)].state = "cancelled"
                /\ requests[id(c)].fingerprint = input[c]
      BY <1>0, <3>3
         DEF LookupReceipt, Indeterminate, Rejected, Terminal
    <3> HIDE DEF r
    <3>5. QED
      BY <3>1, <3>2, <3>4, ReturnHonest
  <2>3. QED
    BY <2>1, <2>2
<1>4. CASE Claim(c)
  <2>0. /\ pc[c] = "reading" /\ OneWay(c) /\ ~Written(c)
        /\ UNCHANGED <<requests, events, serverVars, paneVars, histVars>>
    BY <1>4 DEF Claim
  <2>1. CASE admissions[id(c)].state = "none"
    <3>1. /\ admissions' = [admissions EXCEPT ![id(c)] =
                               [state |-> "prepared", fingerprint |-> input[c],
                                receipt |-> Indeterminate]]
          /\ pc' = [pc EXCEPT ![c] = "capturing"]
          /\ UNCHANGED <<receipt, candidateVars>>
      BY <1>4, <2>1 DEF Claim
    <3>2. PlacesFit' /\ RequestsHaveCalls' /\ GenerationsGrow'
      BY <2>0, <3>1, <1>0 DEF TypeOK
    <3>3. RowsWait' /\ RowsTellTruth'
      BY <2>0, <3>1, <1>0, <1>s DEF TypeOK, Indeterminate
    <3>4. AcceptedOrCancelled'
      BY <2>0, <3>1, <1>0, <1>s DEF TypeOK
    <3>5. AnswersKept'
      BY <2>0, <2>1, <3>1, <1>0 DEF TypeOK
    <3>6. QED
      BY <3>2, <3>3, <3>4, <3>5
  <2>2. CASE /\ Return(c, Rejected("invalid"))
             /\ UNCHANGED admissions
    BY <2>0, <2>2, <1>0, ReturnHonest, ReceiptTypes DEF Rejected, Refusals
  <2>3. CASE /\ admissions[id(c)].state = "prepared"
             /\ admissions[id(c)].fingerprint = input[c]
             /\ admissions' = [admissions EXCEPT ![id(c)] =
                                  [admissions[id(c)] EXCEPT
                                      !.state = "indeterminate",
                                      !.receipt = Indeterminate]]
             /\ Return(c, Indeterminate)
    <3>1. /\ pc' = [pc EXCEPT ![c] = "answered"]
          /\ receipt' = [receipt EXCEPT ![c] = Indeterminate]
          /\ inputsSeen' = [inputsSeen EXCEPT ![c] = 0]
      BY <2>3 DEF Return
    <3>2. PlacesFit' /\ RequestsHaveCalls' /\ GenerationsGrow'
      BY <2>0, <3>1, <1>0 DEF TypeOK
    <3>3. RowsTellTruth'
      BY <2>0, <2>3, <1>0, <1>s DEF TypeOK, Indeterminate, AdmissionRows
    <3>4. AcceptedOrCancelled'
      BY <2>0, <3>1, <1>0, <1>s DEF TypeOK, Indeterminate
    <3>5. RowsWait'
      BY <2>0, <2>3, <3>1, <1>0 DEF TypeOK, IInv, OneAttempt
    <3>6. AnswersKept'
      BY <2>0, <2>3, <3>1, <1>0 DEF TypeOK, AdmissionRows, Indeterminate
    <3>7. QED
      BY <3>2, <3>3, <3>4, <3>5, <3>6
  <2>4. CASE /\ admissions[id(c)].fingerprint = input[c]
             /\ Return(c, admissions[id(c)].receipt)
             /\ UNCHANGED admissions
    <3>1. admissions[id(c)].receipt \in Receipts
      BY <1>0 DEF TypeOK, AdmissionRows
    <3>2. QED
      BY <2>0, <2>4, <3>1, <1>0, ReturnHonest
  <2>5. QED
    BY <1>4, <2>1, <2>2, <2>3, <2>4 DEF Claim
<1>5. CASE ReadFails(c) \/ CreateFails(c) \/ ReleaseFails(c)
  <2> DEFINE r == Rejected("internal_failure")
  <2>1. r \in Receipts /\ r.status # "accepted"
    BY ReceiptTypes DEF Rejected, Refusals
  <2>2. /\ Return(c, r) /\ IoFails
        /\ pc[c] \in {"reading", "creating", "releasing"}
        /\ UNCHANGED <<serverVars, storeVars, paneVars, histVars>>
    BY <1>5 DEF ReadFails, CreateFails, ReleaseFails
  <2>3. ~Written(c)
    BY <2>2 DEF IInv, UnwrittenUntilWritten
  <2> HIDE DEF r
  <2>4. QED
    BY <2>1, <2>2, <2>3, ReturnHonest
<1>6. CASE Capture(c)
  <2>1. CASE \E status \in Refusals : Refuse(c, status)
    BY <1>6, <2>1, RefuseHonest DEF Capture
  <2>2. CASE \A status \in Refusals : ~Refuse(c, status)
    <3>1. /\ pc[c] = "capturing" /\ pc' = [pc EXCEPT ![c] = "refreshing"]
          /\ inputsSeen' = [inputsSeen EXCEPT ![c] = 0]
          /\ UNCHANGED <<receipt, serverVars, storeVars, paneVars, histVars>>
      BY <1>6, <2>2 DEF Capture, Refusals
    <3>2. QED
      BY <3>1, <1>0, <1>s DEF TypeOK
  <2>3. QED
    BY <2>1, <2>2
<1>7. CASE RefreshFails(c)
  BY <1>7, RefuseHonest DEF RefreshFails, Refusals
<1>8. CASE Validate(c) \/ BoxSetAside(c) \/ Revalidate(c)
  <2>1. /\ UNCHANGED <<serverVars, storeVars, paneVars, histVars>>
        /\ \/ \E status \in Refusals : pc[c] \in Preparing /\ Refuse(c, status)
           \/ /\ pc[c] \in {"validating", "setting_aside"}
              /\ \/ OneWay(c) /\ Proceed(c, "writing")
                 \/ ~OneWay(c) /\ Proceed(c, "creating")
           \/ pc[c] = "revalidating" /\ Proceed(c, "writing")
    BY <1>8, <1>0, ValidationTypes
       DEF Validate, BoxSetAside, BoxReady, Revalidate, Refusals
  <2>2. ASSUME NEW status \in Refusals, pc[c] \in Preparing,
               Refuse(c, status)
        PROVE  Honest'
    BY <2>1, <2>2, RefuseHonest
  <2>3. CASE /\ pc[c] \in {"validating", "setting_aside"} /\ OneWay(c)
             /\ Proceed(c, "writing")
    BY <2>1, <2>3, ValidatedHonest
  <2>4. CASE /\ pc[c] \in {"validating", "setting_aside"} /\ ~OneWay(c)
             /\ Proceed(c, "creating")
    BY <2>1, <2>4, ValidatedHonest
  <2>5. CASE pc[c] = "revalidating" /\ Proceed(c, "writing")
    BY <2>1, <2>5, ValidatedHonest
  <2>6. QED
    BY <2>1, <2>2, <2>3, <2>4, <2>5
<1>9. CASE Create(c)
  <2>1. /\ pc[c] = "creating" /\ requests[id(c)].state = "none" /\ ~OneWay(c)
    BY <1>9 DEF Create, IInv, OwnsReservation, ModesApart
  <2>2. /\ requests' = [requests EXCEPT ![id(c)] =
                           [state |-> "registered", fingerprint |-> input[c]]]
        /\ pc' = [pc EXCEPT ![c] = "revalidating"]
        /\ UNCHANGED <<receipt, admissions, events, serverVars, paneVars,
                       histVars, candidateVars>>
    BY <1>9, <2>1 DEF Create
  <2>3. PlacesFit' /\ GenerationsGrow' /\ AnswersKept'
    BY <2>1, <2>2, <1>0 DEF TypeOK
  <2>4. RowsWait' /\ RowsTellTruth'
    BY <2>1, <2>2, <1>0, <1>s DEF TypeOK, IInv, OneAttempt
  <2>5. RequestsHaveCalls'
    BY <2>1, <2>2, <1>0 DEF TypeOK
  <2>6. AcceptedOrCancelled'
    BY <2>1, <2>2, <1>0, <1>s DEF TypeOK
  <2>7. QED
    BY <2>3, <2>4, <2>5, <2>6
<1>10. CASE WritePrompt(c) \/ WriteRefused(c) \/ WriteBreaks(c)
  BY <1>10, <1>0, <1>s DEF WritePrompt, WriteRefused, WriteBreaks, TypeOK
<1>11. CASE PressEnter(c)
  BY <1>11, <1>0, <1>s DEF PressEnter, TypeOK
<1>12. CASE SubmitRefused(c) \/ Withdraw(c) \/ NotTakenBack(c)
  BY <1>12, <1>0, <1>s DEF SubmitRefused, Withdraw, NotTakenBack, TypeOK
<1>13. CASE TakenBack(c)
  BY <1>13, <1>0, <1>s
     DEF TakenBack, Refuse, Rejected, TypeOK, IInv, OwnsReservation
<1>14. CASE PressAgain(c)
  BY <1>14, <1>0, <1>s DEF PressAgain, TypeOK
<1>15. CASE Confirm(c)
  BY <1>15, <1>0, <1>s DEF Confirm, TypeOK
<1>16. CASE RecordFails(c)
  <2>1. /\ Return(c, Indeterminate) /\ IoFails
        /\ pc[c] \in {"finishing", "saving", "failing"}
        /\ UNCHANGED <<serverVars, storeVars, paneVars, histVars>>
    BY <1>16 DEF RecordFails
  <2>2. OneWay(c) => admissions[id(c)].state = "prepared"
    BY <2>1 DEF IInv, OwnsReservation
  <2>3. QED
    BY <2>1, <2>2, ReturnHonest, ReceiptTypes DEF Indeterminate
<1>17. CASE Finish(c)
  <2>1. /\ pc[c] = "finishing" /\ OneWay(c) /\ Written(c)
        /\ input[c] \in Submitted
        /\ admissions[id(c)].fingerprint = input[c]
    BY <1>17, PressedIsSubmitted DEF Finish, IInv, OwnsReservation
  <2>2. /\ admissions' = [admissions EXCEPT ![id(c)] =
                             Finished(@, receipt[c])]
        /\ pc' = [pc EXCEPT ![c] = "answered"]
        /\ receipt' = [receipt EXCEPT ![c] = receipt[c]]
        /\ inputsSeen' = [inputsSeen EXCEPT ![c] = 0]
        /\ UNCHANGED <<requests, events, serverVars, paneVars, histVars>>
    BY <1>17 DEF Finish, Return
  <2>3. /\ Finished(admissions[id(c)], receipt[c]).receipt = receipt[c]
        /\ Finished(admissions[id(c)], receipt[c]).fingerprint = input[c]
        /\ Finished(admissions[id(c)], receipt[c]).state
              \in {"accepted", "indeterminate"}
    BY <1>0, <2>1 DEF Finished, TypeOK, AdmissionRows
  <2>4. PlacesFit' /\ GenerationsGrow' /\ RequestsHaveCalls'
    BY <2>1, <2>2, <1>0 DEF TypeOK
  <2>5. RowsWait'
    BY <2>1, <2>2, <1>0 DEF TypeOK, IInv, OneAttempt
  <2>6. RowsTellTruth'
    BY <2>1, <2>2, <2>3, <1>0, <1>s DEF TypeOK
  <2>7. AcceptedOrCancelled'
    BY <2>1, <2>2, <1>0, <1>s DEF TypeOK
  <2>8. AnswersKept'
    BY <2>1, <2>2, <2>3, <1>0
       DEF TypeOK, IInv, UnwrittenUntilWritten, SameKey
  <2>9. QED
    BY <2>4, <2>5, <2>6, <2>7, <2>8
<1>18. CASE SaveSubmitted(c)
  <2>1. /\ pc[c] = "saving" /\ ~OneWay(c) /\ input[c] \in Submitted
        /\ requests[id(c)].fingerprint = input[c]
    BY <1>18, PressedIsSubmitted
       DEF SaveSubmitted, IInv, KeepsRequest, ModesApart
  <2>2. /\ requests' = [requests EXCEPT ![id(c)].state = "submitted"]
        /\ pc' = [pc EXCEPT ![c] = "answered"]
        /\ receipt' = [receipt EXCEPT ![c] = Accepted]
        /\ inputsSeen' = [inputsSeen EXCEPT ![c] = 0]
        /\ UNCHANGED <<admissions, events, serverVars, paneVars, histVars>>
    BY <1>18 DEF SaveSubmitted, Return, Save, Terminal
  <2>3. PlacesFit' /\ GenerationsGrow' /\ AnswersKept'
    BY <2>1, <2>2, <1>0 DEF TypeOK
  <2>4. RowsWait'
    BY <2>1, <2>2, <1>0 DEF TypeOK, IInv, OneAttempt
  <2>5. RequestsHaveCalls'
    BY <2>1, <2>2, <1>0 DEF TypeOK, RequestRows
  <2>6. RowsTellTruth'
    BY <2>1, <2>2, <1>0, <1>s DEF TypeOK, RequestRows
  <2>7. AcceptedOrCancelled'
    BY <2>1, <2>2, <1>0, <1>s DEF TypeOK
  <2>8. QED
    BY <2>3, <2>4, <2>5, <2>6, <2>7
<1>19. CASE DeliveryFailed(c)
  <2>1. /\ pc[c] = "failing"
        /\ pc' = [pc EXCEPT ![c] = "answered"]
        /\ receipt' = [receipt EXCEPT ![c] = Indeterminate]
        /\ inputsSeen' = [inputsSeen EXCEPT ![c] = 0]
        /\ UNCHANGED <<serverVars, paneVars, histVars>>
    BY <1>19 DEF DeliveryFailed, Return
  <2>2. PlacesFit' /\ GenerationsGrow'
    BY <2>1, <1>0 DEF TypeOK
  <2>3. CASE OneWay(c)
    <3>1. /\ admissions' = [admissions EXCEPT ![id(c)] =
                               Finished(@, Indeterminate)]
          /\ UNCHANGED <<requests, events>>
      BY <1>19, <2>3 DEF DeliveryFailed
    <3>2. /\ Finished(admissions[id(c)], Indeterminate).receipt =
                Indeterminate
          /\ Finished(admissions[id(c)], Indeterminate).state =
                "indeterminate"
      BY <1>0 DEF Finished, TypeOK, AdmissionRows, Indeterminate
    <3>3. RowsWait' /\ RequestsHaveCalls'
      BY <2>1, <2>3, <3>1, <1>0 DEF TypeOK, IInv, OneAttempt
    <3>4. RowsTellTruth'
      BY <2>1, <3>1, <3>2, <1>0, <1>s DEF TypeOK, Indeterminate
    <3>5. AcceptedOrCancelled'
      BY <2>1, <3>1, <1>0, <1>s DEF TypeOK, Indeterminate
    <3>6. AnswersKept'
      BY <2>1, <2>3, <3>1, <3>2, <1>0
         DEF TypeOK, IInv, UnwrittenUntilWritten, SameKey
    <3>7. QED
      BY <2>2, <3>3, <3>4, <3>5, <3>6
  <2>4. CASE ~OneWay(c)
    <3>1. /\ requests' = [requests EXCEPT ![id(c)].state = "indeterminate"]
          /\ events' = events \cup {id(c)}
          /\ UNCHANGED admissions
      BY <1>19, <2>4 DEF DeliveryFailed, Save, Terminal
    <3>2. requests[id(c)].state # "none"
      BY <2>1, <2>4 DEF IInv, KeepsRequest
    <3>3. RowsWait'
      BY <2>1, <2>4, <3>1, <1>0 DEF TypeOK, IInv, OneAttempt
    <3>4. RequestsHaveCalls'
      BY <2>1, <2>4, <3>1, <3>2, <1>0 DEF TypeOK, RequestRows
    <3>5. RowsTellTruth' /\ AnswersKept'
      BY <2>1, <2>4, <3>1, <1>0, <1>s DEF TypeOK, RequestRows
    <3>6. AcceptedOrCancelled'
      BY <2>1, <2>4, <3>1, <1>0, <1>s DEF TypeOK, Indeterminate
    <3>7. QED
      BY <2>2, <3>3, <3>4, <3>5, <3>6
  <2>5. QED
    BY <2>3, <2>4
<1>20. CASE Release(c)
  <2>1. /\ pc[c] = "releasing"
        /\ pc' = [pc EXCEPT ![c] = "answered"]
        /\ receipt' = [receipt EXCEPT ![c] = receipt[c]]
        /\ inputsSeen' = [inputsSeen EXCEPT ![c] = 0]
        /\ UNCHANGED <<events, serverVars, paneVars, histVars>>
    BY <1>20 DEF Release, Return
  <2>2. PlacesFit' /\ GenerationsGrow'
    BY <2>1, <1>0 DEF TypeOK
  <2>3. CASE OneWay(c)
    <3>1. /\ admissions' = [admissions EXCEPT ![id(c)] = NoAdmission]
          /\ UNCHANGED requests
      BY <1>20, <2>1, <2>3 DEF Release
    <3>2. RowsWait' /\ RequestsHaveCalls'
      BY <2>1, <2>3, <3>1, <1>0 DEF TypeOK, IInv, OneAttempt
    <3>3. RowsTellTruth'
      BY <2>1, <3>1, <1>0, <1>s DEF TypeOK, NoAdmission, NoReceipt
    <3>4. AcceptedOrCancelled'
      BY <2>1, <3>1, <1>0, <1>s DEF TypeOK
    <3>5. AnswersKept'
      BY <2>1, <2>3, <3>1, <1>0
         DEF TypeOK, IInv, UnwrittenUntilWritten, SameKey
    <3>6. QED
      BY <2>2, <3>2, <3>3, <3>4, <3>5
  <2>4. CASE ~OneWay(c)
    <3>1. /\ requests' = [requests EXCEPT ![id(c)] = requests'[id(c)]]
          /\ requests'[id(c)].state \in {"none", "cancelled"}
          /\ requests'[id(c)].state = "cancelled" => requests' = requests
          /\ UNCHANGED admissions
      BY <1>20, <2>1, <2>4, <1>0 DEF Release, TypeOK, NoRequest
    <3>2. RowsWait'
      BY <2>1, <2>4, <3>1, <1>0 DEF TypeOK, IInv, OneAttempt
    <3>3. requests'[id(c)].state = "none" => id(c) \notin events
      BY <2>1, <2>4, <1>20, <1>0 DEF Release, TypeOK
    <3>4. RequestsHaveCalls'
      BY <2>1, <2>4, <3>1, <3>3, <1>0 DEF TypeOK
    <3>5. RowsTellTruth' /\ AnswersKept'
      BY <2>1, <2>4, <3>1, <1>0, <1>s DEF TypeOK
    <3>6. AcceptedOrCancelled'
      BY <2>1, <2>4, <3>1, <1>0, <1>s DEF TypeOK
    <3>7. QED
      BY <2>2, <3>2, <3>4, <3>5, <3>6
  <2>5. QED
    BY <2>3, <2>4
<1>21. QED
  BY <1>1, <1>2, <1>3, <1>4, <1>5, <1>6, <1>7, <1>8, <1>9, <1>10, <1>11,
     <1>12, <1>13, <1>14, <1>15, <1>16, <1>17, <1>18, <1>19, <1>20 DEF Step

\* A call names a real incarnation.
LEMMA RealIncarnation ==
    ASSUME TypeOK, NEW c \in Calls
    PROVE  input[c].incarnation # NoAgent
PROOF
<1>1. input[c] \in InputRecords
  BY ConstantsAssumption DEF TypeOK
<1>2. input[c].incarnation \in Incarnations
  BY <1>1 DEF InputRecords
<1>3. QED
  BY <1>2, ConstantsAssumption

\* Watchers, cancellation, the pane and the server's life keep Honest.
LEMMA OtherHonest ==
    ASSUME IInv, Honest,
           (\E i \in Ids : Reconcile(i) \/ Cancel(i)) \/ Environment
    PROVE  Honest'
PROOF
<1> USE DEF serverVars, taskVars, candidateVars, storeVars, paneVars,
            histVars, id, OneWay, Written, InFlightAt, Preparing, Delivering,
            Ended, Honest, PlacesFit, RowsWait, RequestsHaveCalls,
            RowsTellTruth, AcceptedOrCancelled, AnswersKept, GenerationsGrow
<1>0. TypeOK /\ \A d \in Calls : id(d) \in Ids
  BY IdType DEF IInv
<1>s. input' = input /\ Submitted \subseteq Submitted'
  BY SubmittedGrows DEF Next, IInv
<1>1. ASSUME NEW i \in Ids, Reconcile(i) PROVE Honest'
  <2>1. PICK state \in {"bound", "completed", "aborted", "timed_out",
                        "indeterminate"} :
           requests' = [requests EXCEPT ![i].state = state]
    BY <1>1 DEF Reconcile, Reconciled, Save
  <2>2. /\ requests[i].state \in {"submitted", "bound"}
        /\ events' \in {events, events \cup {i}}
        /\ UNCHANGED <<admissions, serverVars, taskVars, candidateVars,
                       paneVars, histVars>>
    BY <1>1 DEF Reconcile, Reconciled, Save
  <2>3. PlacesFit' /\ GenerationsGrow' /\ AnswersKept' /\ RowsWait'
    BY <2>1, <2>2, <1>0 DEF TypeOK
  <2>4. RequestsHaveCalls'
    BY <2>1, <2>2, <1>0 DEF TypeOK, RequestRows
  <2>5. RowsTellTruth'
    BY <2>1, <2>2, <1>0, <1>s DEF TypeOK, RequestRows
  <2>6. AcceptedOrCancelled'
    BY <2>1, <2>2, <1>0, <1>s DEF TypeOK
  <2>7. QED
    BY <2>3, <2>4, <2>5, <2>6
<1>2. ASSUME NEW i \in Ids, Cancel(i) PROVE Honest'
  <2>1. /\ requests[i].state # "none"
        /\ requests' = [requests EXCEPT ![i].state = "cancelled"]
        /\ events' = events \cup {i}
        /\ UNCHANGED <<admissions, serverVars, taskVars, candidateVars,
                       paneVars, histVars>>
    BY <1>2 DEF Cancel, Save, Terminal
  <2>2. PlacesFit' /\ GenerationsGrow' /\ AnswersKept' /\ RowsWait'
    BY <2>1, <1>0 DEF TypeOK, RequestRows
  <2>3. RequestsHaveCalls' /\ RowsTellTruth'
    BY <2>1, <1>0, <1>s DEF TypeOK, RequestRows
  <2>4. AcceptedOrCancelled'
    BY <2>1, <1>0, <1>s DEF TypeOK, RequestRows
  <2>5. QED
    BY <2>2, <2>3, <2>4
<1>3. CASE SomebodyTypes
  BY <1>3, <1>0, <1>s DEF SomebodyTypes, TypeOK
<1>4. CASE AgentLeaves
  BY <1>4, <1>0, <1>s, ConstantsAssumption DEF AgentLeaves, TypeOK, NoAgent
<1>5. CASE AgentRegistered
  <2>1. /\ agent' \in Incarnations \ (retired \cup {agent})
        /\ retired' = retired \cup ({agent} \ {NoAgent})
        /\ UNCHANGED <<generation, others, serverVars, taskVars,
                       candidateVars, storeVars, histVars>>
    BY <1>5 DEF AgentRegistered
  <2>2. \A c \in Calls : input[c].incarnation # NoAgent
    BY <1>0, RealIncarnation
  <2>3. GenerationsGrow'
    BY <2>1, <2>2, <1>0 DEF TypeOK
  <2>4. /\ PlacesFit' /\ RowsWait' /\ RequestsHaveCalls' /\ RowsTellTruth'
        /\ AcceptedOrCancelled' /\ AnswersKept'
    BY <2>1, <1>s
  <2>5. QED
    BY <2>3, <2>4
<1>6. CASE Crash
  <2>1. /\ \A c \in Calls : /\ pc'[c] \in {"new"} \cup Ended
                            /\ pc'[c] = "answered" => pc[c] = "answered"
                            /\ pc[c] \in Ended => pc'[c] = pc[c]
                            /\ pc[c] \notin {"new"} => pc'[c] \in Ended
        /\ ~up' /\ agent' = NoAgent /\ retired' \subseteq Incarnations
        /\ UNCHANGED <<input, receipt, storeVars, histVars>>
    BY <1>6, <1>0 DEF Crash, TypeOK
  <2>2. NoAgent \notin retired'
    BY <2>1, ConstantsAssumption
  <2>3. RowsWait' /\ GenerationsGrow'
    BY <2>1, <2>2
  <2>4. PlacesFit'
    <3>1. \A c \in Calls : pc'[c] \in {"new"} \cup Ended
      BY <2>1
    <3>2. /\ \A c \in typed' : pc'[c] \in {"releasing"} \cup Delivering
                                                        \cup Ended
          /\ \A c \in takenBack' : pc'[c] \in {"releasing"} \cup Ended
          /\ \A c \in disturbed' :
                pc'[c] \in {"confirming", "finishing"} \cup Ended
      BY <2>1, <1>0 DEF TypeOK
    <3>3. QED
      BY <3>1, <3>2
  <2>5. RequestsHaveCalls' /\ RowsTellTruth' /\ AnswersKept'
    BY <2>1, <1>s
  <2>6. AcceptedOrCancelled'
    BY <2>1, <1>s
  <2>7. QED
    BY <2>3, <2>4, <2>5, <2>6
<1>7. CASE Restart
  <2>1. /\ ~up
        /\ \A c \in Calls : pc[c] \in {"new"} \cup Ended
        /\ UNCHANGED <<admissions, input, taskVars, candidateVars, paneVars,
                       histVars>>
    BY <1>7 DEF Restart
  <2>2. \A i \in Ids :
           /\ requests'[i].fingerprint = requests[i].fingerprint
           /\ requests'[i].state = IF requests[i].state = "registered"
                                   THEN "indeterminate"
                                   ELSE requests[i].state
    BY <1>7, <1>0 DEF Restart, Unfinished, TypeOK, RequestRows
  <2>3. \A i \in Ids : i \in events' =>
           i \in events \/ requests[i].state = "registered"
    BY <1>7 DEF Restart, Unfinished
  <2>4. PlacesFit' /\ RowsWait' /\ GenerationsGrow' /\ AnswersKept'
    BY <2>1
  <2>5. RequestsHaveCalls'
    BY <2>1, <2>2, <2>3
  <2>6. RowsTellTruth' /\ AcceptedOrCancelled'
    BY <2>1, <2>2, <1>0, <1>s
  <2>7. QED
    BY <2>4, <2>5, <2>6
<1>8. QED
  BY <1>1, <1>2, <1>3, <1>4, <1>5, <1>6, <1>7 DEF Environment

\* Honest holds initially: nothing was submitted, stored or answered.
LEMMA InitHonest == Init => Honest
BY ConstantsAssumption
   DEF Init, Honest, PlacesFit, RowsWait, RequestsHaveCalls, RowsTellTruth,
       AcceptedOrCancelled, AnswersKept, GenerationsGrow, Written, Ended,
       NoAdmission, NoRequest, NoReceipt

\* Every step, and stuttering, keeps Honest.
LEMMA NextHonest == IInv /\ Honest /\ [Next]_vars => Honest'
PROOF
<1>1. CASE UNCHANGED vars
  <2>1. Submitted' = Submitted
    BY <1>1 DEF vars, serverVars, histVars, Submitted
  <2>2. QED
    BY <1>1, <2>1
       DEF vars, serverVars, taskVars, candidateVars, storeVars, paneVars,
           histVars, id, OneWay, Written, Honest, PlacesFit, RowsWait,
           RequestsHaveCalls, RowsTellTruth, AcceptedOrCancelled,
           AnswersKept, GenerationsGrow
<1>2. QED
  BY <1>1, StepHonest, OtherHonest DEF Next

\* Both inductive invariants hold in every reachable state.
LEMMA SafeAndHonest == Spec => [](IInv /\ Honest)
PROOF
<1>1. QED
  BY InitSafe, NextSafe, InitHonest, NextHonest, PTL DEF Spec

-----------------------------------------------------------------------------
\* An accepted receipt always means that an attempt with the same arguments
\* pressed Enter, or that the request was cancelled while it was admitted:
\* whatever is repeated, fails or is lost in between.
THEOREM AcceptedIsEntered == Spec => []AcceptedMeansEntered
PROOF
<1>1. Honest => AcceptedMeansEntered
  BY DEF Honest, AcceptedOrCancelled, AcceptedMeansEntered, Submitted
<1>2. QED
  BY <1>1, SafeAndHonest, PTL

\* While the stores work, no server accepts calls with a registration on its
\* books that none of its own tasks will end.
THEOREM NoStrayRegistration == Spec => []RegistrationsAreOwned
PROOF
<1>1. Honest => RegistrationsAreOwned
  BY DEF Honest, RequestsHaveCalls, RegistrationsAreOwned, InFlightAt,
         Preparing
<1>2. QED
  BY <1>1, SafeAndHonest, PTL

-----------------------------------------------------------------------------
\* A task that returns a receipt that is no refusal by admission frees, as
\* far as the promise goes, nothing.
LEMMA ReturnFreesNothing ==
    ASSUME TypeOK, NEW e \in Calls, NEW r, Return(e, r),
           \/ r.written # "no"
           \/ r.status \in {"invalid", "internal_failure"}
    PROVE  FreesIdStep
BY DEF FreesIdStep, Answers, TypeOK, Return, Goto

\* Every refusal a step answers has released the id.
LEMMA StepFrees ==
    ASSUME IInv, Honest, NEW e \in Calls, Start(e) \/ Step(e)
    PROVE  FreesIdStep
PROOF
<1>0. TypeOK /\ id(e) \in Ids
  BY IdType DEF IInv
<1> USE DEF Accepted, Indeterminate, Rejected
<1>1. CASE EnterTimeout(e)
  BY <1>0, <1>1 DEF EnterTimeout, FreesIdStep, Answers, TypeOK, Goto
<1>2. CASE Lookup(e)
  BY <1>0, <1>2, ReturnFreesNothing
     DEF Lookup, LookupReceipt, Proceed, Goto, FreesIdStep, Answers, TypeOK
<1>3. CASE Claim(e)
  <2>1. admissions[id(e)].receipt.written # "no"
    BY <1>0 DEF IInv, RowsNeverRefuse
  <2>2. QED
    BY <1>0, <1>3, <2>1, ReturnFreesNothing
       DEF Claim, Proceed, Goto, FreesIdStep, Answers, TypeOK
<1>4. CASE ReadFails(e) \/ CreateFails(e) \/ ReleaseFails(e)
  BY <1>0, <1>4, ReturnFreesNothing DEF ReadFails, CreateFails, ReleaseFails
<1>5. CASE Create(e)
  BY <1>0, <1>5, ReturnFreesNothing
     DEF Create, Proceed, Goto, FreesIdStep, Answers, TypeOK
<1>6. CASE Finish(e)
  BY <1>0, <1>6, ReturnFreesNothing DEF Finish, IInv, RowsNeverRefuse
<1>7. CASE SaveSubmitted(e) \/ RecordFails(e) \/ DeliveryFailed(e)
  BY <1>0, <1>7, ReturnFreesNothing
     DEF SaveSubmitted, RecordFails, DeliveryFailed
<1>8. CASE Release(e)
  <2>1. /\ pc[e] = "releasing"
        /\ \A c \in Calls : Answers(c) => c = e
    BY <1>0, <1>8 DEF Release, Return, Goto, Answers, TypeOK
  <2>2. IF OneWay(e) THEN admissions'[id(e)].state = "none"
        ELSE requests'[id(e)].state \in {"none", "cancelled"}
    BY <1>0, <1>8, <2>1
       DEF Release, Honest, RowsWait, TypeOK, NoAdmission, NoRequest
  <2>3. QED
    BY <2>1, <2>2 DEF FreesIdStep
<1>9. QED
  BY <1>0, <1>1, <1>2, <1>3, <1>4, <1>5, <1>6, <1>7, <1>8,
     GoingOnAnswersNobody DEF Step, FreesIdStep

\* Nothing but a step of a task answers a call.
LEMMA OthersAnswerNobody ==
    ASSUME TypeOK,
           \/ (\E i \in Ids : Reconcile(i) \/ Cancel(i)) \/ Environment
           \/ UNCHANGED vars
    PROVE  \A c \in Calls : ~Answers(c)
PROOF
<1>1. CASE \E i \in Ids : Reconcile(i) \/ Cancel(i)
  BY <1>1 DEF Reconcile, Cancel, taskVars, Answers
<1>2. CASE Environment
  BY <1>2
     DEF Environment, SomebodyTypes, AgentLeaves, AgentRegistered, Crash,
         Restart, taskVars, Answers, TypeOK, Ended
<1>3. CASE UNCHANGED vars
  BY <1>3 DEF vars, taskVars, Answers
<1>4. QED
  BY <1>1, <1>2, <1>3

\* A call that is refused can be repeated: its reservation is gone when it
\* is answered, or the request was cancelled.
THEOREM RefusedIdIsFree == Spec => RefusalFreesId
PROOF
<1>1. IInv /\ Honest /\ [Next]_vars => [FreesIdStep]_vars
  BY StepFrees, OthersAnswerNobody DEF Next, FreesIdStep, IInv
<1>2. QED
  BY <1>1, SafeAndHonest, PTL DEF Spec, RefusalFreesId

\* A step that answers a repeat of a written one-way prompt is the claim.
LEMMA StepRepeats ==
    ASSUME IInv, Honest, NEW e \in Calls, Start(e) \/ Step(e)
    PROVE  SameReceiptStep
PROOF
<1> SUFFICES ASSUME NEW c \in Calls, NEW d \in Calls,
                    pc[c] = "answered", Written(c), OneWay(c),
                    input[d] = input[c], Answers(d), pc[d] # "waiting",
                    receipt'[d].status # "internal_failure"
             PROVE  receipt'[d] = receipt[c]
  BY DEF SameReceiptStep
<1>0. TypeOK /\ id(d) \in Ids /\ id(d) = id(c) /\ OneWay(d)
  BY IdType DEF IInv, id, OneWay
<1>1. pc[d] \notin {"releasing"} \cup Preparing \cup Delivering
  BY <1>0 DEF IInv, UnwrittenUntilWritten, SameKey, Answers
<1>2. /\ admissions[id(d)].state \in {"prepared", "accepted",
                                      "indeterminate"}
      /\ admissions[id(d)].fingerprint = input[d]
  BY <1>0 DEF IInv, WrittenIsRecorded, TypeOK, AdmissionRows
<1>3. IF admissions[id(d)].state = "prepared" THEN receipt[c] = Indeterminate
      ELSE receipt[c] = admissions[id(d)].receipt
  BY <1>0, <1>2 DEF Honest, AnswersKept
<1>4. d = e \/ pc'[d] = pc[d]
  BY <1>0 DEF Answers, Step, Start, Enter, EnterTimeout, Lookup, Claim,
     ReadFails, Capture, Refresh, RefreshFails, Validate, SetAside,
     BoxSetAside, BoxReady, Create, CreateFails, Revalidate, WritePrompt,
     WriteRefused, WriteBreaks, PressEnter, SubmitRefused, Withdraw,
     TakenBack, NotTakenBack, PressAgain, Confirm, Finish, SaveSubmitted,
     RecordFails, DeliveryFailed, Release, ReleaseFails, Goto, Proceed,
     Refuse, Return, TypeOK, taskVars
<1>5. d = e
  BY <1>4 DEF Answers
<1>6. Claim(d) \/ Lookup(d) \/ ReadFails(d)
  BY <1>0, <1>1, <1>5, GoingOnAnswersNobody
     DEF Step, EnterTimeout, Create, CreateFails, Finish, SaveSubmitted,
         RecordFails, DeliveryFailed, Release, ReleaseFails, Preparing,
         Delivering
<1>7. CASE Claim(d)
  BY <1>0, <1>2, <1>3, <1>7 DEF Claim, Return, TypeOK
<1>8. CASE Lookup(d) \/ ReadFails(d)
  BY <1>0, <1>8 DEF Lookup, ReadFails, Return, Rejected, TypeOK
<1>9. QED
  BY <1>6, <1>7, <1>8

\* Whoever repeats a one-way call whose prompt was written, and is answered
\* from the store, gets the receipt the first call got.
THEOREM RepeatedReceiptIsSame == Spec => RepeatReturnsSameReceipt
PROOF
<1>1. IInv /\ Honest /\ [Next]_vars => [SameReceiptStep]_vars
  BY StepRepeats, OthersAnswerNobody DEF Next, SameReceiptStep, IInv
<1>2. QED
  BY <1>1, SafeAndHonest, PTL DEF Spec, RepeatReturnsSameReceipt

\* Only PressEnter and PressAgain press Enter.
LEMMA WhoPresses ==
    ASSUME TypeOK, [Next]_vars, NEW c \in Calls, presses'[c] > presses[c]
    PROVE  PressEnter(c) \/ PressAgain(c)
PROOF
<1> USE DEF histVars, TypeOK
<1>1. ASSUME NEW e \in Calls, Start(e) \/ Step(e)
      PROVE  presses' = presses \/ PressEnter(e) \/ PressAgain(e)
  BY <1>1 DEF Step, Start, Enter, EnterTimeout, Lookup, Claim, ReadFails,
     Capture, Refresh, RefreshFails, Validate, SetAside, BoxSetAside, Create,
     CreateFails, Revalidate, WritePrompt, WriteRefused, WriteBreaks,
     SubmitRefused, Withdraw, TakenBack, NotTakenBack, Confirm, Finish,
     SaveSubmitted, RecordFails, DeliveryFailed, Release, ReleaseFails
<1>2. ASSUME (\E i \in Ids : Reconcile(i) \/ Cancel(i)) \/ Environment
      PROVE  presses' = presses
  BY <1>2 DEF Reconcile, Cancel, Environment, SomebodyTypes, AgentLeaves,
     AgentRegistered, Crash, Restart
<1>3. UNCHANGED vars => presses' = presses
  BY DEF vars
<1>4. PICK e \in Calls : PressEnter(e) \/ PressAgain(e)
  BY <1>1, <1>2, <1>3 DEF Next
<1>5. e = c
  BY <1>4 DEF PressEnter, PressAgain
<1>6. QED
  BY <1>4, <1>5

\* Somebody who types over a prompt that Claude left in its box is never
\* submitted by admission's repeated Enter: also not when the agent was
\* replaced and the pane's input generation started over.
THEOREM OthersAreNotSubmitted == Spec => OthersStopEnter
PROOF
<1>1. ASSUME IInv, Honest, [Next]_vars
      PROVE  EnterAgainStep
  <2> SUFFICES ASSUME NEW c \in Calls, pc[c] = "confirming",
                      presses'[c] > presses[c], c \in disturbed
               PROVE  FALSE
    BY DEF EnterAgainStep
  <2>1. PressAgain(c)
    BY <1>1, WhoPresses DEF PressEnter, IInv
  <2>2. agent = input[c].incarnation /\ generation = inputsSeen[c]
    BY <2>1 DEF PressAgain
  <2>3. QED
    BY <1>1, <2>2 DEF Honest, GenerationsGrow, IInv, TypeOK
<1>2. QED
  BY <1>1, SafeAndHonest, PTL DEF Spec, OthersStopEnter

-----------------------------------------------------------------------------
(* Admission implements PromptDelivery.  The variables of the promise:     *)

InPane == typed \ takenBack
Entered == {c \in Calls : presses[c] > 0}
CancelledIds == {i \in Ids : requests[i].state = "cancelled"}
AnswerOf == [c \in Calls |-> Answered(c)]

\* How a step of the promise looks in terms of these variables.
LEMMA PromiseStutters ==
    ASSUME UNCHANGED <<input, InPane, Entered, CancelledIds, AnswerOf>>
    PROVE  UNCHANGED Promise!vars
BY DEF Promise!vars, InPane, Entered, CancelledIds, AnswerOf

\* Writing a prompt delivers it.
LEMMA PromiseDelivers ==
    ASSUME NEW c \in Calls, AnswerOf[c] = "none",
           \A d \in InPane : ~(/\ input[d].id = input[c].id
                               /\ input[d].final = input[c].final),
           InPane' = InPane \cup {c},
           UNCHANGED <<input, Entered, CancelledIds, AnswerOf>>
    PROVE  Promise!Next
BY DEF Promise!Next, Promise!Deliver, Promise!SameRequest, InPane, Entered,
       CancelledIds, AnswerOf

\* Taking a prompt out of the box takes it back.
LEMMA PromiseTakesBack ==
    ASSUME NEW c \in Calls, AnswerOf[c] = "none",
           InPane' = InPane \ {c},
           UNCHANGED <<input, Entered, CancelledIds, AnswerOf>>
    PROVE  Promise!Next
BY DEF Promise!Next, Promise!TakeBack, InPane, Entered, CancelledIds,
       AnswerOf

\* The first Enter of a call enters its prompt.
LEMMA PromiseEnters ==
    ASSUME NEW c \in Calls, AnswerOf[c] = "none", c \in InPane,
           Entered' = Entered \cup {c},
           UNCHANGED <<input, InPane, CancelledIds, AnswerOf>>
    PROVE  Promise!Next
BY DEF Promise!Next, Promise!PressEnter, InPane, Entered, CancelledIds,
       AnswerOf

\* Cancelling the request of some call cancels it.
LEMMA PromiseCancels ==
    ASSUME NEW c \in Calls, CancelledIds' = CancelledIds \cup {input[c].id},
           UNCHANGED <<input, InPane, Entered, AnswerOf>>
    PROVE  Promise!Next
BY DEF Promise!Next, Promise!Cancel, InPane, Entered, CancelledIds, AnswerOf

\* An answer that is true is one the promise allows.
LEMMA PromiseAnswers ==
    ASSUME NEW c \in Calls, NEW a \in Promise!Answers, AnswerOf[c] = "none",
           a = "accepted" =>
              \/ \E d \in Entered : input[d] = input[c]
              \/ input[c].final /\ input[c].id \in CancelledIds,
           a = "refused" => \A d \in InPane : input[d] # input[c],
           AnswerOf' = [AnswerOf EXCEPT ![c] = a],
           CancelledIds' \in {CancelledIds, CancelledIds \ {input[c].id}},
           UNCHANGED <<input, InPane, Entered>>
    PROVE  Promise!Next
BY DEF Promise!Next, Promise!Answer, InPane, Entered, CancelledIds, AnswerOf

\* A stop of the server loses the open calls.
LEMMA PromiseLoses ==
    ASSUME NEW open \in SUBSET Calls, \A c \in open : AnswerOf[c] = "none",
           AnswerOf' = [c \in Calls |-> IF c \in open THEN "lost"
                                        ELSE AnswerOf[c]],
           UNCHANGED <<input, InPane, Entered, CancelledIds>>
    PROVE  Promise!Next
BY DEF Promise!Next, Promise!Lose, InPane, Entered, CancelledIds, AnswerOf

\* What a step of a task leaves alone: the other calls, their requests, and,
\* when it answers, the prompts in the pane.  No task cancels a request.
StepShape(e) ==
    /\ pc[e] \notin Ended
    /\ \A d \in Calls \ {e} : pc'[d] = pc[d] /\ receipt'[d] = receipt[d]
    /\ pc'[e] # "lost"
    /\ \A i \in Ids \ {id(e)} : requests'[i] = requests[i]
    /\ requests'[id(e)].state = "cancelled" =>
          requests[id(e)].state = "cancelled"
    /\ pc'[e] # "answered" /\ requests[id(e)].state = "cancelled" =>
          requests'[id(e)].state = "cancelled"
    /\ pc'[e] = "answered" => UNCHANGED <<typed, takenBack, presses>>
    /\ input' = input

\* Every step of a task has that shape.
LEMMA StepHasShape ==
    ASSUME TypeOK, NEW e \in Calls, Start(e) \/ Step(e)
    PROVE  StepShape(e)
PROOF
<1> USE DEF StepShape, serverVars, taskVars, candidateVars, storeVars,
            paneVars, histVars, Goto, Proceed, Refuse, Return, Ended, TypeOK
<1>0. id(e) \in Ids
  BY IdType
<1>1. CASE \/ Start(e) \/ Enter(e) \/ EnterTimeout(e) \/ Lookup(e)
           \/ ReadFails(e) \/ Capture(e) \/ Refresh(e) \/ RefreshFails(e)
           \/ SetAside(e)
  BY <1>0, <1>1 DEF Start, Enter, EnterTimeout, Lookup, ReadFails, Capture,
     Refresh, RefreshFails, SetAside
<1>2. CASE Claim(e)
  BY <1>0, <1>2 DEF Claim
<1>3. CASE \/ Validate(e) \/ BoxSetAside(e) \/ Revalidate(e)
           \/ CreateFails(e) \/ WriteRefused(e) \/ WriteBreaks(e)
           \/ WritePrompt(e) \/ PressEnter(e) \/ SubmitRefused(e)
  BY <1>0, <1>3 DEF Validate, BoxSetAside, BoxReady, Revalidate,
     CreateFails, WriteRefused, WriteBreaks, WritePrompt, PressEnter,
     SubmitRefused
<1>4. CASE Create(e)
  BY <1>0, <1>4 DEF Create
<1>5. CASE \/ Withdraw(e) \/ TakenBack(e) \/ NotTakenBack(e)
           \/ PressAgain(e) \/ Confirm(e) \/ Finish(e) \/ RecordFails(e)
           \/ ReleaseFails(e)
  BY <1>0, <1>5 DEF Withdraw, TakenBack, NotTakenBack, PressAgain, Confirm,
     Finish, RecordFails, ReleaseFails
<1>6. CASE SaveSubmitted(e)
  BY <1>0, <1>6 DEF SaveSubmitted, Save, RequestRows
<1>7. CASE DeliveryFailed(e)
  <2>1. /\ pc[e] = "failing" /\ pc' = [pc EXCEPT ![e] = "answered"]
        /\ receipt' = [receipt EXCEPT ![e] = Indeterminate]
        /\ UNCHANGED <<serverVars, histVars>>
    BY <1>7 DEF DeliveryFailed
  <2>2. \/ UNCHANGED requests
        \/ requests' = [requests EXCEPT ![id(e)].state = "indeterminate"]
    BY <1>7 DEF DeliveryFailed, Save
  <2>3. QED
    BY <1>0, <2>1, <2>2 DEF RequestRows
<1>8. CASE Release(e)
  <2>1. /\ pc[e] = "releasing" /\ pc' = [pc EXCEPT ![e] = "answered"]
        /\ receipt' = [receipt EXCEPT ![e] = receipt[e]]
        /\ UNCHANGED <<serverVars, histVars>>
    BY <1>8 DEF Release
  <2>2. \/ UNCHANGED requests
        \/ requests' = [requests EXCEPT ![id(e)] = NoRequest]
    BY <1>8 DEF Release
  <2>3. QED
    BY <1>0, <2>1, <2>2 DEF NoRequest
<1>9. QED
  BY <1>1, <1>2, <1>3, <1>4, <1>5, <1>6, <1>7, <1>8 DEF Step

\* A call that its task has not answered yet is open.
LEMMA OpenCalls ==
    ASSUME TypeOK, NEW c \in Calls
    PROVE  AnswerOf[c] = "none" <=> pc[c] \notin Ended
BY DEF AnswerOf, Answered, Ended, TypeOK

\* A step that answers nobody changes no answer and cancels nothing.
LEMMA GoingOnIsSilent ==
    ASSUME TypeOK, NEW e \in Calls, StepShape(e), ~Answers(e)
    PROVE  UNCHANGED <<input, CancelledIds, AnswerOf>>
PROOF
<1>1. pc'[e] \notin Ended
  BY DEF StepShape, Answers, Ended
<1>2. \A d \in Calls : Answered(d)' = Answered(d)
  BY <1>1 DEF StepShape, Answered, Ended
<1>3. AnswerOf' = AnswerOf
  BY <1>2 DEF AnswerOf
<1>4. \A i \in Ids :
         (requests'[i].state = "cancelled") = (requests[i].state = "cancelled")
  BY <1>1 DEF StepShape, Ended
<1>5. CancelledIds' = CancelledIds
  BY <1>4 DEF CancelledIds
<1>6. QED
  BY <1>3, <1>5 DEF StepShape

\* A step that answers a call does what the promise says an answer does.
LEMMA AnsweringKeepsPromise ==
    ASSUME IInv, Honest, Honest', NEW e \in Calls, StepShape(e), RefusalStep,
           Answers(e)
    PROVE  Promise!Next
PROOF
<1>0. TypeOK /\ id(e) \in Ids
  BY IdType DEF IInv
<1> DEFINE a == Answered(e)'
<1>1. /\ pc'[e] = "answered"
      /\ UNCHANGED <<input, typed, takenBack, presses>>
  BY DEF StepShape, Answers
<1>2. UNCHANGED <<input, InPane, Entered>>
  BY <1>1 DEF InPane, Entered
<1>3. AnswerOf[e] = "none"
  BY <1>0, OpenCalls DEF StepShape
<1>4. a \in Promise!Answers
  BY <1>1 DEF Answered, Promise!Answers
<1>5. AnswerOf' = [AnswerOf EXCEPT ![e] = a]
  <2>1. \A d \in Calls \ {e} : Answered(d)' = Answered(d)
    BY DEF StepShape, Answered
  <2>2. QED
    BY <2>1 DEF AnswerOf
<1>6. CancelledIds' \in {CancelledIds, CancelledIds \ {input[e].id}}
  BY <1>0 DEF StepShape, CancelledIds, id
<1>7. a = "accepted" =>
         \/ \E d \in Entered : input[d] = input[e]
         \/ input[e].final /\ input[e].id \in CancelledIds
  <2>1. a = "accepted" => receipt'[e].status = "accepted"
    BY <1>1 DEF Answered
  <2>2. a = "accepted" => \/ input[e] \in Submitted
                          \/ ~OneWay(e) /\ requests'[id(e)].state = "cancelled"
    BY <1>1, <2>1 DEF Honest, AcceptedOrCancelled, Submitted, OneWay, id
  <2>3. QED
    BY <1>0, <1>1, <2>2
       DEF StepShape, Submitted, Entered, CancelledIds, OneWay, id
<1>8. a = "refused" => \A d \in InPane : input[d] # input[e]
  <2>1. a = "refused" => /\ receipt'[e].written = "no"
                         /\ receipt'[e].status # "internal_failure"
    BY <1>1 DEF Answered
  <2>2. InPane \subseteq Calls
    BY <1>0 DEF InPane, TypeOK
  <2>3. QED
    BY <2>1, <2>2 DEF RefusalStep, Written, InPane
<1> HIDE DEF a
<1>9. QED
  BY <1>2, <1>3, <1>4, <1>5, <1>6, <1>7, <1>8, PromiseAnswers

\* Every step of a task is a step of the promise, or is invisible.
LEMMA StepKeepsPromise ==
    ASSUME IInv, Honest, Honest', NEW e \in Calls, Start(e) \/ Step(e)
    PROVE  [Promise!Next]_(Promise!vars)
PROOF
<1>0. TypeOK /\ StepShape(e)
  BY StepHasShape DEF IInv
<1>1. CASE Answers(e)
  BY <1>0, <1>1, StepRefusal, AnsweringKeepsPromise
<1>2. ASSUME ~Answers(e), UNCHANGED <<typed, takenBack, presses>>
      PROVE  UNCHANGED Promise!vars
  BY <1>0, <1>2, GoingOnIsSilent, PromiseStutters DEF InPane, Entered
<1>3. CASE WritePrompt(e) \/ WriteBreaks(e)
  <2>1. /\ ~Answers(e) /\ pc[e] = "writing"
        /\ typed' = typed \cup {e} /\ UNCHANGED <<takenBack, presses>>
    BY <1>0, <1>3 DEF WritePrompt, WriteBreaks, Answers, Proceed, Goto, TypeOK
  <2>2. e \notin takenBack
    BY <2>1 DEF Honest, PlacesFit, Ended
  <2>3. InPane' = InPane \cup {e} /\ UNCHANGED Entered
    BY <2>1, <2>2 DEF InPane, Entered
  <2>4. \A d \in InPane : ~(/\ input[d].id = input[e].id
                            /\ input[d].final = input[e].final)
    <3>1. \A d \in Calls : Written(d) => ~SameKey(e, d)
      BY <2>1 DEF IInv, UnwrittenUntilWritten, Preparing
    <3>2. InPane \subseteq Calls
      BY <1>0 DEF InPane, TypeOK
    <3>3. QED
      BY <3>1, <3>2 DEF InPane, Written, SameKey, id, OneWay
  <2>5. QED
    BY <1>0, <2>1, <2>3, <2>4, GoingOnIsSilent, OpenCalls, PromiseDelivers
       DEF StepShape
<1>4. CASE TakenBack(e)
  <2>1. /\ ~Answers(e) /\ takenBack' = takenBack \cup {e}
        /\ UNCHANGED <<typed, presses>>
    BY <1>0, <1>4 DEF TakenBack, Answers, Refuse, Goto, TypeOK
  <2>2. InPane' = InPane \ {e} /\ UNCHANGED Entered
    BY <2>1 DEF InPane, Entered
  <2>3. QED
    BY <1>0, <2>1, <2>2, GoingOnIsSilent, OpenCalls, PromiseTakesBack
       DEF StepShape
<1>5. CASE PressEnter(e) \/ PressAgain(e)
  <2>1. /\ ~Answers(e) /\ pc[e] \in {"typed", "confirming"}
        /\ presses' = [presses EXCEPT ![e] = @ + 1]
        /\ UNCHANGED <<typed, takenBack>>
    BY <1>0, <1>5
       DEF PressEnter, PressAgain, Answers, Goto, TypeOK, taskVars
  <2>2. e \in InPane
    BY <2>1 DEF Honest, PlacesFit, InPane, Written
  <2>3. Entered' = Entered \cup {e} /\ UNCHANGED InPane
    BY <1>0, <2>1 DEF Entered, InPane, TypeOK
  <2>4. QED
    BY <1>0, <2>1, <2>2, <2>3, GoingOnIsSilent, OpenCalls, PromiseEnters
       DEF StepShape
<1>6. CASE ~Answers(e) /\ ~UNCHANGED <<typed, takenBack, presses>>
  BY <1>3, <1>4, <1>5, <1>6
     DEF Step, Start, Enter, EnterTimeout, Lookup, Claim, ReadFails,
     Capture, Refresh, RefreshFails, Validate, SetAside, BoxSetAside, Create,
     CreateFails, Revalidate, WriteRefused, SubmitRefused, Withdraw,
     NotTakenBack, Confirm, Finish, SaveSubmitted, RecordFails,
     DeliveryFailed, Release, ReleaseFails, histVars
<1>7. QED
  BY <1>1, <1>2, <1>6

\* Watchers, cancellation, the pane and the server's life do what the
\* promise allows: they cancel a request that some call made, or lose the
\* calls that were open.
LEMMA OtherKeepsPromise ==
    ASSUME IInv, Honest,
           (\E i \in Ids : Reconcile(i) \/ Cancel(i)) \/ Environment
    PROVE  [Promise!Next]_(Promise!vars)
PROOF
<1> USE DEF serverVars, taskVars, storeVars, histVars
<1>0. TypeOK
  BY DEF IInv
<1>1. ASSUME UNCHANGED <<input, pc, receipt, typed, takenBack, presses>>
      PROVE  UNCHANGED <<input, InPane, Entered, AnswerOf>>
  BY <1>1 DEF InPane, Entered, AnswerOf, Answered
<1>2. ASSUME NEW i \in Ids, Reconcile(i)
      PROVE  UNCHANGED Promise!vars
  <2>1. PICK state \in {"bound", "completed", "aborted", "timed_out",
                        "indeterminate"} :
           requests' = [requests EXCEPT ![i].state = state]
    BY <1>2 DEF Reconcile, Reconciled, Save
  <2>2. /\ requests[i].state # "cancelled"
        /\ UNCHANGED <<input, pc, receipt, typed, takenBack, presses>>
    BY <1>2 DEF Reconcile, Reconciled
  <2>3. CancelledIds' = CancelledIds
    BY <1>0, <2>1, <2>2 DEF CancelledIds, TypeOK, RequestRows
  <2>4. QED
    BY <1>1, <2>2, <2>3, PromiseStutters
<1>3. ASSUME NEW i \in Ids, Cancel(i)
      PROVE  Promise!Next
  <2>1. /\ requests[i].state # "none"
        /\ requests' = [requests EXCEPT ![i].state = "cancelled"]
        /\ UNCHANGED <<input, pc, receipt, typed, takenBack, presses>>
    BY <1>3 DEF Cancel, Save
  <2>2. PICK c \in Calls : input[c].id = i
    BY <2>1 DEF Honest, RequestsHaveCalls, id
  <2>3. CancelledIds' = CancelledIds \cup {i}
    BY <1>0, <2>1 DEF CancelledIds, TypeOK, RequestRows
  <2>4. QED
    BY <1>1, <2>1, <2>2, <2>3, PromiseCancels
<1>4. CASE SomebodyTypes \/ AgentLeaves \/ AgentRegistered
  <2>1. UNCHANGED <<input, pc, receipt, typed, takenBack, presses, requests>>
    BY <1>4 DEF SomebodyTypes, AgentLeaves, AgentRegistered
  <2>2. QED
    BY <1>1, <2>1, PromiseStutters DEF CancelledIds
<1>5. CASE Crash
  <2> DEFINE open == {c \in Calls : pc[c] \notin {"new"} \cup Ended}
  <2>1. /\ \A c \in Calls : pc'[c] = IF c \in open THEN "lost" ELSE pc[c]
        /\ UNCHANGED <<input, receipt, requests, typed, takenBack, presses>>
    BY <1>5 DEF Crash
  <2>2. \A c \in open : AnswerOf[c] = "none"
    BY <1>0, OpenCalls
  <2>3. AnswerOf' = [c \in Calls |-> IF c \in open THEN "lost"
                                     ELSE AnswerOf[c]]
    BY <2>1 DEF AnswerOf, Answered
  <2>4. UNCHANGED <<input, InPane, Entered, CancelledIds>>
    BY <2>1 DEF InPane, Entered, CancelledIds
  <2> HIDE DEF open
  <2>5. open \in SUBSET Calls
    BY DEF open
  <2>6. QED
    BY <2>2, <2>3, <2>4, <2>5, PromiseLoses
<1>6. CASE Restart
  <2>1. \A i \in Ids : (requests'[i].state = "cancelled")
                          = (requests[i].state = "cancelled")
    BY <1>0, <1>6 DEF Restart, Unfinished, TypeOK, RequestRows
  <2>2. UNCHANGED <<input, pc, receipt, typed, takenBack, presses>>
    BY <1>6 DEF Restart
  <2>3. QED
    BY <1>1, <2>1, <2>2, PromiseStutters DEF CancelledIds
<1>7. QED
  BY <1>2, <1>3, <1>4, <1>5, <1>6 DEF Environment

\* Admission implements what PromptDelivery promises its clients, for any
\* calls, ids and incarnations: prompts are delivered once per request, a
\* refusal and an acceptance mean what they say, and a stop of the server
\* only loses answers.
THEOREM AdmissionKeepsPromise == Spec => KeepsPromise
PROOF
<1>1. Init => Promise!Init
  BY ConstantsAssumption
     DEF Init, Promise!Init, Answered, NoRequest, NoReceipt
<1>2. IInv /\ Honest /\ (IInv /\ Honest)' /\ [Next]_vars
         => [Promise!Next]_(Promise!vars)
  <2>1. UNCHANGED vars => UNCHANGED Promise!vars
    BY DEF vars, serverVars, taskVars, storeVars, histVars, Promise!vars,
           Answered
  <2>2. QED
    BY <2>1, StepKeepsPromise, OtherKeepsPromise DEF Next
<1>3. QED
  BY <1>1, <1>2, SafeAndHonest, PTL DEF Spec, KeepsPromise, Promise!Spec

=============================================================================
