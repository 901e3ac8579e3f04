--------------------------- MODULE PromptDelivery ---------------------------
(***************************************************************************)
(* What prompt admission promises a client, whatever goes on inside the    *)
(* server: a request is delivered at most once, the three kinds of answer  *)
(* mean what they say, and an answer is given once.                        *)
(***************************************************************************)
CONSTANTS
    Calls,     \* the AdmitAgentPrompt calls clients may make
    Arguments  \* what a call asks for: records with an id and a final flag

VARIABLES
    asks,      \* what each call asks for
    inPane,    \* the calls whose prompt was written and not taken back
    entered,   \* the calls that pressed Enter
    cancelled, \* the request ids whose row says cancelled
    answer     \* the answer to each call

vars == <<asks, inPane, entered, cancelled, answer>>

\* A definite refusal is apart from the failures of the server itself.
Answers == {"accepted", "refused", "unsure", "failed", "lost"}

SameRequest(a, b) == a.id = b.id /\ a.final = b.final

Init ==
    /\ asks \in [Calls -> Arguments]
    /\ inPane = {} /\ entered = {} /\ cancelled = {}
    /\ answer = [c \in Calls |-> "none"]

\* A prompt is written only for an open call, and only once per request.
Deliver(c) ==
    /\ answer[c] = "none"
    /\ \A d \in inPane : ~SameRequest(asks[d], asks[c])
    /\ inPane' = inPane \cup {c}
    /\ UNCHANGED <<asks, entered, cancelled, answer>>

\* An open call takes its prompt out of the input box again.
TakeBack(c) ==
    /\ answer[c] = "none"
    /\ inPane' = inPane \ {c}
    /\ UNCHANGED <<asks, entered, cancelled, answer>>

PressEnter(c) ==
    /\ answer[c] = "none" /\ c \in inPane
    /\ entered' = entered \cup {c}
    /\ UNCHANGED <<asks, inPane, cancelled, answer>>

Cancel(i) ==
    /\ cancelled' = cancelled \cup {i}
    /\ UNCHANGED <<asks, inPane, entered, answer>>

\* Accepted: this request was submitted, or was cancelled meanwhile.
\* Refused: nothing was written for these arguments.  The row a call saves
\* before it answers may replace a cancellation.
Answer(c, a) ==
    /\ answer[c] = "none"
    /\ a = "accepted" =>
          \/ \E d \in entered : asks[d] = asks[c]
          \/ asks[c].final /\ asks[c].id \in cancelled
    /\ a = "refused" => \A d \in inPane : asks[d] # asks[c]
    /\ answer' = [answer EXCEPT ![c] = a]
    /\ cancelled' \in {cancelled, cancelled \ {asks[c].id}}
    /\ UNCHANGED <<asks, inPane, entered>>

\* The server stops: the calls it was serving are not answered.
Lose(open) ==
    /\ \A c \in open : answer[c] = "none"
    /\ answer' = [c \in Calls |-> IF c \in open THEN "lost" ELSE answer[c]]
    /\ UNCHANGED <<asks, inPane, entered, cancelled>>

Next ==
    \/ \E c \in Calls : Deliver(c) \/ TakeBack(c) \/ PressEnter(c)
    \/ \E c \in Calls, a \in Answers : Answer(c, a)
    \/ \E c \in Calls : Cancel(asks[c].id)
    \/ \E open \in SUBSET Calls : Lose(open)

Spec == Init /\ [][Next]_vars

=============================================================================
