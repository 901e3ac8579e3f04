------------------------ MODULE ReturnRequestProofs ------------------------
(***************************************************************************)
(* What is proved of return requests, for any number of turns, events,     *)
(* interferences, any retention and any size of a page.                    *)
(***************************************************************************)
EXTENDS ReturnRequest, FiniteSetTheorems, SequenceTheorems,
        WellFoundedInduction, TLAPS

-----------------------------------------------------------------------------
(* The loop over the events of a page.                                     *)

\* Induction over the natural numbers, for a set: the least number outside it
\* would have a predecessor inside.
LEMMA SetInduction ==
    ASSUME NEW G, 0 \in G, \A n \in Nat : n \in G => n + 1 \in G
    PROVE  Nat \subseteq G
PROOF
<1> DEFINE T == Nat \ G
           R == OpToRel(<, Nat)
<1>1. SUFFICES ASSUME T # {} PROVE FALSE
  OBVIOUS
<1>2. IsWellFoundedOn(R, Nat)
  BY NatLessThanWellFounded, Zenon
<1>3. \A x, y \in Nat : x < y => <<x, y>> \in R
  BY DEF OpToRel
<1> HIDE DEF R
<1>4. \E x \in T : \A y \in T : ~ (<<y, x>> \in R)
  BY <1>1, <1>2, WFMin
<1>5. PICK x \in T : \A y \in T : ~ (<<y, x>> \in R)
  BY <1>4
<1>6. x # 0 /\ x - 1 \in Nat /\ x - 1 < x /\ x = (x - 1) + 1
  OBVIOUS
<1>7. x - 1 \in T
  BY <1>6
<1>8. QED
  BY <1>3, <1>5, <1>6, <1>7

\* g holds what the first n events of the page make of r, for every n to N.
IsRun(g, r, page, N) ==
    g = [n \in 0..N |-> IF n = 0 THEN r ELSE ReconcileEvent(g[n - 1], page[n])]

\* There is such a function for every length.
LEMMA Runs ==
    ASSUME NEW r, NEW page, NEW N \in Nat
    PROVE  \E g : IsRun(g, r, page, N)
PROOF
<1> DEFINE G == {n \in Nat : \E g : IsRun(g, r, page, n)}
<1>1. 0 \in G
  <2>1. IsRun([n \in 0..0 |-> r], r, page, 0)
    BY DEF IsRun
  <2>2. QED
    BY <2>1
<1>2. ASSUME NEW n \in Nat, n \in G
      PROVE  n + 1 \in G
  <2>1. PICK g : IsRun(g, r, page, n)
    BY <1>2
  <2> DEFINE h == [k \in 0..(n+1) |->
                      IF k = n + 1 THEN ReconcileEvent(g[n], page[k])
                      ELSE g[k]]
  <2>2. \A k \in 0..n :
           g[k] = IF k = 0 THEN r ELSE ReconcileEvent(g[k - 1], page[k])
    BY <2>1 DEF IsRun
  <2>3. ASSUME NEW k \in 0..(n+1)
        PROVE  h[k] = IF k = 0 THEN r ELSE ReconcileEvent(h[k - 1], page[k])
    <3>1. CASE k = n + 1
      <4>1. k # 0 /\ k - 1 = n /\ n \in 0..(n+1) /\ n # n + 1
        BY <3>1
      <4>2. h[n] = g[n] /\ h[k] = ReconcileEvent(g[n], page[k])
        BY <3>1, <4>1
      <4>3. QED
        BY <4>1, <4>2
    <3>2. CASE k # n + 1
      <4>1. k \in 0..n
        BY <3>2
      <4>2. h[k] = g[k]
        BY <3>2
      <4>3. k # 0 => h[k - 1] = g[k - 1]
        BY <4>1
      <4>4. QED
        BY <2>2, <4>1, <4>2, <4>3
    <3>3. QED
      BY <3>1, <3>2
  <2>4. IsRun(h, r, page, n + 1)
    <3>1. h = [k \in 0..(n+1) |-> h[k]]
      OBVIOUS
    <3> HIDE DEF h
    <3>2. QED
      BY <2>3, <3>1 DEF IsRun
  <2>5. QED
    BY <2>4
<1>3. QED
  <2> HIDE DEF G
  <2>1. N \in G
    BY <1>1, <1>2, SetInduction
  <2>2. QED
    BY <2>1 DEF G

\* ReconcileEvents is what such a function ends with.
LEMMA EventsAreRun ==
    ASSUME NEW r, NEW page, Len(page) \in Nat
    PROVE  \E g : /\ g[0] = r /\ ReconcileEvents(r, page) = g[Len(page)]
                  /\ \A n \in 1..Len(page) :
                        g[n] = ReconcileEvent(g[n - 1], page[n])
PROOF
<1> DEFINE g == CHOOSE g : IsRun(g, r, page, Len(page))
<1>1. IsRun(g, r, page, Len(page))
  BY Runs
<1>2. ReconcileEvents(r, page) = g[Len(page)]
  BY DEF ReconcileEvents, IsRun
<1> HIDE DEF g
<1>3. g[0] = r /\ \A n \in 1..Len(page) :
                     g[n] = ReconcileEvent(g[n - 1], page[n])
  BY <1>1 DEF IsRun
<1>4. QED
  BY <1>2, <1>3

-----------------------------------------------------------------------------
(* Types.                                                                  *)

\* A request of a smaller store is one of a larger store.
LEMMA TypesGrow ==
    ASSUME Len(events) \in Nat, Len(events') \in Nat,
           Len(transcript) \in Nat, Len(transcript') \in Nat,
           Len(events) <= Len(events'), Len(transcript) <= Len(transcript')
    PROVE  /\ Requests \subseteq Requests'
           /\ 0..Len(events) \subseteq (0..Len(events'))
           /\ 0..Len(transcript) \subseteq (0..Len(transcript'))
PROOF
<1>1. /\ 0..Len(events) \subseteq (0..Len(events'))
      /\ 0..Len(transcript) \subseteq (0..Len(transcript'))
  OBVIOUS
<1>2. QED
  BY <1>1 DEF Requests

\* One event changes a request's state, its turn or its final.
LEMMA EventTypes ==
    ASSUME NEW r \in Requests, NEW event \in StoredEvents
    PROVE  /\ ReconcileEvent(r, event) \in Requests
           /\ ReconcileEvent(r, event).cursor = r.cursor
           /\ ReconcileEvent(r, event).baseline = r.baseline
           /\ ReconcileEvent(r, event).created = r.created
           /\ ReconcileEvent(r, event).from = r.from
PROOF
<1> DEFINE record == event.record
           Ok(q) == /\ q \in Requests /\ q.cursor = r.cursor
                    /\ q.baseline = r.baseline /\ q.created = r.created
                    /\ q.from = r.from
<1>1. \A state \in Terminal : Ok(Finish(r, state))
  BY DEF Finish, Requests, Terminal
<1>2. Ok(r)
  OBVIOUS
<1>3. record \in Records \cup {Lifecycle}
  BY DEF StoredEvents
<1>4. ASSUME record.turn # 0, record.kind = "start"
      PROVE  Ok(BindTurn(r, record))
  <2>1. record.turn \in 0..MaxTurns
    BY <1>3, <1>4, ReturnAssumption DEF Records, Lifecycle
  <2>2. Ok([r EXCEPT !.bound = record.turn, !.state = "bound"])
    BY <2>1 DEF Requests
  <2>3. QED
    BY <1>1, <2>2 DEF BindTurn, Terminal
<1>5. Ok(UnstartedFinal(r, MadeAt(record)))
  BY <1>1, <1>2 DEF UnstartedFinal, Terminal
<1>6. ASSUME record.turn # 0, record.kind # "start"
      PROVE  Ok(TakeFinal(r, record))
  <2>1. record.turn \in 0..MaxTurns
    BY <1>3, <1>6, ReturnAssumption DEF Records, Lifecycle
  <2>2. Ok([Finish(r, "completed") EXCEPT !.final = record.turn])
    BY <2>1 DEF Requests, Finish, Terminal
  <2>3. QED
    BY <1>1, <2>2 DEF TakeFinal, Terminal
<1>7. Ok(ReconcileEvent(r, event))
  <2> HIDE DEF Ok
  <2>1. QED
    BY <1>1, <1>2, <1>4, <1>5, <1>6 DEF ReconcileEvent, Terminal
<1>8. QED
  BY <1>7

\* The part of a request that events leave alone.
Fixed(q, r) ==
    /\ q \in Requests /\ q.cursor = r.cursor /\ q.from = r.from
    /\ q.baseline = r.baseline /\ q.created = r.created

\* So does a whole page of events.
LEMMA PageTypes ==
    ASSUME NEW r \in Requests, NEW page \in Seq(StoredEvents)
    PROVE  Fixed(ReconcileEvents(r, page), r)
PROOF
<1>0. Len(page) \in Nat /\ \A n \in 1..Len(page) : page[n] \in StoredEvents
  OBVIOUS
<1>1. PICK g : /\ g[0] = r /\ ReconcileEvents(r, page) = g[Len(page)]
               /\ \A n \in 1..Len(page) :
                     g[n] = ReconcileEvent(g[n - 1], page[n])
  BY <1>0, EventsAreRun
<1> DEFINE G == {n \in Nat : n <= Len(page) => Fixed(g[n], r)}
<1>2. 0 \in G
  BY <1>1 DEF Fixed
<1>3. ASSUME NEW n \in Nat, n \in G
      PROVE  n + 1 \in G
  <2>1. CASE n + 1 <= Len(page)
    <3>1. /\ n + 1 \in 1..Len(page) /\ (n + 1) - 1 = n /\ n <= Len(page)
      BY <1>0, <2>1
    <3>2. g[n + 1] = ReconcileEvent(g[n], page[n + 1])
      BY <1>1, <3>1
    <3>3. Fixed(g[n], r) /\ page[n + 1] \in StoredEvents
      BY <1>0, <1>3, <3>1
    <3>4. Fixed(g[n + 1], r)
      BY <3>2, <3>3, EventTypes DEF Fixed
    <3>5. QED
      BY <3>4
  <2>2. CASE ~(n + 1 <= Len(page))
    BY <2>2
  <2>3. QED
    BY <2>1, <2>2
<1>4. Len(page) \in G
  <2> HIDE DEF G
  <2>1. QED
    BY <1>0, <1>2, <1>3, SetInduction
<1>5. QED
  BY <1>0, <1>1, <1>4

\* A request's numbers.
LEMMA Numbers ==
    ASSUME TypeOK, NEW r \in Requests
    PROVE  /\ Len(events) \in Nat /\ Len(transcript) \in Nat
           /\ r.cursor \in 0..Len(events) /\ r.cursor \in Nat
           /\ r.from \in 0..Len(events) /\ r.from \in Nat
           /\ r.created \in Nat /\ r.bound \in Nat
PROOF
<1>1. transcript \in Seq(Records) /\ events \in Seq(StoredEvents)
  BY DEF TypeOK
<1>2. /\ r.cursor \in 0..Len(events) /\ r.from \in 0..Len(events)
      /\ r.created \in 0..Len(transcript) /\ r.bound \in 0..MaxTurns
  BY DEF Requests
<1>3. QED
  BY <1>1, <1>2, ReturnAssumption

\* What the reader thread read for a request whose cursor is not beyond it.
LEMMA PageWorks ==
    ASSUME TypeOK, reader # Nothing, NEW r \in Requests,
           r.cursor <= reader.latest
    PROVE  LET page == SubSeq(events, r.cursor + 1, PageEnd(r.cursor))
           IN  /\ PageEnd(r.cursor) \in r.cursor..Len(events)
               /\ page \in Seq(StoredEvents)
               /\ Len(page) = PageEnd(r.cursor) - r.cursor
               /\ \A n \in 1..Len(page) : page[n] = events[r.cursor + n]
PROOF
<1> DEFINE c == r.cursor
           d == PageEnd(r.cursor)
           page == SubSeq(events, c + 1, d)
<1>1. /\ c \in 0..Len(events) /\ reader.latest \in 0..Len(events)
      /\ events \in Seq(StoredEvents) /\ Len(events) \in Nat
  BY Numbers DEF TypeOK
<1>2. d \in c..Len(events)
  BY <1>1, ReturnAssumption DEF PageEnd, LesserOf
<1> HIDE DEF c, d
<1>3. c + 1 \in 1..(Len(events) + 1) /\ d \in ((c + 1) - 1)..Len(events)
  BY <1>1, <1>2
<1>4. /\ page \in Seq(StoredEvents)
      /\ Len(page) = (d - (c + 1)) + 1
      /\ \A n \in 1..((d - (c + 1)) + 1) : page[n] = events[((c + 1) + n) - 1]
  BY <1>1, <1>3, SubSeqProperties
<1> HIDE DEF page
<1>5. (d - (c + 1)) + 1 = d - c /\ \A n \in Nat : ((c + 1) + n) - 1 = c + n
  BY <1>1, <1>2
<1>6. \A n \in 1..Len(page) : page[n] = events[c + n]
  BY <1>1, <1>2, <1>4, <1>5
<1>7. QED
  BY <1>2, <1>4, <1>5, <1>6 DEF c, d, page

\* The sequence t goes on where s ends.
GoesOn(s, t) ==
    Len(s) <= Len(t) /\ \A i \in 1..Len(s) : t[i] = s[i]

\* What storing events does.
LEMMA StoreWorks ==
    ASSUME TypeOK, NEW added \in Seq(StoredEvents), StoreEvents(added)
    PROVE  /\ events' \in Seq(StoredEvents) /\ GoesOn(events, events')
           /\ Len(events') = Len(events) + Len(added)
           /\ \A n \in 1..Len(added) : events'[Len(events) + n] = added[n]
           /\ pruned' \in 0..Len(events') /\ pruned <= pruned'
PROOF
<1>1. /\ events \in Seq(StoredEvents) /\ pruned \in 0..Len(events)
      /\ events' = events \o added
  BY DEF TypeOK, StoreEvents
<1>2. /\ events' \in Seq(StoredEvents)
      /\ Len(events') = Len(events) + Len(added)
      /\ \A i \in 1..Len(events) + Len(added) : events'[i] =
            IF i <= Len(events) THEN events[i] ELSE added[i - Len(events)]
  BY <1>1, ConcatProperties
<1>3. Len(events) \in Nat /\ Len(added) \in Nat /\ Len(events') \in Nat
  BY <1>1, <1>2
<1>4. GoesOn(events, events')
  BY <1>2, <1>3 DEF GoesOn
<1>5. \A n \in 1..Len(added) : events'[Len(events) + n] = added[n]
  <2> TAKE n \in 1..Len(added)
  <2>1. /\ Len(events) + n \in 1..Len(events) + Len(added)
        /\ ~(Len(events) + n <= Len(events))
        /\ (Len(events) + n) - Len(events) = n
    BY <1>3
  <2>2. QED
    BY <1>2, <2>1
<1>6. pruned' = IF Len(events') - pruned > Retention
                THEN Len(events') - Retention ELSE pruned
  BY DEF StoreEvents
<1>7. pruned' \in 0..Len(events') /\ pruned <= pruned'
  <2>1. Retention \in Nat /\ Len(events) <= Len(events')
    BY <1>2, <1>3, ReturnAssumption
  <2>2. QED
    BY <1>1, <1>3, <1>6, <2>1
<1>8. QED
  BY <1>2, <1>4, <1>5, <1>7

\* What the observer adds.
LEMMA ObserveWorks ==
    ASSUME TypeOK, ObserveAgent
    PROVE  /\ events' \in Seq(StoredEvents) /\ GoesOn(events, events')
           /\ projected' \in projected + 1 .. Len(transcript)
           /\ Len(events') = Len(events) + (projected' - projected)
           /\ \A n \in 1..(projected' - projected) :
                 events'[Len(events) + n] =
                    [record |-> transcript[projected + n],
                     same |-> agent = "here"]
           /\ pruned' \in 0..Len(events') /\ pruned <= pruned'
PROOF
<1> DEFINE Told(n) == [record |-> transcript[projected + n],
                       same |-> agent = "here"]
<1>1. PICK upto \in projected + 1 .. Len(transcript) :
          /\ StoreEvents([n \in 1..upto - projected |-> Told(n)])
          /\ projected' = upto
  BY DEF ObserveAgent
<1> DEFINE added == [n \in 1..upto - projected |-> Told(n)]
<1>2. /\ transcript \in Seq(Records) /\ projected \in 0..Len(transcript)
      /\ Len(transcript) \in Nat
  BY DEF TypeOK
<1>3. upto - projected \in Nat
  BY <1>1, <1>2
<1>4. \A n \in 1..upto - projected : Told(n) \in StoredEvents
  <2> TAKE n \in 1..upto - projected
  <2>1. projected + n \in 1..Len(transcript)
    BY <1>1, <1>2
  <2>2. transcript[projected + n] \in Records
    BY <1>2, <2>1
  <2>3. QED
    BY <2>2 DEF StoredEvents
<1>5. added \in Seq(StoredEvents) /\ Len(added) = upto - projected
  <2> HIDE DEF Told
  <2>1. QED
    BY <1>3, <1>4
<1>6. \A n \in 1..upto - projected : added[n] = Told(n)
  OBVIOUS
<1> HIDE DEF added
<1>7. StoreEvents(added)
  BY <1>1 DEF added
<1>8. QED
  BY <1>1, <1>5, <1>6, <1>7, StoreWorks

\* What a lifecycle event adds.
LEMMA LifecycleWorks ==
    ASSUME TypeOK, StoreEvents(<<[record |-> Lifecycle, same |-> TRUE]>>)
    PROVE  /\ events' \in Seq(StoredEvents) /\ GoesOn(events, events')
           /\ Len(events') = Len(events) + 1
           /\ events'[Len(events) + 1] = [record |-> Lifecycle, same |-> TRUE]
           /\ pruned' \in 0..Len(events') /\ pruned <= pruned'
PROOF
<1> DEFINE event == [record |-> Lifecycle, same |-> TRUE]
<1>1. event \in StoredEvents
  BY DEF StoredEvents
<1> HIDE DEF event
<1>2. /\ <<event>> \in Seq(StoredEvents) /\ Len(<<event>>) = 1
      /\ <<event>>[1] = event
  BY <1>1
<1>3. StoreEvents(<<event>>)
  BY DEF event
<1>4. /\ events' \in Seq(StoredEvents) /\ GoesOn(events, events')
      /\ Len(events') = Len(events) + Len(<<event>>)
      /\ \A n \in 1..Len(<<event>>) :
            events'[Len(events) + n] = <<event>>[n]
      /\ pruned' \in 0..Len(events') /\ pruned <= pruned'
  BY <1>2, <1>3, StoreWorks
<1>5. 1 \in 1..Len(<<event>>)
  BY <1>2
<1>6. events'[Len(events) + 1] = event
  BY <1>2, <1>4, <1>5
<1>7. QED
  BY <1>2, <1>4, <1>6 DEF event

\* What a turn's start or end adds to the transcript.
LEMMA TurnWorks ==
    ASSUME TypeOK, NEW record \in Records,
           transcript' = Append(transcript, record)
    PROVE  /\ transcript' \in Seq(Records) /\ GoesOn(transcript, transcript')
           /\ Len(transcript') = Len(transcript) + 1
           /\ transcript'[Len(transcript) + 1] = record
PROOF
<1>1. transcript \in Seq(Records) /\ Len(transcript) \in Nat
  BY DEF TypeOK
<1>2. QED
  BY <1>1, AppendProperties DEF GoesOn

\* The turns can be counted.
LEMMA StartsAreFinite ==
    ASSUME TypeOK
    PROVE  /\ IsFiniteSet(Starts(transcript)) /\ LastTurn \in Nat
           /\ Starts(transcript) \subseteq 1..Len(transcript)
           /\ Len(transcript) \in Nat
PROOF
<1>1. transcript \in Seq(Records) /\ Len(transcript) \in Nat
  BY DEF TypeOK
<1>2. IsFiniteSet(1..Len(transcript))
  BY <1>1, FS_Interval
<1>3. Starts(transcript) \subseteq 1..Len(transcript)
  BY <1>1 DEF Starts
<1>4. QED
  BY <1>1, <1>2, <1>3, FS_Subset, FS_CardinalityType DEF LastTurn

\* The number of turns is one more when a turn starts.
LEMMA TurnsAreCounted ==
    ASSUME TypeOK, NEW record \in Records,
           transcript' = Append(transcript, record)
    PROVE  /\ LastTurn \in Nat
           /\ record.kind = "start" =>
                 /\ Starts(transcript') =
                       Starts(transcript) \cup {Len(transcript) + 1}
                 /\ LastTurn' = LastTurn + 1
           /\ record.kind # "start" =>
                 /\ Starts(transcript') = Starts(transcript)
                 /\ LastTurn' = LastTurn
PROOF
<1>1. /\ transcript \in Seq(Records) /\ Len(transcript) \in Nat
      /\ transcript' \in Seq(Records) /\ Len(transcript') = Len(transcript) + 1
      /\ transcript'[Len(transcript) + 1] = record
      /\ \A i \in 1..Len(transcript) : transcript'[i] = transcript[i]
  BY TurnWorks DEF TypeOK, GoesOn
<1>2. /\ DOMAIN transcript = 1..Len(transcript)
      /\ DOMAIN transcript' = 1..(Len(transcript) + 1)
  BY <1>1
<1>3. IsFiniteSet(Starts(transcript)) /\ LastTurn \in Nat
  BY StartsAreFinite
<1>4. CASE record.kind = "start"
  <2>1. Starts(transcript') = Starts(transcript) \cup {Len(transcript) + 1}
    BY <1>1, <1>2, <1>4 DEF Starts
  <2>2. Len(transcript) + 1 \notin Starts(transcript)
    BY <1>1, <1>2 DEF Starts
  <2>3. LastTurn' = Cardinality(Starts(transcript'))
    BY DEF LastTurn
  <2>4. LastTurn' = LastTurn + 1
    BY <1>3, <2>1, <2>2, <2>3, FS_AddElement DEF LastTurn
  <2>5. QED
    BY <1>3, <1>4, <2>1, <2>4
<1>5. CASE record.kind # "start"
  <2>1. Starts(transcript') = Starts(transcript)
    BY <1>1, <1>2, <1>5 DEF Starts
  <2>2. LastTurn' = LastTurn
    BY <2>1 DEF LastTurn
  <2>3. QED
    BY <1>3, <1>5, <2>1, <2>2
<1>6. QED
  BY <1>4, <1>5

\* The variables that hold positions, with those positions.
Positions ==
    /\ pruned \in 0..Len(events) /\ cached \in 0..Len(events)
    /\ reader \in [whose : {"main", "client"}, latest : 0..Len(events),
                   pruned : 0..Len(events)] \cup {Nothing}
    /\ armed \in 0..Len(events) \cup {Nothing}
    /\ seen \in 0..Len(transcript) \cup {Nothing}
    /\ request \in Requests \cup {Nothing}
    /\ work \in [copy : Requests, then : {"list", "cancel"}] \cup {Nothing}

\* They keep their types when events or records are added.
LEMMA PositionsGrow ==
    ASSUME TypeOK, Len(events') \in Nat, Len(transcript') \in Nat,
           Len(events) <= Len(events'), Len(transcript) <= Len(transcript')
    PROVE  /\ reader \in [whose : {"main", "client"}, latest : 0..Len(events'),
                          pruned : 0..Len(events')] \cup {Nothing}
           /\ armed \in (0..Len(events')) \cup {Nothing}
           /\ seen \in (0..Len(transcript')) \cup {Nothing}
           /\ request \in Requests' \cup {Nothing}
           /\ work \in [copy : Requests', then : {"list", "cancel"}]
                         \cup {Nothing}
PROOF
<1>0. Len(events) \in Nat /\ Len(transcript) \in Nat
  BY DEF TypeOK
<1>1. /\ Requests \subseteq Requests'
      /\ 0..Len(events) \subseteq (0..Len(events'))
      /\ 0..Len(transcript) \subseteq (0..Len(transcript'))
  BY <1>0, TypesGrow
<1>2. QED
  BY <1>1 DEF TypeOK

\* The agent's steps and those of clocks keep the types.
LEMMA TurnTypes ==
    ASSUME TypeOK, TurnsInOrder,
           \/ \E input \in Inputs : StartTurn(input)
           \/ \E outcome \in Outcomes : EndTurn(outcome)
    PROVE  TypeOK'
PROOF
<1>0. LastTurn \in Nat /\ Len(transcript) \in Nat
  BY StartsAreFinite
<1>1. ASSUME NEW input \in Inputs, StartTurn(input)
      PROVE  TypeOK'
  <2> DEFINE record == [kind |-> "start", turn |-> running', input |-> input]
  <2>1. /\ running' = LastTurn + 1 /\ LastTurn < MaxTurns
        /\ transcript' = Append(transcript, record)
        /\ written' \in {written, "used"} /\ interfered' \in 0..MaxEvents
        /\ UNCHANGED <<managed, agent, projected, events, pruned, cached,
                       reader, armed, seen, request, announced, work, expired>>
    BY <1>1, ReturnAssumption
    DEF StartTurn, Interfere, TypeOK, storeVars, readerVars
  <2>2. running' \in 1..MaxTurns /\ record \in Records
    BY <1>0, <2>1, ReturnAssumption DEF Records
  <2> HIDE DEF record
  <2>3. /\ transcript' \in Seq(Records)
        /\ Len(transcript') = Len(transcript) + 1
    BY <2>1, <2>2, TurnWorks
  <2>4. Len(transcript) <= Len(transcript') /\ Len(transcript') \in Nat
    BY <1>0, <2>3
  <2>5. Positions'
    BY <2>1, <2>4, PositionsGrow DEF Positions, TypeOK
  <2>6. QED
    BY <1>0, <2>1, <2>2, <2>3, <2>4, <2>5 DEF TypeOK, Positions
<1>2. ASSUME NEW outcome \in Outcomes, EndTurn(outcome)
      PROVE  TypeOK'
  <2> DEFINE record == [kind |-> "final", turn |-> running,
                        outcome |-> outcome]
  <2>1. /\ running # 0 /\ running' = 0
        /\ transcript' = Append(transcript, record)
        /\ UNCHANGED <<managed, agent, projected, events, pruned, cached,
                       reader, armed, seen, request, written, announced,
                       work, expired, interfered>>
    BY <1>2 DEF EndTurn, storeVars, readerVars, requestVars
  <2>2. running \in 1..MaxTurns /\ record \in Records
    BY <2>1, ReturnAssumption DEF Records, TypeOK
  <2> HIDE DEF record
  <2>3. /\ transcript' \in Seq(Records)
        /\ Len(transcript') = Len(transcript) + 1
    BY <2>1, <2>2, TurnWorks
  <2>4. Len(transcript) <= Len(transcript') /\ Len(transcript') \in Nat
    BY <1>0, <2>3
  <2>5. Positions'
    BY <2>1, <2>4, PositionsGrow DEF Positions, TypeOK
  <2>6. QED
    BY <1>0, <2>1, <2>2, <2>3, <2>4, <2>5, ReturnAssumption
    DEF TypeOK, Positions
<1>3. QED
  BY <1>1, <1>2

\* Storing events keeps the types.
LEMMA StoreTypes ==
    ASSUME TypeOK, InStep, ObserveAgent \/ RecordLifecycle \/ Restart
    PROVE  TypeOK'
PROOF
<1>0. Len(events) \in Nat /\ Len(transcript) \in Nat /\ projected \in Nat
  BY DEF TypeOK
<1>1. /\ events' \in Seq(StoredEvents) /\ Len(events) <= Len(events')
      /\ Len(events') \in Nat /\ pruned' \in 0..Len(events')
  <2>1. CASE ObserveAgent
    BY <2>1, ObserveWorks DEF GoesOn
  <2>2. CASE RecordLifecycle \/ Restart
    BY <2>2, LifecycleWorks DEF RecordLifecycle, Restart, GoesOn
  <2>3. QED
    BY <2>1, <2>2
<1>2. /\ cached' \in (0..Len(events'))
      /\ UNCHANGED <<managed, transcript, expired>>
  BY <1>1 DEF ObserveAgent, RecordLifecycle, Restart, agentVars
<1>3. projected' \in (0..Len(transcript'))
  <2>1. CASE ObserveAgent
    BY <1>0, <1>2, <2>1, ObserveWorks
  <2>2. CASE RecordLifecycle \/ Restart
    BY <1>2, <2>2 DEF RecordLifecycle, Restart, TypeOK
  <2>3. QED
    BY <2>1, <2>2
<1>4. interfered' \in 0..MaxEvents
  BY ReturnAssumption
  DEF ObserveAgent, RecordLifecycle, Restart, Interfere, TypeOK
<1>5. /\ reader \in [whose : {"main", "client"}, latest : 0..Len(events'),
                     pruned : 0..Len(events')] \cup {Nothing}
      /\ armed \in (0..Len(events')) \cup {Nothing}
      /\ seen \in (0..Len(transcript')) \cup {Nothing}
      /\ request \in Requests' \cup {Nothing}
      /\ work \in [copy : Requests', then : {"list", "cancel"}]
                    \cup {Nothing}
  BY <1>0, <1>1, <1>2, PositionsGrow
<1>6. CASE ObserveAgent \/ RecordLifecycle
  <2>1. UNCHANGED <<managed, running, agent, reader, armed, seen, request,
                    written, announced, work>>
    BY <1>6 DEF ObserveAgent, RecordLifecycle, agentVars, requestVars
  <2>2. QED
    BY <1>1, <1>2, <1>3, <1>4, <1>5, <2>1 DEF TypeOK
<1>7. CASE Restart
  <2>1. /\ reader' = Nothing /\ work' = Nothing /\ armed' = Nothing
        /\ seen' = Nothing /\ running' = 0 /\ agent' \in {agent, "gone"}
        /\ written' \in {written, "used"}
        /\ \/ UNCHANGED <<request, announced>>
           \/ request # Nothing /\ request' = Finish(request, "indeterminate")
              /\ announced' = TRUE
    BY <1>7 DEF Restart
  <2>2. request' \in Requests' \cup {Nothing}
    <3>1. CASE request' = request
      BY <1>5, <3>1
    <3>2. CASE request # Nothing /\ request' = Finish(request, "indeterminate")
      <4>1. request \in Requests'
        BY <1>5, <3>2
      <4>2. request' \in Requests'
        BY <3>2, <4>1 DEF Requests, Finish, Terminal
      <4>3. QED
        BY <4>2
    <3>3. QED
      BY <2>1, <3>1, <3>2
  <2>3. announced' \in BOOLEAN
    BY <2>1 DEF TypeOK
  <2>4. QED
    BY <1>1, <1>2, <1>3, <1>4, <2>1, <2>2, <2>3, ReturnAssumption DEF TypeOK
<1>8. QED
  BY <1>6, <1>7

\* A request that is finished, cancelled or saved is a request.
LEMMA SaveTypes ==
    ASSUME NEW r \in Requests
    PROVE  /\ \A state \in Terminal \cup {"submitted"} :
                 Finish(r, state) \in Requests
           /\ Cancelled(r) \in Requests /\ Reconcile(r) \in Requests
PROOF
<1>1. \A state \in Terminal \cup {"submitted"} : Finish(r, state) \in Requests
  BY DEF Requests, Finish, Terminal
<1>2. QED
  BY <1>1 DEF Cancelled, Reconcile, Terminal

\* So is what a page makes of it.
LEMMA ReconcileTypes ==
    ASSUME TypeOK, reader # Nothing, NEW r \in Requests,
           r.cursor <= reader.latest
    PROVE  ReconcileEventPage(r) \in Requests
PROOF
<1> DEFINE d == PageEnd(r.cursor)
           page == SubSeq(events, r.cursor + 1, d)
           q == ReconcileEvents(r, page)
<1>1. /\ d \in r.cursor..Len(events) /\ page \in Seq(StoredEvents)
  BY PageWorks
<1>2. r.cursor \in Nat /\ Len(events) \in Nat
  BY Numbers
<1>3. d \in 0..Len(events)
  BY <1>1, <1>2
<1>4. q \in Requests
  BY <1>1, PageTypes DEF Fixed
<1>5. ReconcileEventPage(r) = IF r.cursor < reader.pruned
                              THEN Finish(r, "indeterminate")
                              ELSE [q EXCEPT !.cursor = d]
  BY DEF ReconcileEventPage
<1> HIDE DEF d, page, q
<1>6. [q EXCEPT !.cursor = d] \in Requests
  BY <1>3, <1>4 DEF Requests
<1>7. QED
  BY <1>5, <1>6, SaveTypes DEF Terminal

\* Steps that add neither records nor events keep the types.
LEMMA QuietTypes ==
    ASSUME TypeOK,
           \/ \E how \in {"exited", "replaced", "moved", "detached", "gone"} :
                 LoseAgent(how)
           \/ DeadlinePasses
           \/ \E whose \in {"main", "client"} : ReadSnapshot(whose)
           \/ AnswerClient \/ PageFails \/ Steer
    PROVE  TypeOK'
PROOF
<1>0. \/ interfered' = interfered
      \/ interfered < MaxEvents /\ interfered' = interfered + 1
  BY DEF LoseAgent, DeadlinePasses, ReadSnapshot, AnswerClient, PageFails,
         Steer, Interfere
<1>1. Len(events) \in Nat /\ interfered' \in 0..MaxEvents
  BY <1>0, ReturnAssumption DEF TypeOK
<1>2. ASSUME NEW how \in {"exited", "replaced", "moved", "detached", "gone"},
             LoseAgent(how)
      PROVE  TypeOK'
  BY <1>1, <1>2
  DEF LoseAgent, TypeOK, Requests, agentVars, storeVars, readerVars,
      requestVars
<1>3. CASE DeadlinePasses
  BY <1>1, <1>3
  DEF DeadlinePasses, TypeOK, Requests, agentVars, storeVars, readerVars,
      requestVars
<1>4. ASSUME NEW whose \in {"main", "client"}, ReadSnapshot(whose)
      PROVE  TypeOK'
  BY <1>1, <1>4
  DEF ReadSnapshot, TypeOK, Requests, agentVars, storeVars, readerVars,
      requestVars
<1>5. CASE AnswerClient
  BY <1>1, <1>5
  DEF AnswerClient, TypeOK, Requests, agentVars, storeVars, readerVars,
      requestVars
<1>6. CASE PageFails
  BY <1>1, <1>6
  DEF PageFails, TypeOK, Requests, agentVars, storeVars, readerVars,
      requestVars
<1>7. CASE Steer
  BY <1>1, <1>7
  DEF Steer, TypeOK, Requests, agentVars, storeVars, readerVars
<1>8. QED
  BY <1>2, <1>3, <1>4, <1>5, <1>6, <1>7

\* So do the steps of an admission.
LEMMA AdmissionTypes ==
    ASSUME TypeOK, InStep,
           \/ Capture \/ Refresh \/ Register \/ Withdraw \/ Enter
           \/ DeliveryFails \/ SaveSubmitted \/ SaveFails
    PROVE  TypeOK'
PROOF
<1>1. /\ Len(events) \in Nat /\ interfered' \in 0..MaxEvents
      /\ UNCHANGED <<agentVars, agent, storeVars, readerVars, work>>
  BY ReturnAssumption
  DEF Capture, Refresh, Register, Withdraw, Enter, DeliveryFails,
      SaveSubmitted, SaveFails, Interfere, TypeOK
<1>b. announced' \in BOOLEAN /\ expired' \in BOOLEAN
  <2>1. announced' \in {announced, TRUE} /\ expired' \in {expired, FALSE}
    BY DEF Capture, Refresh, Register, Withdraw, Enter, DeliveryFails,
           SaveSubmitted, SaveFails
  <2>2. QED
    BY <2>1 DEF TypeOK
<1>2. /\ armed' \in 0..Len(events) \cup {Nothing}
      /\ written' \in {Nothing, "entered", "used", "partial"}
  BY <1>1
  DEF Capture, Refresh, Register, Withdraw, Enter, DeliveryFails,
      SaveSubmitted, SaveFails, TypeOK
<1>3. seen' \in 0..Len(transcript) \cup {Nothing}
  <2>1. Len(transcript) \in Nat /\ projected \in 0..Len(transcript)
        /\ projected..Len(transcript) \subseteq 0..Len(transcript)
    BY DEF TypeOK
  <2>2. QED
    BY <2>1
    DEF Capture, Refresh, Register, Withdraw, Enter, DeliveryFails,
        SaveSubmitted, SaveFails, TypeOK
<1>4. request' \in Requests \cup {Nothing}
  <2>1. CASE Register
    <3>1. /\ seen \in 0..Len(transcript) /\ armed \in 0..Len(events)
          /\ Len(transcript) \in 0..Len(transcript)
          /\ transcript \in Seq(Records)
      BY <2>1 DEF Register, TypeOK
    <3>2. TurnBefore(seen) \in 0..MaxTurns
      <4>1. CASE seen = 0
        BY <4>1, ReturnAssumption DEF TurnBefore
      <4>2. CASE seen # 0
        <5>1. transcript[seen] \in Records
          BY <3>1, <4>2
        <5>2. QED
          BY <4>2, <5>1, ReturnAssumption DEF TurnBefore, Records
      <4>3. QED
        BY <4>1, <4>2
    <3>3. QED
      BY <2>1, <3>1, <3>2, ReturnAssumption DEF Register, Requests
  <2>2. CASE SaveSubmitted
    <3>1. request \in Requests /\ request' = Finish(request, "submitted")
      BY <2>2 DEF SaveSubmitted, InStep, Finish
    <3>2. QED
      BY <3>1, SaveTypes
  <2>3. CASE DeliveryFails
    <3>1. /\ request \in Requests
          /\ request' \in {request, Finish(request, "indeterminate")}
      BY <2>3 DEF DeliveryFails, TypeOK, Finish
    <3>2. QED
      BY <3>1, SaveTypes DEF Terminal
  <2>4. CASE Capture \/ Refresh \/ Withdraw \/ Enter \/ SaveFails
    BY <2>4 DEF Capture, Refresh, Withdraw, Enter, SaveFails, TypeOK
  <2>5. QED
    BY <2>1, <2>2, <2>3, <2>4
<1>5. QED
  BY <1>1, <1>b, <1>2, <1>3, <1>4
  DEF TypeOK, Requests, agentVars, storeVars, readerVars

\* Saving a request, and cancelling it.
LEMMA SaveWorks ==
    ASSUME NEW r \in Requests, NEW then \in {"list", "cancel"}, Save(r, then)
    PROVE  /\ request' \in Requests /\ UNCHANGED <<armed, seen, written>>
           /\ announced' = (announced \/ request'.state \in Terminal)
           /\ request' \in {r, Finish(r, "cancelled")}
           /\ r.state \in Terminal => request' = r
PROOF
<1>1. request' = IF then = "cancel" THEN Cancelled(r) ELSE r
  BY DEF Save
<1>2. Cancelled(r) = IF r.state \in Terminal THEN r ELSE Finish(r, "cancelled")
  BY DEF Cancelled
<1>3. QED
  BY <1>1, <1>2, SaveTypes DEF Save

\* So do those of a reconciliation.
LEMMA ReconciliationTypes ==
    ASSUME TypeOK, InStep,
           \/ \E then \in {"list", "cancel"} : StartReconcile(then)
           \/ ReconcilePage
    PROVE  TypeOK'
PROOF
<1>1. Len(events) \in Nat /\ interfered' \in 0..MaxEvents
      /\ UNCHANGED <<agentVars, agent, storeVars, expired>>
  BY ReturnAssumption
  DEF StartReconcile, ReconcilePage, Interfere, TypeOK
<1>2. ASSUME NEW then \in {"list", "cancel"}, StartReconcile(then)
      PROVE  TypeOK'
  <2>1. PICK r \in Requests :
           \/ Save(r, then) /\ UNCHANGED work
           \/ work' = [copy |-> r, then |-> then] /\ UNCHANGED requestVars
    <3>1. request \in Requests /\ Reconcile(request) \in Requests
      BY <1>2, SaveTypes DEF StartReconcile, TypeOK
    <3>2. QED
      BY <1>2, <3>1 DEF StartReconcile
  <2>2. UNCHANGED readerVars
    BY <1>2 DEF StartReconcile
  <2>3. CASE Save(r, then) /\ UNCHANGED work
    <3>1. /\ request' \in Requests /\ UNCHANGED <<armed, seen, written, work>>
          /\ announced' \in BOOLEAN
      BY <2>3, SaveWorks
    <3>2. QED
      BY <1>1, <2>2, <3>1
      DEF TypeOK, Requests, agentVars, storeVars, readerVars
  <2>4. CASE work' = [copy |-> r, then |-> then] /\ UNCHANGED requestVars
    BY <1>1, <2>2, <2>4
    DEF TypeOK, Requests, agentVars, storeVars, readerVars, requestVars
  <2>5. QED
    BY <2>1, <2>3, <2>4
<1>3. CASE ReconcilePage
  <2>1. /\ work # Nothing /\ reader # Nothing /\ reader.whose = "main"
        /\ cached' = reader.latest /\ reader' = Nothing
    BY <1>3 DEF ReconcilePage
  <2>2. /\ work \in [copy : Requests, then : {"list", "cancel"}]
        /\ work.copy \in Requests /\ work.then \in {"list", "cancel"}
        /\ work.copy.cursor <= reader.latest
        /\ cached' \in 0..Len(events)
    BY <2>1 DEF TypeOK, InStep
  <2> DEFINE r == ReconcileEventPage(work.copy)
  <2>3. r \in Requests
    BY <2>1, <2>2, ReconcileTypes
  <2>4. \/ Save(r, work.then) /\ work' = Nothing
        \/ work' = [work EXCEPT !.copy = r] /\ UNCHANGED requestVars
    BY <1>3 DEF ReconcilePage
  <2> HIDE DEF r
  <2>5. CASE Save(r, work.then) /\ work' = Nothing
    <3>1. /\ request' \in Requests /\ UNCHANGED <<armed, seen, written>>
          /\ announced' \in BOOLEAN
      BY <2>2, <2>3, <2>5, SaveWorks
    <3>2. QED
      BY <1>1, <2>1, <2>2, <2>5, <3>1
      DEF TypeOK, Requests, agentVars, storeVars
  <2>6. CASE work' = [work EXCEPT !.copy = r] /\ UNCHANGED requestVars
    <3>1. work' \in [copy : Requests, then : {"list", "cancel"}]
      BY <2>2, <2>3, <2>6
    <3>2. QED
      BY <1>1, <2>1, <2>2, <2>6, <3>1
      DEF TypeOK, Requests, agentVars, storeVars, requestVars
  <2>7. QED
    BY <2>4, <2>5, <2>6
<1>4. QED
  BY <1>2, <1>3

\* TypeOK is inductive, given the order of turns and the request's states.
LEMMA TypesStep ==
    ASSUME TypeOK, TurnsInOrder, InStep, Next
    PROVE  TypeOK'
PROOF
  BY TurnTypes, StoreTypes, QuietTypes, AdmissionTypes, ReconciliationTypes
  DEF Next

-----------------------------------------------------------------------------
(* The transcript and the request's states.                                *)

\* A turn that starts or ends keeps the order of the transcript.
LEMMA TurnOrder ==
    ASSUME TypeOK, TurnsInOrder,
           \/ \E input \in Inputs : StartTurn(input)
           \/ \E outcome \in Outcomes : EndTurn(outcome)
    PROVE  TurnsInOrder'
PROOF
<1> DEFINE n == Len(transcript) + 1
<1>0. /\ LastTurn \in Nat /\ Len(transcript) \in Nat
      /\ Starts(transcript) \subseteq 1..Len(transcript)
      /\ DOMAIN transcript = 1..Len(transcript)
      /\ \A i \in 1..Len(transcript) :
            transcript[i] \in Records /\ transcript[i].turn \in Nat
  <2>1. \A record \in Records : record.turn \in Nat
    BY ReturnAssumption DEF Records
  <2>2. QED
    BY <2>1, StartsAreFinite DEF TypeOK
<1>1. ASSUME NEW input \in Inputs, StartTurn(input)
      PROVE  TurnsInOrder'
  <2> DEFINE record == [kind |-> "start", turn |-> running', input |-> input]
  <2>1. /\ running' = LastTurn + 1 /\ LastTurn < MaxTurns
        /\ transcript' = Append(transcript, record)
    BY <1>1 DEF StartTurn
  <2>2. record \in Records /\ record.kind = "start" /\ record.turn = running'
    BY <1>0, <2>1, ReturnAssumption DEF Records
  <2> HIDE DEF record
  <2>3. /\ Len(transcript') = n /\ transcript'[n] = record
        /\ DOMAIN transcript' = 1..n
        /\ \A i \in 1..Len(transcript) : transcript'[i] = transcript[i]
    BY <2>1, <2>2, TurnWorks DEF GoesOn
  <2>4. Starts(transcript') = Starts(transcript) \cup {n}
        /\ LastTurn' = LastTurn + 1
    BY <2>1, <2>2, TurnsAreCounted
  <2>5. Finals(transcript') = Finals(transcript)
    BY <1>0, <2>2, <2>3 DEF Finals
  <2>6. /\ Finals(transcript) \subseteq 1..Len(transcript)
        /\ n \notin 1..Len(transcript)
    BY <1>0 DEF Finals
  <2> HIDE DEF n
  <2>7. \A i \in Starts(transcript') : transcript'[i].turn <= LastTurn'
    BY <1>0, <2>1, <2>2, <2>3, <2>4 DEF TurnsInOrder
  <2>8. \A i, k \in Starts(transcript') :
           i < k => transcript'[i].turn < transcript'[k].turn
    <3> SUFFICES ASSUME NEW i \in Starts(transcript'),
                        NEW k \in Starts(transcript'), i < k
                 PROVE  transcript'[i].turn < transcript'[k].turn
      OBVIOUS
    <3>1. i # n
      BY <1>0, <2>4 DEF n
    <3>2. i \in Starts(transcript) /\ transcript'[i] = transcript[i]
      BY <1>0, <2>3, <2>4, <3>1
    <3>3. CASE k = n
      <4>1. transcript[i].turn <= LastTurn /\ transcript[i].turn \in Nat
        BY <1>0, <3>2 DEF TurnsInOrder
      <4>2. transcript'[k].turn = LastTurn + 1
        BY <2>1, <2>2, <2>3, <3>3
      <4>3. QED
        BY <1>0, <3>2, <4>1, <4>2
    <3>4. CASE k # n
      BY <1>0, <2>3, <2>4, <3>2, <3>4 DEF TurnsInOrder
    <3>5. QED
      BY <3>3, <3>4
  <2>9. n \in Starts(transcript') /\ transcript'[n].turn = LastTurn'
    BY <2>1, <2>2, <2>3, <2>4
  <2>10. \A j \in Finals(transcript') : \E i \in Starts(transcript') :
            i < j /\ transcript'[i].turn = transcript'[j].turn
    BY <1>0, <2>3, <2>4, <2>5, <2>6 DEF TurnsInOrder
  <2>11. \A j, k \in Finals(transcript') :
            transcript'[j].turn = transcript'[k].turn => j = k
    BY <2>3, <2>5, <2>6 DEF TurnsInOrder
  <2>12. QED
    BY <2>1, <2>2, <2>3, <2>4, <2>7, <2>8, <2>9, <2>10, <2>11
    DEF TurnsInOrder
<1>2. ASSUME NEW outcome \in Outcomes, EndTurn(outcome)
      PROVE  TurnsInOrder'
  <2> DEFINE record == [kind |-> "final", turn |-> running,
                        outcome |-> outcome]
  <2>1. /\ running # 0 /\ running' = 0
        /\ transcript' = Append(transcript, record)
    BY <1>2 DEF EndTurn
  <2>2. record \in Records /\ record.kind = "final" /\ record.turn = running
    BY <2>1, ReturnAssumption DEF Records, TypeOK
  <2> HIDE DEF record
  <2>3. /\ Len(transcript') = n /\ transcript'[n] = record
        /\ DOMAIN transcript' = 1..n
        /\ \A i \in 1..Len(transcript) : transcript'[i] = transcript[i]
    BY <2>1, <2>2, TurnWorks DEF GoesOn
  <2>4. Starts(transcript') = Starts(transcript) /\ LastTurn' = LastTurn
    BY <2>1, <2>2, TurnsAreCounted
  <2>5. Finals(transcript') = Finals(transcript) \cup {n}
    BY <1>0, <2>2, <2>3 DEF Finals
  <2>6. Finals(transcript) \subseteq 1..Len(transcript)
    BY <1>0 DEF Finals
  <2>7. Len(transcript) \in Starts(transcript)
        /\ transcript[Len(transcript)].turn = running
    BY <2>1 DEF TurnsInOrder
  <2>8. \A j \in Finals(transcript) : transcript[j].turn # running
    <3> SUFFICES ASSUME NEW j \in Finals(transcript),
                        transcript[j].turn = running
                 PROVE  FALSE
      OBVIOUS
    <3>1. PICK i \in Starts(transcript) :
             i < j /\ transcript[i].turn = transcript[j].turn
      BY DEF TurnsInOrder
    <3>2. i < Len(transcript) /\ i \in 1..Len(transcript)
      BY <1>0, <2>6, <3>1
    <3>3. transcript[i].turn < transcript[Len(transcript)].turn
      BY <2>7, <3>2 DEF TurnsInOrder
    <3>4. QED
      BY <1>0, <2>7, <3>1, <3>2, <3>3
  <2>9. n \notin 1..Len(transcript) /\ \A i \in 1..Len(transcript) : i < n
    BY <1>0
  <2> HIDE DEF n
  <2>10. \A j \in Finals(transcript') : \E i \in Starts(transcript') :
            i < j /\ transcript'[i].turn = transcript'[j].turn
    <3> SUFFICES ASSUME NEW j \in Finals(transcript')
                 PROVE  \E i \in Starts(transcript') :
                           i < j /\ transcript'[i].turn = transcript'[j].turn
      OBVIOUS
    <3>1. CASE j = n
      BY <1>0, <2>2, <2>3, <2>4, <2>7, <2>9, <3>1
    <3>2. CASE j # n
      <4>1. j \in Finals(transcript) /\ transcript'[j] = transcript[j]
        BY <2>3, <2>5, <2>6, <3>2
      <4>2. QED
        BY <1>0, <2>3, <2>4, <4>1 DEF TurnsInOrder
    <3>3. QED
      BY <3>1, <3>2
  <2>11. \A j, k \in Finals(transcript') :
            transcript'[j].turn = transcript'[k].turn => j = k
    BY <2>2, <2>3, <2>5, <2>6, <2>8, <2>9 DEF TurnsInOrder
  <2>12. \A i \in Starts(transcript') :
            i \in Starts(transcript) /\ transcript'[i] = transcript[i]
    BY <1>0, <2>3, <2>4
  <2>13. /\ \A i \in Starts(transcript') : transcript'[i].turn <= LastTurn'
         /\ \A i, k \in Starts(transcript') :
               i < k => transcript'[i].turn < transcript'[k].turn
         /\ LastTurn' # 0 => \E i \in Starts(transcript') :
                               transcript'[i].turn = LastTurn'
    BY <2>4, <2>12 DEF TurnsInOrder
  <2>14. QED
    BY <2>1, <2>10, <2>11, <2>13 DEF TurnsInOrder
<1>3. QED
  BY <1>1, <1>2

\* No other step adds to the transcript, or lets a turn run.
LEMMA OrderStep ==
    ASSUME TypeOK, TurnsInOrder, Next
    PROVE  TurnsInOrder'
PROOF
<1>1. CASE \/ \E input \in Inputs : StartTurn(input)
           \/ \E outcome \in Outcomes : EndTurn(outcome)
  BY <1>1, TurnOrder
<1>2. CASE ~(\/ \E input \in Inputs : StartTurn(input)
             \/ \E outcome \in Outcomes : EndTurn(outcome))
  <2>1. transcript' = transcript /\ running' \in {0, running}
    BY <1>2
    DEF Next, Steer, LoseAgent, DeadlinePasses, ObserveAgent, RecordLifecycle,
        ReadSnapshot, AnswerClient, Capture, Refresh, Register, Withdraw,
        Enter, DeliveryFails, SaveSubmitted, SaveFails, StartReconcile,
        ReconcilePage, PageFails, Restart, agentVars
  <2>2. QED
    BY <2>1 DEF TurnsInOrder, LastTurn
<1>3. QED
  BY <1>1, <1>2

\* What a step that leaves requests alone has to leave alone for InStep.
LEMMA InStepKept ==
    ASSUME TypeOK, InStep, UNCHANGED <<request, announced, armed, work>>,
           written' # Nothing => written # Nothing,
           Requests \subseteq Requests', pruned <= pruned', pruned' \in Nat,
           reader' \in {reader, Nothing}
    PROVE  InStep'
PROOF
<1>1. (reader # Nothing => reader.pruned <= pruned')
  BY DEF InStep, TypeOK
<1>2. QED
  BY <1>1 DEF InStep, Stored

\* Steps of the agent, the store and the clock keep the request's states.
LEMMA InStepQuiet ==
    ASSUME TypeOK, InStep,
           \/ \E input \in Inputs : StartTurn(input)
           \/ \E outcome \in Outcomes : EndTurn(outcome)
           \/ \E how \in {"exited", "replaced", "moved", "detached", "gone"} :
                 LoseAgent(how)
           \/ DeadlinePasses \/ ObserveAgent \/ RecordLifecycle
           \/ AnswerClient \/ Steer
    PROVE  InStep'
PROOF
<1>1. /\ UNCHANGED <<request, announced, armed, work>>
      /\ reader' \in {reader, Nothing}
  BY DEF StartTurn, Steer, EndTurn, LoseAgent, DeadlinePasses, ObserveAgent,
         RecordLifecycle, AnswerClient, requestVars, readerVars
<1>2. written' # Nothing => written # Nothing
  BY ReturnAssumption
  DEF StartTurn, Steer, EndTurn, LoseAgent, DeadlinePasses, ObserveAgent,
      RecordLifecycle, AnswerClient, requestVars
<1>3. Len(events) \in Nat /\ Len(transcript) \in Nat /\ pruned \in Nat
  BY DEF TypeOK
<1>4. /\ Len(events') \in Nat /\ Len(events) <= Len(events')
      /\ pruned' \in Nat /\ pruned <= pruned'
  <2>1. CASE ObserveAgent
    BY <1>3, <2>1, ObserveWorks DEF GoesOn
  <2>2. CASE RecordLifecycle
    BY <1>3, <2>2, LifecycleWorks DEF RecordLifecycle, GoesOn
  <2>3. CASE ~ObserveAgent /\ ~RecordLifecycle
    <3>1. UNCHANGED <<events, pruned>>
      BY <2>3 DEF StartTurn, Steer, EndTurn, LoseAgent, DeadlinePasses,
                  AnswerClient, storeVars
    <3>2. QED
      BY <1>3, <3>1
  <2>4. QED
    BY <2>1, <2>2, <2>3
<1>5. Len(transcript') \in Nat /\ Len(transcript) <= Len(transcript')
  <2>1. \A record : transcript' = Append(transcript, record)
           => Len(transcript') = Len(transcript) + 1
    BY DEF TypeOK
  <2>2. \/ UNCHANGED transcript
        \/ \E record : transcript' = Append(transcript, record)
    BY DEF StartTurn, Steer, EndTurn, LoseAgent, DeadlinePasses, ObserveAgent,
           RecordLifecycle, AnswerClient, agentVars
  <2>3. QED
    BY <1>3, <2>1, <2>2
<1>6. QED
  BY <1>1, <1>2, <1>3, <1>4, <1>5, TypesGrow, InStepKept

\* So do the reader's, the admission's and a restart.
LEMMA InStepAdmission ==
    ASSUME TypeOK, InStep, TypeOK',
           \/ \E whose \in {"main", "client"} : ReadSnapshot(whose)
           \/ Capture \/ Refresh \/ Register \/ Withdraw \/ Enter
           \/ DeliveryFails \/ SaveSubmitted \/ SaveFails \/ PageFails
           \/ Restart
    PROVE  InStep'
PROOF
<1>0. pruned \in Nat /\ Len(events) \in Nat /\ Len(transcript) \in Nat
  BY DEF TypeOK
<1>1. ASSUME NEW whose \in {"main", "client"}, ReadSnapshot(whose)
      PROVE  InStep'
  <2>1. /\ UNCHANGED <<request, announced, armed, work, written, Requests>>
        /\ reader' = [whose |-> whose, latest |-> Len(events),
                      pruned |-> pruned]
        /\ whose = "main" => work # Nothing
        /\ pruned' = pruned
    BY <1>1 DEF ReadSnapshot, requestVars, storeVars, agentVars, Requests
  <2>2. /\ reader'.pruned <= pruned'
        /\ reader'.whose = "main" => whose = "main"
        /\ reader'.latest = Len(events)
    BY <1>0, <2>1
  <2>3. work # Nothing => work.copy.cursor <= Len(events)
    <3>1. work # Nothing => work.copy \in Requests
      BY DEF TypeOK
    <3>2. QED
      BY <3>1, Numbers
  <2>4. QED
    BY <2>1, <2>2, <2>3 DEF InStep, Stored
<1>2. CASE Capture
  <2>1. /\ request = Nothing /\ work = Nothing
        /\ UNCHANGED <<request, announced, work, written, Requests, reader,
                       pruned>>
    BY <1>2 DEF Capture, storeVars, readerVars, agentVars, Requests
  <2>2. QED
    BY <2>1 DEF InStep, Stored
<1>3. CASE Register
  <2>1. /\ armed # Nothing /\ request = Nothing
        /\ request'.state = "registered"
        /\ UNCHANGED <<announced, work, armed, reader, pruned>>
    BY <1>3 DEF Register, storeVars, readerVars
  <2>2. work = Nothing
    BY <2>1 DEF InStep
  <2>3. written' # Nothing => request' \in Requests'
    <3>1. written # Nothing => Nothing \in Requests
      BY <2>1 DEF InStep
    <3>2. CASE written = Nothing
      BY <1>3, <3>2 DEF Register
    <3>3. CASE written # Nothing
      <4>1. Nothing \in Requests /\ UNCHANGED Requests
        BY <1>3, <3>1, <3>3 DEF Register, Requests, agentVars, storeVars
      <4>2. QED
        BY <4>1 DEF TypeOK
    <3>4. QED
      BY <3>2, <3>3
  <2>4. QED
    BY <2>1, <2>2, <2>3 DEF InStep, Stored, Terminal
<1>4. CASE Withdraw
  <2>1. /\ armed # Nothing /\ armed' = Nothing /\ written' = Nothing
        /\ request' \in {request, Nothing}
        /\ UNCHANGED <<announced, work, reader, pruned>>
    BY <1>4 DEF Withdraw, storeVars, readerVars
  <2>2. work = Nothing
    BY <2>1 DEF InStep
  <2>3. QED
    BY <2>1, <2>2 DEF InStep, Stored
<1>5. CASE Enter
  <2>1. /\ request # Nothing
        /\ UNCHANGED <<request, announced, work, armed, reader, pruned,
                       Requests>>
    BY <1>5 DEF Enter, storeVars, readerVars, agentVars, Requests
  <2>2. request \in Requests
    BY <2>1 DEF TypeOK
  <2>3. QED
    BY <2>1, <2>2 DEF InStep, Stored
<1>6. CASE SaveSubmitted
  <2>1. /\ armed # Nothing /\ armed' = Nothing /\ written # Nothing
        /\ request' = Finish(request, "submitted")
        /\ UNCHANGED <<announced, work, reader, pruned, Requests>>
    BY <1>6 DEF SaveSubmitted, storeVars, readerVars, agentVars, Requests,
                Finish
  <2>2. work = Nothing /\ request \in Requests
    BY <2>1 DEF InStep
  <2>3. request' \in Requests' /\ request'.state = "submitted"
    BY <2>1, <2>2, SaveTypes DEF Finish, Requests
  <2>4. QED
    BY <2>1, <2>2, <2>3 DEF InStep, Stored, Terminal
<1>7. CASE SaveFails
  <2>1. /\ armed # Nothing /\ armed' = Nothing
        /\ UNCHANGED <<request, announced, work, reader, pruned, Requests,
                       written>>
    BY <1>7 DEF SaveFails, storeVars, readerVars, agentVars, Requests
  <2>2. work = Nothing
    BY <2>1 DEF InStep
  <2>3. QED
    BY <2>1, <2>2 DEF InStep, Stored
<1>8. CASE PageFails
  <2>1. /\ work' = Nothing /\ reader' = Nothing
        /\ UNCHANGED <<request, announced, armed, Requests, written>>
    BY <1>8 DEF PageFails, storeVars, requestVars, agentVars, Requests
  <2>2. QED
    BY <2>1 DEF InStep, Stored
<1>9. CASE Restart
  <2>1. /\ work' = Nothing /\ reader' = Nothing /\ armed' = Nothing
        /\ \/ UNCHANGED <<request, announced>>
           \/ /\ request # Nothing /\ announced' = TRUE
              /\ request' = Finish(request, "indeterminate")
    BY <1>9 DEF Restart
  <2>2. written' # Nothing => written # Nothing
    BY <1>9, ReturnAssumption DEF Restart
  <2>3. Requests \subseteq Requests'
    <3>1. Len(events') \in Nat /\ Len(events) <= Len(events')
      BY <1>0, <1>9, LifecycleWorks DEF Restart, GoesOn
    <3>2. UNCHANGED transcript
      BY <1>9 DEF Restart
    <3>3. QED
      BY <1>0, <3>1, <3>2, TypesGrow
  <2>4. written' # Nothing => request' \in Requests'
    <3>1. request \in Requests => Finish(request, "indeterminate") \in Requests
      BY SaveTypes DEF Terminal
    <3>2. QED
      BY <2>1, <2>2, <2>3, <3>1 DEF InStep
  <2>5. QED
    BY <2>1, <2>4 DEF InStep, Stored
<1>10. CASE Refresh
  <2>1. UNCHANGED <<request, announced, armed, work, written, Requests,
                    reader, pruned>>
    BY <1>10 DEF Refresh, storeVars, readerVars, agentVars, Requests
  <2>2. QED
    BY <2>1 DEF InStep, Stored
<1>11. CASE DeliveryFails
  <2>1. /\ armed # Nothing /\ armed' = Nothing /\ request # Nothing
        /\ \/ UNCHANGED <<request, announced>>
           \/ /\ request' = Finish(request, "indeterminate")
              /\ announced' = TRUE
        /\ UNCHANGED <<work, reader, pruned, Requests>>
    BY <1>11 DEF DeliveryFails, storeVars, readerVars, agentVars, Requests,
                 Finish
  <2>2. work = Nothing /\ request \in Requests
    BY <2>1 DEF InStep, TypeOK
  <2>3. request' \in Requests'
    BY <2>1, <2>2, SaveTypes DEF Terminal
  <2>4. QED
    BY <2>1, <2>2, <2>3 DEF InStep, Stored
<1>12. QED
  BY <1>1, <1>2, <1>3, <1>4, <1>5, <1>6, <1>7, <1>8, <1>9, <1>10, <1>11

\* What StartReconcile does: it ends or cancels the request, leaves it, or
\* takes a copy of a request that is past its admission.
LEMMA StartWorks ==
    ASSUME TypeOK, InStep, NEW then \in {"list", "cancel"},
           StartReconcile(then)
    PROVE  /\ work = Nothing /\ request \in Requests
           /\ UNCHANGED <<agentVars, agent, storeVars, readerVars, expired,
                          armed, seen, written>>
           /\ \/ /\ request.state \notin Terminal \cup {"registered"}
                 /\ ~announced /\ armed = Nothing
                 /\ work' = [copy |-> request, then |-> then]
                 /\ UNCHANGED <<request, announced>>
              \/ /\ ~announced /\ request.state # "registered"
                 /\ armed = Nothing
                 /\ UNCHANGED work
                 /\ \/ request' = Finish(request, "timed_out")
                    \/ /\ request' = Finish(request, "indeterminate")
                       /\ agent # "here"
                 /\ announced' = TRUE
              \/ /\ announced \/ request.state = "registered"
                 /\ UNCHANGED work
                 /\ announced' = (announced \/ request'.state \in Terminal)
                 /\ \/ request' = request
                    \/ /\ request' = Finish(request, "cancelled")
                       /\ request.state \notin Terminal
                 /\ request'.state \in Terminal \/ request' = request
PROOF
<1> DEFINE active == ~announced /\ request.state # "registered"
           r == IF active THEN Reconcile(request) ELSE request
<1>1. /\ work = Nothing /\ request # Nothing
      /\ then = "list" => active
      /\ IF active /\ r.state \notin Terminal
         THEN /\ work' = [copy |-> r, then |-> then]
              /\ UNCHANGED requestVars
         ELSE Save(r, then) /\ UNCHANGED work
      /\ UNCHANGED <<agentVars, agent, storeVars, readerVars, expired>>
  BY DEF StartReconcile
<1>2. request \in Requests
  BY <1>1 DEF TypeOK
<1>3. /\ active => armed = Nothing /\ request.state \notin Terminal
      /\ announced \in BOOLEAN
  <2>1. active => armed = Nothing
    BY <1>1 DEF InStep
  <2>2. active => request.state \notin Terminal
    BY <1>1 DEF InStep, Stored
  <2>3. QED
    BY <2>1, <2>2 DEF TypeOK
<1>4. /\ Finish(request, "timed_out") \in Requests
      /\ Finish(request, "indeterminate") \in Requests
      /\ Finish(request, "timed_out").state = "timed_out"
      /\ Finish(request, "indeterminate").state = "indeterminate"
      /\ Finish(request, "cancelled").state = "cancelled"
  BY <1>2, SaveTypes DEF Finish, Requests, Terminal
<1>5. \/ Reconcile(request) = Finish(request, "timed_out")
      \/ Reconcile(request) = Finish(request, "indeterminate")
         /\ agent # "here"
      \/ Reconcile(request) = request
  BY DEF Reconcile
<1>6. r \in Requests
  BY <1>2, <1>4, <1>5
<1>7. CASE active /\ r.state \notin Terminal
  <2>1. r = request
    BY <1>4, <1>5, <1>7 DEF Terminal
  <2>2. QED
    BY <1>1, <1>2, <1>3, <1>7, <2>1 DEF requestVars
<1>8. CASE active /\ r.state \in Terminal
  <2>1. /\ request' = r /\ UNCHANGED <<armed, seen, written>>
        /\ announced' = (announced \/ r.state \in Terminal)
    <3> HIDE DEF r
    <3>1. QED
      BY <1>1, <1>6, <1>8, SaveWorks
  <2>2. announced' = TRUE
    BY <1>3, <1>8, <2>1
  <2>3. r # request
    BY <1>3, <1>8
  <2>4. QED
    BY <1>1, <1>2, <1>3, <1>5, <1>8, <2>1, <2>2, <2>3
<1>9. CASE ~active
  <2>1. r = request /\ Save(request, then) /\ UNCHANGED work
    BY <1>1, <1>9
  <2>2. /\ UNCHANGED <<armed, seen, written>>
        /\ announced' = (announced \/ request'.state \in Terminal)
        /\ request' = request \/ request' = Finish(request, "cancelled")
        /\ request.state \in Terminal => request' = request
    BY <1>2, <2>1, SaveWorks
  <2>3. request'.state \in Terminal \/ request' = request
    BY <1>4, <2>2 DEF Terminal
  <2>4. announced \/ request.state = "registered"
    BY <1>9
  <2> HIDE DEF active, r
  <2>5. QED
    BY <1>1, <1>2, <2>1, <2>2, <2>3, <2>4
<1>10. QED
  BY <1>7, <1>8, <1>9

\* What ReconcilePage does.
LEMMA PageStepWorks ==
    ASSUME TypeOK, InStep, ReconcilePage
    PROVE  LET r == ReconcileEventPage(work.copy)
           IN  /\ work # Nothing /\ reader # Nothing
               /\ work.copy \in Requests /\ r \in Requests
               /\ work.copy.cursor <= reader.latest
               /\ work.then \in {"list", "cancel"}
               /\ work \in [copy : Requests, then : {"list", "cancel"}]
               /\ reader' = Nothing
               /\ UNCHANGED <<agentVars, agent, storeVars, armed, seen,
                              written>>
               /\ \/ /\ work' = Nothing /\ Save(r, work.then)
                  \/ /\ r.state \notin Terminal
                     /\ work' = [work EXCEPT !.copy = r]
                     /\ UNCHANGED <<request, announced>>
PROOF
<1> DEFINE r == ReconcileEventPage(work.copy)
<1>1. /\ work # Nothing /\ reader # Nothing /\ reader.whose = "main"
      /\ reader' = Nothing
      /\ UNCHANGED <<agentVars, agent, storeVars>>
      /\ \/ Save(r, work.then) /\ work' = Nothing
         \/ /\ r.state \notin Terminal
            /\ work' = [work EXCEPT !.copy = r] /\ UNCHANGED requestVars
  BY DEF ReconcilePage
<1>2. /\ work \in [copy : Requests, then : {"list", "cancel"}]
      /\ work.copy \in Requests /\ work.then \in {"list", "cancel"}
      /\ work.copy.cursor <= reader.latest
  BY <1>1 DEF TypeOK, InStep
<1>3. r \in Requests
  BY <1>1, <1>2, ReconcileTypes
<1>4. UNCHANGED <<armed, seen, written>>
  BY <1>1 DEF Save, requestVars
<1> HIDE DEF r
<1>5. QED
  BY <1>1, <1>2, <1>3, <1>4 DEF r, requestVars

\* A reconciliation keeps the request's states.
LEMMA InStepReconciliation ==
    ASSUME TypeOK, InStep,
           \/ \E then \in {"list", "cancel"} : StartReconcile(then)
           \/ ReconcilePage
    PROVE  InStep'
PROOF
<1>1. ASSUME NEW then \in {"list", "cancel"}, StartReconcile(then)
      PROVE  InStep'
  <2>1. /\ work = Nothing /\ request \in Requests
        /\ UNCHANGED <<agentVars, storeVars, readerVars, armed, written>>
    BY <1>1, StartWorks
  <2>2. UNCHANGED <<Requests, reader, pruned>>
    BY <2>1 DEF Requests, agentVars, storeVars, readerVars
  <2>3. \A state \in Terminal :
           /\ Finish(request, state) \in Requests
           /\ Finish(request, state).state = state
    BY <2>1, SaveTypes DEF Finish, Requests
  <2>4. request' \in Requests'
    BY <1>1, <2>1, <2>2, <2>3, StartWorks DEF Terminal
  <2>5. reader # Nothing => reader.whose # "main"
    BY <2>1 DEF InStep
  <2>6. CASE /\ request.state \notin Terminal \cup {"registered"}
             /\ ~announced /\ armed = Nothing
             /\ work' = [copy |-> request, then |-> then]
             /\ UNCHANGED <<request, announced>>
    <3>1. work'.copy = request
      BY <2>6
    <3>2. request # Nothing
      BY <1>1 DEF StartReconcile
    <3>3. QED
      BY <2>1, <2>2, <2>4, <2>5, <2>6, <3>1, <3>2 DEF InStep, Stored
  <2>7. CASE /\ ~announced /\ armed = Nothing /\ UNCHANGED work
             /\ announced' = TRUE
    BY <2>1, <2>2, <2>4, <2>5, <2>7 DEF InStep, Stored
  <2>8. CASE /\ announced \/ request.state = "registered"
             /\ UNCHANGED work
             /\ announced' = (announced \/ request'.state \in Terminal)
             /\ \/ request' = request
                \/ /\ request' = Finish(request, "cancelled")
                   /\ request.state \notin Terminal
    <3>1. Stored(Terminal)' => announced'
      BY <2>8 DEF Stored
    <3>2. armed # Nothing => \/ request'.state = "registered"
                             \/ request'.state = "cancelled" /\ announced'
      <4>1. CASE request' = request
        <5>1. request # Nothing
          BY <1>1 DEF StartReconcile
        <5>2. QED
          BY <2>8, <4>1, <5>1 DEF InStep
      <4>2. CASE request' = Finish(request, "cancelled")
        BY <2>3, <2>8, <4>2 DEF Terminal
      <4>3. QED
        BY <2>8, <4>1, <4>2
    <3>3. QED
      BY <2>1, <2>2, <2>4, <2>5, <2>8, <3>1, <3>2 DEF InStep
  <2>9. QED
    BY <1>1, <2>6, <2>7, <2>8, StartWorks
<1>2. CASE ReconcilePage
  <2> DEFINE r == ReconcileEventPage(work.copy)
  <2>1. /\ work # Nothing /\ r \in Requests /\ reader' = Nothing
        /\ work.then \in {"list", "cancel"}
        /\ work \in [copy : Requests, then : {"list", "cancel"}]
        /\ UNCHANGED <<agentVars, storeVars, armed, written>>
        /\ \/ work' = Nothing /\ Save(r, work.then)
           \/ /\ r.state \notin Terminal
              /\ work' = [work EXCEPT !.copy = r]
              /\ UNCHANGED <<request, announced>>
    BY <1>2, PageStepWorks
  <2>2. UNCHANGED Requests /\ armed = Nothing /\ armed' = Nothing
    BY <2>1 DEF Requests, agentVars, storeVars, InStep
  <2> HIDE DEF r
  <2>3. CASE work' = Nothing /\ Save(r, work.then)
    <3>1. /\ request' \in Requests
          /\ announced' = (announced \/ request'.state \in Terminal)
      BY <2>1, <2>3, SaveWorks
    <3>2. QED
      BY <2>1, <2>2, <2>3, <3>1 DEF InStep, Stored
  <2>4. CASE /\ r.state \notin Terminal
             /\ work' = [work EXCEPT !.copy = r]
             /\ UNCHANGED <<request, announced>>
    <3>1. work'.copy = r
      BY <2>1, <2>4
    <3>2. QED
      BY <2>1, <2>2, <2>4, <3>1 DEF InStep, Stored
  <2>5. QED
    BY <2>1, <2>3, <2>4
<1>3. QED
  BY <1>1, <1>2

\* The part of the invariant that does not speak of events.
Base == TypeOK /\ TurnsInOrder /\ InStep

\* It is inductive.
LEMMA BaseHolds ==
    Spec => []Base
PROOF
<1>1. Init => Base
  <2>1. SUFFICES ASSUME Init PROVE Base
    OBVIOUS
  <2>2. transcript = <<>> /\ events = <<>> /\ Len(transcript) = 0
        /\ Len(events) = 0 /\ Starts(transcript) = {}
        /\ Finals(transcript) = {}
    BY <2>1 DEF Init, Starts, Finals
  <2>3. LastTurn = 0
    BY <2>2, FS_EmptySet DEF LastTurn
  <2>4. TypeOK
    <3>1. transcript \in Seq(Records) /\ events \in Seq(StoredEvents)
      BY <2>2
    <3>2. /\ running \in 0..MaxTurns /\ interfered \in 0..MaxEvents
          /\ 0 \in 0..Len(transcript) /\ 0 \in 0..Len(events)
      BY <2>1, <2>2, ReturnAssumption DEF Init
    <3>3. QED
      BY <2>1, <3>1, <3>2 DEF Init, TypeOK
  <2>5. TurnsInOrder
    BY <2>1, <2>2, <2>3 DEF Init, TurnsInOrder
  <2>6. InStep
    BY <2>1 DEF Init, InStep, Stored
  <2>7. QED
    BY <2>4, <2>5, <2>6 DEF Base
<1>2. Base /\ [Next]_vars => Base'
  <2> SUFFICES ASSUME Base, [Next]_vars PROVE Base'
    OBVIOUS
  <2>1. CASE Next
    <3>1. TypeOK' /\ TurnsInOrder'
      BY <2>1, TypesStep, OrderStep DEF Base
    <3>2. InStep'
      BY <2>1, <3>1, InStepQuiet, InStepAdmission, InStepReconciliation
      DEF Base, Next
    <3>3. QED
      BY <3>1, <3>2 DEF Base
  <2>2. CASE UNCHANGED vars
    BY <2>2 DEF Base, TypeOK, TurnsInOrder, InStep, vars, agentVars,
                storeVars, readerVars, requestVars, LastTurn, Requests, Stored
  <2>3. QED
    BY <2>1, <2>2
<1>3. QED
  BY <1>1, <1>2, PTL DEF Spec

\* Every variable of a return request keeps its type, and no cursor runs past
\* the store (AgentRequestStore, AgentEventStore).
THEOREM RequestTypes == Spec => []TypeOK
PROOF
<1>1. Base => TypeOK
  BY DEF Base
<1>2. QED
  BY <1>1, BaseHolds, PTL

\* A request that ended after its admission stays as it ended: whether the
\* answer, the deadline or a client's cancellation came first, the others no
\* longer change it (cancel_agent_request, reconcile_agent_requests).
THEOREM OutcomeIsFinal == Spec => AnsweredOnce
PROOF
<1>1. Base /\ [Next]_vars =>
        [Stored(Terminal) /\ armed = Nothing => request' = request]_vars
  <2> SUFFICES ASSUME Base, Next, Stored(Terminal), armed = Nothing
               PROVE  request' = request
    BY DEF vars, requestVars
  <2>1. /\ request # Nothing /\ request.state \in Terminal /\ announced
        /\ work = Nothing
    BY DEF Base, InStep, Stored
  <2>2. ASSUME NEW then \in {"list", "cancel"}, StartReconcile(then)
        PROVE  request' = request
    BY <2>1, <2>2, StartWorks DEF Base
  <2>3. CASE Restart
    BY <2>1, <2>3 DEF Restart, Terminal
  <2>4. CASE \/ \E input \in Inputs : StartTurn(input)
             \/ \E outcome \in Outcomes : EndTurn(outcome)
             \/ \E how \in {"exited", "replaced", "moved", "detached",
                            "gone"} : LoseAgent(how)
             \/ DeadlinePasses \/ ObserveAgent \/ RecordLifecycle
             \/ \E whose \in {"main", "client"} : ReadSnapshot(whose)
             \/ AnswerClient \/ Capture \/ Enter \/ SaveFails \/ PageFails
             \/ Steer \/ Refresh
    BY <2>4 DEF StartTurn, Steer, EndTurn, LoseAgent, DeadlinePasses,
                ObserveAgent, RecordLifecycle, ReadSnapshot, AnswerClient,
                Capture, Refresh, Enter, SaveFails, PageFails, requestVars
  <2>5. /\ ~Register /\ ~Withdraw /\ ~SaveSubmitted /\ ~ReconcilePage
        /\ ~DeliveryFails
    BY <2>1 DEF Register, Withdraw, DeliveryFails, SaveSubmitted,
                ReconcilePage
  <2>6. QED
    BY <2>2, <2>3, <2>4, <2>5 DEF Next
<1>2. QED
  BY <1>1, BaseHolds, PTL DEF Spec, AnsweredOnce

-----------------------------------------------------------------------------
(* The store follows the transcript.                                       *)

\* No two records of the transcript are equal, and none is a lifecycle event.
LEMMA RecordsDiffer ==
    ASSUME TypeOK, TurnsInOrder
    PROVE  /\ \A i, k \in 1..Len(transcript) :
                 transcript[i] = transcript[k] => i = k
           /\ \A i \in 1..Len(transcript) :
                 /\ transcript[i] \in Records /\ transcript[i] # Lifecycle
                 /\ i \in Starts(transcript) \/ i \in Finals(transcript)
                 /\ transcript[i].turn \in 1..MaxTurns
PROOF
<1>1. Len(transcript) \in Nat /\ DOMAIN transcript = 1..Len(transcript)
      /\ \A i \in 1..Len(transcript) : transcript[i] \in Records
  BY DEF TypeOK
<1>2. \A record \in Records :
         /\ record # Lifecycle /\ record.turn \in 1..MaxTurns
         /\ record.kind = "start" \/ record.kind = "final"
  BY DEF Records, Lifecycle
<1>3. \A i \in 1..Len(transcript) :
         i \in Starts(transcript) \/ i \in Finals(transcript)
  BY <1>1, <1>2 DEF Starts, Finals
<1>4. ASSUME NEW i \in 1..Len(transcript), NEW k \in 1..Len(transcript),
             transcript[i] = transcript[k]
      PROVE  i = k
  <2>1. CASE i \in Finals(transcript)
    <3>1. k \in Finals(transcript)
      BY <1>1, <1>4, <2>1 DEF Finals
    <3>2. QED
      BY <1>4, <2>1, <3>1 DEF TurnsInOrder
  <2>2. CASE i \in Starts(transcript)
    <3>1. k \in Starts(transcript)
      BY <1>1, <1>4, <2>2 DEF Starts
    <3>2. /\ ~(transcript[i].turn < transcript[k].turn)
          /\ ~(transcript[k].turn < transcript[i].turn)
      BY <1>1, <1>2, <1>4
    <3>3. ~(i < k) /\ ~(k < i)
      BY <2>2, <3>1, <3>2 DEF TurnsInOrder
    <3>4. QED
      BY <1>1, <3>3
  <2>3. QED
    BY <1>3, <2>1, <2>2
<1>5. QED
  BY <1>1, <1>2, <1>3, <1>4

\* What the observer stores goes on with the transcript.
LEMMA ObserveFollows ==
    ASSUME TypeOK, TurnsInOrder, StoreFollows, ObserveAgent
    PROVE  StoreFollows'
PROOF
<1> DEFINE n == Len(events)
           p == projected
           q == projected'
           m == Len(events')
<1>1. /\ events \in Seq(StoredEvents) /\ n \in Nat /\ p \in Nat
      /\ p <= Len(transcript) /\ Len(transcript) \in Nat
      /\ DOMAIN events = 1..n
  BY DEF TypeOK
<1>2. /\ events' \in Seq(StoredEvents)
      /\ \A e \in 1..n : events'[e] = events[e]
      /\ q \in (p + 1)..Len(transcript) /\ m = n + (q - p)
      /\ \A i \in 1..(q - p) : events'[n + i] =
            [record |-> transcript[p + i], same |-> agent = "here"]
      /\ DOMAIN events' = 1..m
      /\ UNCHANGED <<transcript, agent>>
  <2>1. UNCHANGED <<transcript, agent>>
    BY DEF ObserveAgent, agentVars
  <2>2. DOMAIN events' = 1..m
    BY ObserveWorks
  <2>3. QED
    BY <2>1, <2>2, ObserveWorks DEF GoesOn
<1>3. /\ \A i, k \in 1..Len(transcript) :
            transcript[i] = transcript[k] => i = k
      /\ \A i \in 1..Len(transcript) : transcript[i] # Lifecycle
  BY RecordsDiffer
<1> HIDE DEF n, p, q, m
<1>4. q \in Nat /\ m \in Nat /\ p < q /\ q <= Len(transcript) /\ n < m
  BY <1>1, <1>2
<1>5. \A e \in 1..m : e \notin 1..n =>
         e - n \in 1..(q - p) /\ n + (e - n) = e
         /\ p + (e - n) \in 1..q /\ p + (e - n) > p
  BY <1>1, <1>2, <1>4
<1>6. \A e \in 1..m : e \notin 1..n =>
         /\ events'[e].record = transcript[p + (e - n)]
         /\ events'[e].same = (agent = "here")
  <2> TAKE e \in 1..m
  <2> HAVE e \notin 1..n
  <2>1. events'[n + (e - n)] =
           [record |-> transcript[p + (e - n)], same |-> agent = "here"]
    BY <1>2, <1>5
  <2>2. QED
    BY <1>5, <2>1
<1>7. \A e \in 1..m, k \in 1..q : Tells(e, k)' <=>
         events'[e].record = transcript[k]
  BY <1>2 DEF Tells
<1>8. 1..q \subseteq 1..Len(transcript) /\ 1..p \subseteq 1..q
      /\ 1..n \subseteq 1..m
  BY <1>1, <1>4
\* An old event tells only what was projected before, a new one only its own.
<1>9. \A e \in 1..n, k \in 1..q : Tells(e, k)' => k \in 1..p /\ Tells(e, k)
  <2> TAKE e \in 1..n, k \in 1..q
  <2> HAVE Tells(e, k)'
  <2>1. events[e].record = transcript[k]
    BY <1>2, <1>7, <1>8
  <2>2. events[e].record # Lifecycle
    BY <1>3, <1>8, <2>1
  <2>3. PICK l \in 1..p : Tells(e, l)
    BY <1>1, <2>2 DEF StoreFollows, p, n
  <2>4. l = k
    BY <1>3, <1>8, <2>1, <2>3 DEF Tells
  <2>5. QED
    BY <2>3, <2>4
<1>10. \A e \in 1..n, k \in 1..p : Tells(e, k) => Tells(e, k)'
  BY <1>2, <1>7, <1>8 DEF Tells
<1>11. \A e \in 1..m, k \in 1..q :
          e \notin 1..n /\ Tells(e, k)' => k = p + (e - n)
  BY <1>3, <1>5, <1>6, <1>7, <1>8
<1>12. \A e \in 1..m :
          events'[e].record = Lifecycle \/ \E k \in 1..q : Tells(e, k)'
  <2> TAKE e \in 1..m
  <2>1. CASE e \in 1..n
    <3>1. events[e].record = Lifecycle \/ \E k \in 1..p : Tells(e, k)
      BY <1>1, <2>1 DEF StoreFollows, p
    <3>2. QED
      BY <1>2, <1>8, <1>10, <2>1, <3>1
  <2>2. CASE e \notin 1..n
    BY <1>5, <1>6, <1>7, <2>2
  <2>3. QED
    BY <2>1, <2>2
<1>13. \A k \in 1..q : \E e \in 1..m : Tells(e, k)'
  <2> TAKE k \in 1..q
  <2>1. CASE k \in 1..p
    <3>1. \E e \in 1..n : Tells(e, k)
      BY <1>1, <2>1 DEF StoreFollows, p
    <3>2. QED
      BY <1>8, <1>10, <2>1, <3>1
  <2>2. CASE k \notin 1..p
    <3>1. /\ n + (k - p) \in 1..m /\ n + (k - p) \notin 1..n
          /\ p + ((n + (k - p)) - n) = k
      BY <1>1, <1>2, <1>4, <2>2
    <3>2. QED
      BY <1>6, <1>7, <3>1
  <2>3. QED
    BY <2>1, <2>2
<1>14. ASSUME NEW e \in 1..m, NEW f \in 1..m, NEW k \in 1..q, NEW l \in 1..q,
              e < f, Tells(e, k)', Tells(f, l)'
       PROVE  k < l
  <2>1. CASE f \in 1..n
    <3>1. e \in 1..n
      BY <1>1, <1>4, <1>14, <2>1
    <3>2. k \in 1..p /\ l \in 1..p /\ Tells(e, k) /\ Tells(f, l)
      BY <1>9, <1>14, <2>1, <3>1
    <3>3. QED
      BY <1>1, <1>14, <2>1, <3>1, <3>2 DEF StoreFollows, p
  <2>2. CASE f \notin 1..n /\ e \in 1..n
    <3>1. k \in 1..p /\ l = p + (f - n) /\ p + (f - n) > p
      BY <1>5, <1>9, <1>11, <1>14, <2>2
    <3>2. QED
      BY <1>1, <1>4, <3>1
  <2>3. CASE f \notin 1..n /\ e \notin 1..n
    <3>1. k = p + (e - n) /\ l = p + (f - n)
      BY <1>11, <1>14, <2>3
    <3>2. QED
      BY <1>1, <1>4, <1>14, <3>1
  <2>4. QED
    BY <2>1, <2>2, <2>3
<1>15. agent = "here" => \A e \in 1..m : events'[e].same
  <2> SUFFICES ASSUME agent = "here", NEW e \in 1..m
               PROVE  events'[e].same
    OBVIOUS
  <2>1. CASE e \in 1..n
    BY <1>1, <1>2, <2>1 DEF StoreFollows
  <2>2. CASE e \notin 1..n
    BY <1>6, <2>2
  <2>3. QED
    BY <2>1, <2>2
<1>16. ASSUME NEW e \in 1..m, NEW f \in 1..m, e < f, events'[f].same,
              events'[f].record # Lifecycle
       PROVE  events'[e].same
  <2>1. CASE f \in 1..n
    <3>1. e \in 1..n
      BY <1>1, <1>4, <1>16, <2>1
    <3>2. QED
      BY <1>1, <1>2, <1>16, <2>1, <3>1 DEF StoreFollows
  <2>2. CASE f \notin 1..n
    BY <1>6, <1>15, <1>16, <2>2
  <2>3. QED
    BY <2>1, <2>2
<1>17. QED
  <2>1. DOMAIN events' = 1..m /\ q = projected' /\ agent' = agent
    BY <1>2 DEF q
  <2>2. QED
    BY <1>12, <1>13, <1>14, <1>15, <1>16, <2>1 DEF StoreFollows

\* A lifecycle event tells of no turn.
LEMMA LifecycleFollows ==
    ASSUME TypeOK, TurnsInOrder, StoreFollows, RecordLifecycle \/ Restart
    PROVE  StoreFollows'
PROOF
<1> DEFINE n == Len(events)
           m == n + 1
<1>1. /\ events \in Seq(StoredEvents) /\ n \in Nat /\ DOMAIN events = 1..n
      /\ projected \in Nat /\ projected <= Len(transcript)
      /\ Len(transcript) \in Nat
  BY DEF TypeOK
<1>2. /\ events' \in Seq(StoredEvents) /\ Len(events') = m
      /\ \A e \in 1..n : events'[e] = events[e]
      /\ events'[m] = [record |-> Lifecycle, same |-> TRUE]
      /\ UNCHANGED <<transcript, projected>>
      /\ agent' = "here" => agent = "here"
  BY LifecycleWorks DEF GoesOn, RecordLifecycle, Restart, agentVars
<1>3. DOMAIN events' = 1..m
  BY <1>2
<1>4. /\ \A i \in 1..projected : transcript[i] # Lifecycle
      /\ events'[m].record = Lifecycle /\ events'[m].same
  BY <1>1, <1>2, RecordsDiffer
<1>5. /\ \A e \in 1..m : e \in 1..n \/ e = m
      /\ \A e, f \in 1..m : e < f => e \in 1..n
  BY <1>1
<1> HIDE DEF n, m
<1>6. \A e \in 1..m, k \in 1..projected :
         Tells(e, k)' <=> e \in 1..n /\ Tells(e, k)
  BY <1>2, <1>4, <1>5 DEF Tells
<1>7. \A e \in 1..m :
         events'[e].record = Lifecycle \/ \E k \in 1..projected : Tells(e, k)'
  BY <1>1, <1>2, <1>4, <1>5, <1>6 DEF StoreFollows
<1>8. \A k \in 1..projected : \E e \in 1..m : Tells(e, k)'
  <2>1. 1..n \subseteq 1..m
    BY <1>1 DEF m
  <2>2. QED
    BY <1>1, <1>6, <2>1 DEF StoreFollows
<1>9. \A e, f \in 1..m, k, l \in 1..projected :
         e < f /\ Tells(e, k)' /\ Tells(f, l)' => k < l
  BY <1>1, <1>6 DEF StoreFollows
<1>10. agent' = "here" => \A e \in 1..m : events'[e].same
  BY <1>1, <1>2, <1>4, <1>5 DEF StoreFollows
<1>11. \A e, f \in 1..m :
          e < f /\ events'[f].same /\ events'[f].record # Lifecycle
             => events'[e].same
  BY <1>1, <1>2, <1>4, <1>5 DEF StoreFollows
<1>12. QED
  BY <1>2, <1>3, <1>7, <1>8, <1>9, <1>10, <1>11 DEF StoreFollows

\* The store follows the transcript through every step.
LEMMA FollowsStep ==
    ASSUME TypeOK, TurnsInOrder, StoreFollows, Next
    PROVE  StoreFollows'
PROOF
<1>1. CASE ObserveAgent
  BY <1>1, ObserveFollows
<1>2. CASE RecordLifecycle \/ Restart
  BY <1>2, LifecycleFollows
<1>3. CASE ~ObserveAgent /\ ~RecordLifecycle /\ ~Restart
  <2>1. /\ UNCHANGED <<events, projected>>
        /\ agent' = "here" => agent = "here"
        /\ \/ UNCHANGED transcript
           \/ \E record : transcript' = Append(transcript, record)
    BY <1>3
    DEF Next, StartTurn, Steer, EndTurn, LoseAgent, DeadlinePasses,
        ReadSnapshot, AnswerClient, Capture, Refresh, Register, Withdraw,
        Enter, DeliveryFails, SaveSubmitted, SaveFails, StartReconcile,
        ReconcilePage, PageFails, agentVars, storeVars
  <2>2. \A k \in 1..projected : transcript'[k] = transcript[k]
    <3>1. ASSUME NEW record, transcript' = Append(transcript, record)
          PROVE  \A k \in 1..Len(transcript) : transcript'[k] = transcript[k]
      BY <3>1 DEF TypeOK
    <3>2. 1..projected \subseteq 1..Len(transcript)
      BY DEF TypeOK
    <3>3. QED
      BY <2>1, <3>1, <3>2
  <2>3. \A e, k : k \in 1..projected => (Tells(e, k)' <=> Tells(e, k))
    BY <2>1, <2>2 DEF Tells
  <2>4. QED
    BY <2>1, <2>3 DEF StoreFollows
<1>4. QED
  BY <1>1, <1>2, <1>3

-----------------------------------------------------------------------------
(* The agent alternates between turns and being idle.                      *)

\* A start is followed by its final.
LEMMA AlternatesStep ==
    ASSUME TypeOK, TurnsInOrder, Alternates, Next
    PROVE  Alternates'
PROOF
<1> DEFINE n == Len(transcript) + 1
<1>0. /\ LastTurn \in Nat /\ Len(transcript) \in Nat
      /\ Starts(transcript) \subseteq 1..Len(transcript)
      /\ Finals(transcript) \subseteq 1..Len(transcript)
      /\ DOMAIN transcript = 1..Len(transcript)
  BY StartsAreFinite DEF TypeOK, Finals
<1>a. \A i \in 1..Len(transcript) : i # Len(transcript) =>
         i < Len(transcript) /\ i + 1 \in 1..Len(transcript)
  <2>1. \A m \in Nat : \A i \in 1..m : i # m => i < m /\ i + 1 \in 1..m
    OBVIOUS
  <2>2. Len(transcript) \in Nat
    BY <1>0
  <2>3. QED
    BY <2>1, <2>2
<1>1. ASSUME NEW input \in Inputs, StartTurn(input)
      PROVE  Alternates'
  <2> DEFINE record == [kind |-> "start", turn |-> running', input |-> input]
  <2>1. /\ running = 0 /\ running' = LastTurn + 1 /\ LastTurn < MaxTurns
        /\ transcript' = Append(transcript, record) /\ UNCHANGED agent
    BY <1>1 DEF StartTurn
  <2>2. record \in Records /\ record.kind = "start"
    BY <1>0, <2>1, ReturnAssumption DEF Records
  <2> HIDE DEF record
  <2>3. /\ Len(transcript') = n /\ DOMAIN transcript' = 1..n
        /\ \A i \in 1..Len(transcript) : transcript'[i] = transcript[i]
    BY <2>1, <2>2, TurnWorks DEF GoesOn
  <2>4. Starts(transcript') = Starts(transcript) \cup {n}
    BY <2>1, <2>2, TurnsAreCounted
  <2>5. \A j \in Finals(transcript) : j \in Finals(transcript')
    BY <1>0, <2>3 DEF Finals
  <2> SUFFICES ASSUME agent = "here", NEW i \in Starts(transcript')
               PROVE  /\ i < n =>
                            /\ i + 1 \in Finals(transcript')
                            /\ transcript'[i + 1].turn = transcript'[i].turn
                      /\ i = n => running' # 0
    BY <2>1, <2>3 DEF Alternates
  <2>6. i = n => running' # 0
    BY <1>0, <2>1
  <2>7. ASSUME i < n
        PROVE  /\ i + 1 \in Finals(transcript')
               /\ transcript'[i + 1].turn = transcript'[i].turn
    <3>1. i \in Starts(transcript) /\ i \in 1..Len(transcript)
      BY <1>0, <2>4, <2>7
    <3>2. i # Len(transcript)
      BY <2>1, <3>1 DEF Alternates
    <3>3. i < Len(transcript) /\ i + 1 \in 1..Len(transcript)
      BY <1>a, <3>1, <3>2
    <3>4. /\ i + 1 \in Finals(transcript)
          /\ transcript[i + 1].turn = transcript[i].turn
      BY <3>1, <3>3 DEF Alternates
    <3>5. QED
      BY <2>3, <2>5, <3>1, <3>3, <3>4
  <2>8. QED
    BY <2>6, <2>7
<1>2. ASSUME NEW outcome \in Outcomes, EndTurn(outcome)
      PROVE  Alternates'
  <2> DEFINE record == [kind |-> "final", turn |-> running,
                        outcome |-> outcome]
  <2>1. /\ running # 0 /\ UNCHANGED agent
        /\ transcript' = Append(transcript, record)
    BY <1>2 DEF EndTurn
  <2>2. record \in Records /\ record.kind = "final" /\ record.turn = running
    BY <2>1, ReturnAssumption DEF Records, TypeOK
  <2> HIDE DEF record
  <2>3. /\ Len(transcript') = n /\ DOMAIN transcript' = 1..n
        /\ transcript'[n] = record
        /\ \A i \in 1..Len(transcript) : transcript'[i] = transcript[i]
    BY <2>1, <2>2, TurnWorks DEF GoesOn
  <2>4. Starts(transcript') = Starts(transcript)
    BY <2>1, <2>2, TurnsAreCounted
  <2>5. /\ \A j \in Finals(transcript) : j \in Finals(transcript')
        /\ n \in Finals(transcript')
    BY <1>0, <2>2, <2>3 DEF Finals
  <2>6. transcript[Len(transcript)].turn = running
    BY <2>1 DEF TurnsInOrder
  <2> SUFFICES ASSUME agent = "here", NEW i \in Starts(transcript)
               PROVE  /\ i # n /\ i + 1 \in Finals(transcript')
                      /\ transcript'[i + 1].turn = transcript'[i].turn
    BY <2>1, <2>3, <2>4 DEF Alternates
  <2>7. i \in 1..Len(transcript) /\ i # n
    BY <1>0
  <2>8. CASE i = Len(transcript)
    BY <1>0, <2>2, <2>3, <2>5, <2>6, <2>7, <2>8
  <2>9. CASE i # Len(transcript)
    <3>1. i < Len(transcript) /\ i + 1 \in 1..Len(transcript)
      BY <1>a, <2>7, <2>9
    <3>2. /\ i + 1 \in Finals(transcript)
          /\ transcript[i + 1].turn = transcript[i].turn
      BY <3>1 DEF Alternates
    <3>3. QED
      BY <2>3, <2>5, <2>7, <3>1, <3>2
  <2>10. QED
    BY <2>8, <2>9
<1>3. CASE ~(\/ \E input \in Inputs : StartTurn(input)
             \/ \E outcome \in Outcomes : EndTurn(outcome))
  <2>1. /\ transcript' = transcript
        /\ agent' = "here" => agent = "here" /\ running' = running
    BY <1>3
    DEF Next, Steer, LoseAgent, DeadlinePasses, ObserveAgent, RecordLifecycle,
        ReadSnapshot, AnswerClient, Capture, Refresh, Register, Withdraw,
        Enter, DeliveryFails, SaveSubmitted, SaveFails, StartReconcile,
        ReconcilePage, PageFails, Restart, agentVars
  <2>2. QED
    BY <2>1 DEF Alternates
<1>4. QED
  BY <1>1, <1>2, <1>3

-----------------------------------------------------------------------------
(* What steps leave as it was.                                             *)

\* What every step does to the transcript and to the store.
LEMMA StepGrows ==
    ASSUME TypeOK, Next
    PROVE  /\ GoesOn(transcript, transcript') /\ GoesOn(events, events')
           /\ Len(events') \in Nat /\ Len(transcript') \in Nat
           /\ managed' = managed /\ pruned <= pruned'
           /\ agent' = "here" => agent = "here"
           /\ written = "partial" => written' = "partial"
PROOF
<1>0. /\ Len(transcript) \in Nat /\ Len(events) \in Nat /\ pruned \in Nat
      /\ GoesOn(transcript, transcript) /\ GoesOn(events, events)
      /\ pruned <= pruned
  BY DEF TypeOK, GoesOn
<1>1. /\ managed' = managed /\ (agent' = "here" => agent = "here")
      /\ written = "partial" => written' = "partial"
  BY ReturnAssumption
  DEF Next, StartTurn, Steer, EndTurn, LoseAgent, DeadlinePasses,
      ObserveAgent, RecordLifecycle, ReadSnapshot, AnswerClient, Capture,
      Refresh, Register, Withdraw, Enter, DeliveryFails, SaveSubmitted,
      SaveFails, StartReconcile, Save, ReconcilePage, PageFails, Restart,
      agentVars, requestVars
<1>2. CASE ObserveAgent
  <2>1. UNCHANGED transcript
    BY <1>2 DEF ObserveAgent, agentVars
  <2>2. QED
    BY <1>0, <1>1, <1>2, <2>1, ObserveWorks
<1>3. CASE RecordLifecycle \/ Restart
  <2>1. /\ UNCHANGED transcript
        /\ StoreEvents(<<[record |-> Lifecycle, same |-> TRUE]>>)
    BY <1>3 DEF RecordLifecycle, Restart, agentVars
  <2>2. QED
    BY <1>0, <1>1, <2>1, LifecycleWorks
<1>4. CASE ~ObserveAgent /\ ~RecordLifecycle /\ ~Restart
  <2>1. /\ UNCHANGED <<events, pruned>>
        /\ \/ UNCHANGED transcript
           \/ \E record : transcript' = Append(transcript, record)
    BY <1>4
    DEF Next, StartTurn, Steer, EndTurn, LoseAgent, DeadlinePasses,
        ReadSnapshot, AnswerClient, Capture, Refresh, Register, Withdraw,
        Enter, DeliveryFails, SaveSubmitted, SaveFails, StartReconcile,
        ReconcilePage, PageFails, agentVars, storeVars
  <2>2. ASSUME NEW record, transcript' = Append(transcript, record)
        PROVE  GoesOn(transcript, transcript') /\ Len(transcript') \in Nat
    BY <2>2 DEF TypeOK, GoesOn
  <2>3. QED
    BY <1>0, <1>1, <2>1, <2>2
<1>5. QED
  BY <1>2, <1>3, <1>4

\* What is in the transcript stays there.
LEMMA TranscriptStays ==
    ASSUME TypeOK, Len(transcript') \in Nat, transcript' \in Seq(Records),
           GoesOn(transcript, transcript')
    PROVE  /\ \A i \in Starts(transcript) :
                 i \in Starts(transcript') /\ transcript'[i] = transcript[i]
           /\ \A j \in Finals(transcript) :
                 j \in Finals(transcript') /\ transcript'[j] = transcript[j]
PROOF
<1>1. /\ DOMAIN transcript = 1..Len(transcript) /\ Len(transcript) \in Nat
      /\ DOMAIN transcript' = 1..Len(transcript')
  BY DEF TypeOK
<1>2. /\ 1..Len(transcript) \subseteq 1..Len(transcript')
      /\ \A i \in 1..Len(transcript) : transcript'[i] = transcript[i]
  BY <1>1 DEF GoesOn
<1>3. QED
  BY <1>1, <1>2 DEF Starts, Finals

\* The only start that a step adds is that of the next turn.
LEMMA NewStarts ==
    ASSUME TypeOK, Next
    PROVE  \A i \in Starts(transcript') :
              \/ i \in Starts(transcript)
              \/ /\ i = Len(transcript) + 1
                 /\ transcript'[i].turn = LastTurn + 1
PROOF
<1>0. LastTurn \in Nat /\ Len(transcript) \in Nat
  BY StartsAreFinite
<1>1. ASSUME NEW input \in Inputs, StartTurn(input)
      PROVE  \A i \in Starts(transcript') :
                \/ i \in Starts(transcript)
                \/ /\ i = Len(transcript) + 1
                   /\ transcript'[i].turn = LastTurn + 1
  <2> DEFINE record == [kind |-> "start", turn |-> running', input |-> input]
  <2>1. /\ running' = LastTurn + 1 /\ LastTurn < MaxTurns
        /\ transcript' = Append(transcript, record)
    BY <1>1 DEF StartTurn
  <2>2. record \in Records /\ record.kind = "start" /\ record.turn = running'
    BY <1>0, <2>1, ReturnAssumption DEF Records
  <2> HIDE DEF record
  <2>3. /\ Starts(transcript') = Starts(transcript) \cup {Len(transcript) + 1}
        /\ transcript'[Len(transcript) + 1] = record
    BY <2>1, <2>2, TurnWorks, TurnsAreCounted
  <2>4. QED
    BY <2>1, <2>2, <2>3
<1>2. ASSUME NEW outcome \in Outcomes, EndTurn(outcome)
      PROVE  Starts(transcript') = Starts(transcript)
  <2> DEFINE record == [kind |-> "final", turn |-> running,
                        outcome |-> outcome]
  <2>1. running # 0 /\ transcript' = Append(transcript, record)
    BY <1>2 DEF EndTurn
  <2>2. record \in Records /\ record.kind = "final"
    BY <2>1, ReturnAssumption DEF Records, TypeOK
  <2> HIDE DEF record
  <2>3. QED
    BY <2>1, <2>2, TurnsAreCounted
<1>3. CASE ~(\/ \E input \in Inputs : StartTurn(input)
             \/ \E outcome \in Outcomes : EndTurn(outcome))
  <2>1. transcript' = transcript
    BY <1>3
    DEF Next, Steer, LoseAgent, DeadlinePasses, ObserveAgent, RecordLifecycle,
        ReadSnapshot, AnswerClient, Capture, Refresh, Register, Withdraw,
        Enter, DeliveryFails, SaveSubmitted, SaveFails, StartReconcile,
        ReconcilePage, PageFails, Restart, agentVars
  <2>2. QED
    BY <2>1
<1>4. QED
  BY <1>1, <1>2, <1>3

\* An event tells of nothing that the transcript gets later.
LEMMA ToldStays ==
    ASSUME TypeOK, TypeOK', TurnsInOrder, StoreFollows, Next,
           NEW e \in 1..Len(events)
    PROVE  /\ \A i \in 1..Len(transcript) : Tells(e, i)' <=> Tells(e, i)
           /\ \A i \in Starts(transcript') :
                 Tells(e, i)' => i \in Starts(transcript) /\ Tells(e, i)
PROOF
<1>1. /\ Len(transcript) \in Nat /\ Len(events) \in Nat /\ LastTurn \in Nat
      /\ DOMAIN transcript = 1..Len(transcript)
      /\ DOMAIN events = 1..Len(events)
      /\ Starts(transcript) \subseteq 1..Len(transcript)
      /\ projected \in 0..Len(transcript)
  <2>1. /\ transcript \in Seq(Records) /\ events \in Seq(StoredEvents)
        /\ projected \in 0..Len(transcript)
    BY DEF TypeOK
  <2>2. QED
    BY <2>1, StartsAreFinite
<1>2. /\ \A i \in 1..Len(transcript) : transcript'[i] = transcript[i]
      /\ events'[e] = events[e]
  BY StepGrows DEF GoesOn
<1>3. \A i \in 1..Len(transcript) : Tells(e, i)' <=> Tells(e, i)
  BY <1>2 DEF Tells
<1>4. ASSUME NEW i \in Starts(transcript'), Tells(e, i)'
      PROVE  i \in Starts(transcript)
  <2> SUFFICES ASSUME i \notin Starts(transcript) PROVE FALSE
    OBVIOUS
  <2>1. transcript'[i].turn = LastTurn + 1 /\ transcript'[i].kind = "start"
    BY NewStarts DEF Starts
  <2>2. events[e].record.turn = LastTurn + 1 /\ events[e].record.kind = "start"
    BY <1>2, <1>4, <2>1 DEF Tells
  <2>3. events[e].record # Lifecycle
    BY <1>1, <2>2 DEF Lifecycle
  <2>4. PICK k \in 1..projected : Tells(e, k)
    BY <1>1, <2>3 DEF StoreFollows
  <2>5. k \in 1..Len(transcript) /\ transcript[k] = events[e].record
    BY <1>1, <2>4 DEF Tells
  <2>6. k \in Starts(transcript) /\ transcript[k].turn = LastTurn + 1
    BY <1>1, <2>2, <2>5 DEF Starts
  <2>7. transcript[k].turn <= LastTurn
    BY <2>6 DEF TurnsInOrder
  <2>8. QED
    BY <1>1, <2>6, <2>7
<1>5. QED
  BY <1>1, <1>3, <1>4

\* News stay news, and what is added to them comes later.
LEMMA NewsGrows ==
    ASSUME TypeOK, TypeOK', TurnsInOrder, StoreFollows, Next,
           NEW r \in Requests
    PROVE  /\ \A i \in News(r) : i \in News(r)'
                                 /\ transcript'[i] = transcript[i]
           /\ \A i \in News(r)' : \/ i \in News(r)
                                  \/ i = Len(transcript) + 1
           /\ News(r) \subseteq 1..Len(transcript)
PROOF
<1>1. /\ Len(transcript) \in Nat /\ Len(events) \in Nat
      /\ Starts(transcript) \subseteq 1..Len(transcript)
      /\ r.from \in 0..Len(events)
  BY Numbers, StartsAreFinite
<1>2. /\ \A i \in Starts(transcript) :
            i \in Starts(transcript') /\ transcript'[i] = transcript[i]
  BY StepGrows, TranscriptStays DEF TypeOK
<1>3. \A e \in 1..r.from : e \in 1..Len(events)
  BY <1>1
<1>4. \A e \in 1..r.from, i \in Starts(transcript) :
         Tells(e, i)' <=> Tells(e, i)
  BY <1>1, <1>3, ToldStays
<1>5. \A i \in News(r) : i \in News(r)' /\ transcript'[i] = transcript[i]
  BY <1>2, <1>4 DEF News
<1>6. \A i \in News(r)' : i \in Starts(transcript) => i \in News(r)
  BY <1>2, <1>4 DEF News
<1>7. \A i \in News(r)' : i \in Starts(transcript')
  BY DEF News
<1>8. QED
  BY <1>1, <1>5, <1>6, <1>7, NewStarts DEF News

\* A cause stays a cause.
LEMMA CauseStays ==
    ASSUME TypeOK, TypeOK', TurnsInOrder, StoreFollows, Next,
           NEW r \in Requests, Cause(r)
    PROVE  Cause(r)'
PROOF
<1>1. /\ \A i \in News(r) : i \in News(r)' /\ transcript'[i] = transcript[i]
      /\ \A j \in Finals(transcript) :
            j \in Finals(transcript') /\ transcript'[j] = transcript[j]
      /\ managed' = managed /\ (agent' = "here" => agent = "here")
      /\ written = "partial" => written' = "partial"
  BY StepGrows, TranscriptStays, NewsGrows DEF TypeOK
<1>2. QED
  BY <1>1 DEF Cause

\* Turns that have ended have ended.
LEMMA EndedStays ==
    ASSUME TypeOK, TypeOK', TurnsInOrder, StoreFollows, Next,
           NEW c \in 0..Len(events), NEW k, EndedBy(c, k)
    PROVE  EndedBy(c, k)'
PROOF
<1> SUFFICES ASSUME NEW i \in Starts(transcript'),
                    NEW e \in 1..c, Tells(e, i)'
             PROVE  \E j \in Finals(transcript') :
                       j <= k /\ transcript'[j].turn = transcript'[i].turn
  BY DEF EndedBy
<1>1. e \in 1..Len(events)
  BY DEF TypeOK
<1>2. i \in Starts(transcript) /\ Tells(e, i)
  BY <1>1, ToldStays
<1>3. PICK j \in Finals(transcript) :
         j <= k /\ transcript[j].turn = transcript[i].turn
  BY <1>2 DEF EndedBy
<1>4. /\ transcript'[i] = transcript[i]
      /\ j \in Finals(transcript') /\ transcript'[j] = transcript[j]
  BY <1>2, StepGrows, TranscriptStays DEF TypeOK
<1>5. QED
  BY <1>3, <1>4

-----------------------------------------------------------------------------
(* A request that follows the events goes on following them.               *)

\* What is news depends on what the request knew.
LEMMA NewsAlike ==
    ASSUME NEW r, NEW q, q.from = r.from, q.baseline = r.baseline
    PROVE  News(q) = News(r)
PROOF
  BY DEF News

\* Only a request's turns and its state matter.
LEMMA FollowsAlike ==
    ASSUME NEW r, NEW q, NEW c, q.from = r.from,
           q.baseline = r.baseline, q.created = r.created,
           q.bound = r.bound, q.final = r.final,
           q.state = "completed" => r.state = "completed",
           q.state # "indeterminate" => r.state # "indeterminate",
           Follows(r, c)
    PROVE  Follows(q, c)
PROOF
<1>1. News(q) = News(r)
  BY NewsAlike
<1>2. BoundToFirst(q, c)
  BY <1>1 DEF Follows, BoundToFirst
<1>3. NotBoundYet(q, c) /\ HasFinal(q)
  BY <1>1 DEF Follows, NotBoundYet, HasFinal
<1>4. QED
  BY <1>2, <1>3 DEF Follows

\* A request whose state alone changes.
LEMMA FinishFollows ==
    ASSUME NEW r \in Requests, NEW c, Follows(r, c),
           NEW state \in {"submitted"} \cup Terminal, state # "completed",
           r.state = "indeterminate" => state = "indeterminate"
    PROVE  /\ Follows(Finish(r, state), c)
           /\ Finish(r, state).cursor = r.cursor
           /\ Finish(r, state).state = state
PROOF
<1> DEFINE q == Finish(r, state)
<1>1. /\ q.baseline = r.baseline /\ q.created = r.created /\ q.from = r.from
      /\ q.bound = r.bound /\ q.final = r.final /\ q.state = state
      /\ q.cursor = r.cursor
  BY DEF Finish, Requests
<1> HIDE DEF q
<1>2. Follows(q, c)
  BY <1>1, FollowsAlike
<1>3. QED
  BY <1>1, <1>2 DEF q

\* A request goes on following the events it has taken into account.
LEMMA FollowsGrows ==
    ASSUME TypeOK, TypeOK', TurnsInOrder, StoreFollows, Next,
           NEW r \in Requests, NEW c \in 0..Len(events), Follows(r, c)
    PROVE  Follows(r, c)'
PROOF
<1>1. /\ Len(transcript) \in Nat /\ Len(events) \in Nat
      /\ r.from \in 0..Len(events) /\ r.from <= c
      /\ EndedBy(r.from, r.created)
  BY Numbers DEF Follows
<1>2. EndedBy(r.from, r.created)'
  BY <1>1, EndedStays
<1>3. \A e \in 1..c : e \in 1..Len(events)
  BY <1>1
<1>4. /\ \A i \in News(r) : i \in News(r)'
                            /\ transcript'[i] = transcript[i]
      /\ \A i \in News(r)' : i \in News(r) \/ i = Len(transcript) + 1
      /\ News(r) \subseteq 1..Len(transcript)
  BY NewsGrows
<1>5. BoundToFirst(r, c)'
  <2> SUFFICES ASSUME r.bound # 0
               PROVE  \E i \in News(r)' :
                         /\ transcript'[i].turn = r.bound
                         /\ \A k \in News(r)' : k >= i
                         /\ transcript'[i].input = "own" \/ managed'
                         /\ \E e \in 1..c : Tells(e, i)'
    BY DEF BoundToFirst
  <2>1. PICK i \in News(r) :
           /\ transcript[i].turn = r.bound
           /\ \A k \in News(r) : k >= i
           /\ transcript[i].input = "own" \/ managed
           /\ \E e \in 1..c : Tells(e, i)
    BY DEF Follows, BoundToFirst
  <2>2. \A k \in News(r)' : k >= i
    BY <1>1, <1>4, <2>1
  <2>3. \E e \in 1..c : Tells(e, i)'
    BY <1>3, <1>4, <2>1, ToldStays
  <2>4. managed' = managed
    BY StepGrows
  <2>5. QED
    BY <1>4, <2>1, <2>2, <2>3, <2>4
<1>6. NotBoundYet(r, c)'
  <2> SUFFICES ASSUME r.bound = 0, r.state # "indeterminate",
                      NEW i \in News(r)', NEW e \in 1..c,
                      events'[e].same, Tells(e, i)'
               PROVE  FALSE
    BY DEF NotBoundYet
  <2>1. i \in Starts(transcript')
    BY DEF News
  <2>2. i \in Starts(transcript) /\ Tells(e, i)
    BY <1>3, <2>1, ToldStays
  <2>3. i \in News(r)
    <3>1. i \in 1..Len(transcript)
      BY <2>2, StartsAreFinite
    <3>2. i # Len(transcript) + 1
      BY <1>1, <3>1
    <3>3. QED
      BY <1>4, <3>2
  <2>4. events'[e] = events[e]
    BY <1>3, StepGrows DEF GoesOn
  <2>5. QED
    BY <2>2, <2>3, <2>4 DEF Follows, NotBoundYet
<1>7. HasFinal(r)'
  <2>1. \A j \in Finals(transcript) :
           j \in Finals(transcript') /\ transcript'[j] = transcript[j]
    BY StepGrows, TranscriptStays DEF TypeOK
  <2>2. QED
    BY <2>1 DEF Follows, HasFinal
<1>8. QED
  BY <1>1, <1>2, <1>5, <1>6, <1>7 DEF Follows

-----------------------------------------------------------------------------
(* A request follows the events of a page.                                 *)

\* Events tell the transcript in its order, and leave out nothing.
LEMMA ToldInOrder ==
    ASSUME TypeOK, TurnsInOrder, StoreFollows
    PROVE  /\ \A e, f \in 1..Len(events), k, l \in 1..Len(transcript) :
                 Tells(e, k) /\ Tells(f, l) => (e < f => k < l)
           /\ \A e \in 1..Len(events), i, k \in 1..Len(transcript) :
                 Tells(e, k) /\ i < k =>
                    \E f \in 1..Len(events) : f < e /\ Tells(f, i)
           /\ \A e \in 1..Len(events) : events[e].record.turn # 0 =>
                 \E k \in 1..Len(transcript) : Tells(e, k)
PROOF
<1>1. /\ DOMAIN events = 1..Len(events) /\ Len(events) \in Nat
      /\ Len(transcript) \in Nat /\ projected \in 0..Len(transcript)
  BY DEF TypeOK
<1>2. /\ \A i, k \in 1..Len(transcript) :
            transcript[i] = transcript[k] => i = k
      /\ \A i \in 1..Len(transcript) : transcript[i] # Lifecycle
  BY RecordsDiffer
<1>3. 1..projected \subseteq 1..Len(transcript)
  BY <1>1
<1>4. \A e \in 1..Len(events), k \in 1..Len(transcript) :
         Tells(e, k) => k \in 1..projected
  BY <1>1, <1>2, <1>3 DEF StoreFollows, Tells
<1>5. \A e, f \in 1..Len(events), k, l \in 1..Len(transcript) :
         Tells(e, k) /\ Tells(f, l) => (e < f => k < l)
  BY <1>1, <1>4 DEF StoreFollows
<1>6. ASSUME NEW e \in 1..Len(events), NEW i \in 1..Len(transcript),
             NEW k \in 1..Len(transcript), Tells(e, k), i < k
      PROVE  \E f \in 1..Len(events) : f < e /\ Tells(f, i)
  <2>1. i \in 1..projected
    BY <1>1, <1>4, <1>6
  <2>2. PICK f \in 1..Len(events) : Tells(f, i)
    BY <1>1, <2>1 DEF StoreFollows
  <2>3. ~(e < f) /\ e # f
    BY <1>1, <1>2, <1>5, <1>6, <2>2 DEF Tells
  <2>4. QED
    BY <1>1, <2>2, <2>3
<1>7. \A e \in 1..Len(events) : events[e].record.turn # 0 =>
         \E k \in 1..Len(transcript) : Tells(e, k)
  <2>1. Lifecycle.turn = 0
    BY DEF Lifecycle
  <2>2. QED
    BY <1>1, <1>3, <2>1 DEF StoreFollows
<1>8. QED
  BY <1>5, <1>6, <1>7

\* The request r after the events up to c, on the way through a page.
Taken(r, c) ==
    /\ Follows(r, c)
    /\ r.state = "indeterminate" => Cause(r)
    /\ r.state \in Terminal => r.bound # 0 \/ r.state = "indeterminate"

\* An event that does not concern the request leaves it as it is.
LEMMA PassedOver ==
    ASSUME TypeOK, NEW r \in Requests, NEW c \in Nat, Taken(r, c),
           \/ r.state \in Terminal \/ r.bound # 0
           \/ ~(events[c + 1].same /\ \E i \in News(r) : Tells(c + 1, i))
    PROVE  Taken(r, c + 1)
PROOF
<1>1. /\ 1..c \subseteq 1..(c + 1)
      /\ \A e \in 1..(c + 1) : e \in 1..c \/ e = c + 1
  OBVIOUS
<1>2. HasFinal(r) /\ EndedBy(r.from, r.created)
  BY DEF Taken, Follows
<1>3. r.from <= c + 1
  <2>1. r.from \in Nat /\ r.from <= c
    BY Numbers DEF Taken, Follows
  <2>2. QED
    BY <2>1
<1>4. BoundToFirst(r, c + 1)
  BY <1>1 DEF Taken, Follows, BoundToFirst
<1>5. NotBoundYet(r, c + 1)
  BY <1>1 DEF Taken, Follows, NotBoundYet
<1>6. QED
  BY <1>2, <1>3, <1>4, <1>5 DEF Taken, Follows

\* An event that ends the request as indeterminate has a cause.
LEMMA GivenUp ==
    ASSUME TypeOK, NEW r \in Requests, NEW c \in Nat, Taken(r, c), Cause(r)
    PROVE  Taken(Finish(r, "indeterminate"), c + 1)
PROOF
<1> DEFINE q == Finish(r, "indeterminate")
<1>1. /\ q.baseline = r.baseline /\ q.created = r.created /\ q.from = r.from
      /\ q.bound = r.bound /\ q.final = r.final /\ q.state = "indeterminate"
      /\ q \in Requests
  BY DEF Finish, Requests, Terminal
<1> HIDE DEF q
<1>2. Follows(q, c)
  BY <1>1, FollowsAlike DEF Taken
<1>3. Cause(q)
  BY <1>1, NewsAlike DEF Cause
<1>4. Taken(q, c)
  BY <1>1, <1>2, <1>3 DEF Taken
<1>5. Taken(q, c + 1)
  BY <1>1, <1>4, PassedOver DEF Terminal
<1>6. QED
  BY <1>5 DEF q

\* The start or the final of a turn is the request's, belongs to a turn
\* that is no news to it, or gives cause to end it as indeterminate.
LEMMA EventFollows ==
    ASSUME TypeOK, TurnsInOrder, Alternates, StoreFollows,
           NEW r \in Requests,
           NEW c \in Nat, c + 1 <= Len(events), Taken(r, c)
    PROVE  Taken(ReconcileEvent(r, events[c + 1]), c + 1)
PROOF
<1> DEFINE event == events[c + 1]
           record == event.record
           Skips == \/ r.state \in Terminal \/ ~event.same
                    \/ record.turn \in {0, r.baseline}
<1>1. /\ c + 1 \in 1..Len(events) /\ Len(events) \in Nat
      /\ DOMAIN events = 1..Len(events) /\ event \in StoredEvents
      /\ Len(transcript) \in Nat /\ DOMAIN transcript = 1..Len(transcript)
  BY DEF TypeOK
<1>2. /\ r.created \in Nat /\ r.bound \in Nat /\ r.from \in Nat
  BY Numbers
<1>3. ReconcileEvent(r, event) =
         IF Skips THEN r
         ELSE IF r.bound # 0 /\ record.turn # r.bound
              THEN Finish(r, "indeterminate")
         ELSE IF record.kind = "start"
              THEN IF r.bound = 0 THEN BindTurn(r, record) ELSE r
         ELSE IF r.bound = 0 THEN UnstartedFinal(r, MadeAt(record))
         ELSE TakeFinal(r, record)
  BY DEF ReconcileEvent
<1>4. /\ Starts(transcript) \subseteq 1..Len(transcript)
      /\ Finals(transcript) \subseteq 1..Len(transcript)
      /\ News(r) \subseteq Starts(transcript)
      /\ \A i \in 1..Len(transcript) :
            transcript[i].turn \in Nat /\ transcript[i].turn # 0
  <2>1. \A n \in 1..MaxTurns : n \in Nat /\ n # 0
    BY ReturnAssumption
  <2>2. QED
    BY <1>1, <2>1, RecordsDiffer DEF Starts, Finals, News
<1>5. CASE Skips
  <2>1. ReconcileEvent(r, event) = r
    BY <1>3, <1>5
  <2>2. ASSUME record.turn \in {0, r.baseline}, NEW i \in News(r)
        PROVE  ~Tells(c + 1, i)
    <3>1. transcript[i].turn # r.baseline /\ transcript[i].turn # 0
      BY <1>4 DEF News
    <3>2. QED
      BY <2>2, <3>1 DEF Tells
  <2>3. QED
    BY <1>5, <2>1, <2>2, PassedOver
<1>6. CASE ~Skips
  <2>1. /\ r.state \notin Terminal /\ event.same /\ record.turn # 0
        /\ record.turn # r.baseline
    BY <1>6
  <2>2. PICK k \in 1..Len(transcript) : Tells(c + 1, k)
    BY <1>1, <2>1, ToldInOrder
  <2>3. /\ record = transcript[k] /\ record \in Records
        /\ record # Lifecycle /\ record.turn \in Nat
        /\ k \in Starts(transcript) \/ k \in Finals(transcript)
    <3>1. record = transcript[k]
      BY <2>2 DEF Tells
    <3>2. QED
      BY <1>4, <2>2, <3>1, RecordsDiffer
  <2>4. /\ k \in Starts(transcript) => record.kind = "start"
        /\ k \in Finals(transcript) => record.kind = "final"
    BY <2>3 DEF Starts, Finals
  <2>5. /\ r.from <= c /\ EndedBy(r.from, r.created)
        /\ BoundToFirst(r, c) /\ NotBoundYet(r, c)
    BY DEF Taken, Follows
  <2>6. 1..r.from \subseteq 1..c
    BY <1>2, <2>5
  \* What the transcript has before the record lies behind c.
  <2>7. \A i \in 1..Len(transcript) : i < k =>
           \E e \in 1..c : Tells(e, i) /\ events[e].same
    <3> TAKE i \in 1..Len(transcript)
    <3> HAVE i < k
    <3>1. PICK e \in 1..Len(events) : e < c + 1 /\ Tells(e, i)
      BY <1>1, <2>2, ToldInOrder
    <3>2. events[e].same
      BY <1>1, <2>1, <2>3, <3>1 DEF StoreFollows
    <3>3. e \in 1..c
      BY <1>1, <3>1
    <3>4. QED
      BY <3>1, <3>2, <3>3
  <2>8. \A e \in 1..c, i \in 1..Len(transcript) : Tells(e, i) => i < k
    BY <1>1, <2>2, ToldInOrder
  \* So an unbound request has no news that started before the record.
  <2>9. r.bound = 0 => \A i \in News(r) : ~(i < k)
    <3> SUFFICES ASSUME r.bound = 0, NEW i \in News(r), i < k
                 PROVE  FALSE
      OBVIOUS
    <3>1. PICK e \in 1..c : Tells(e, i) /\ events[e].same
      BY <1>4, <2>7
    <3>2. r.state # "indeterminate"
      BY <2>1 DEF Terminal
    <3>3. QED
      BY <2>5, <3>1, <3>2 DEF NotBoundYet
  <2>10. k \in Starts(transcript) => k \in News(r)
    <3> SUFFICES ASSUME k \in Starts(transcript), NEW e \in 1..r.from,
                        Tells(e, k)
                 PROVE  FALSE
      BY <2>1, <2>3 DEF News
    <3>1. k < k
      BY <2>6, <2>8
    <3>2. QED
      BY <1>1, <3>1
  \* A final is that of a turn that is news, or that had ended.
  <2>11. ASSUME k \in Finals(transcript)
         PROVE  \E i \in Starts(transcript) :
                   /\ i < k /\ transcript[i].turn = record.turn
                   /\ \/ i \in News(r)
                      \/ /\ k <= r.created
                         /\ \E e \in 1..r.from : Tells(e, i)
    <3>1. PICK i \in Starts(transcript) :
             i < k /\ transcript[i].turn = record.turn
      BY <2>3, <2>11 DEF TurnsInOrder
    <3>2. CASE \E e \in 1..r.from : Tells(e, i)
      <4>1. PICK j \in Finals(transcript) :
               j <= r.created /\ transcript[j].turn = transcript[i].turn
        BY <2>5, <3>2 DEF EndedBy
      <4>2. j = k
        BY <2>3, <2>11, <3>1, <4>1 DEF TurnsInOrder
      <4>3. QED
        BY <3>1, <3>2, <4>1, <4>2
    <3>3. CASE \A e \in 1..r.from : ~Tells(e, i)
      BY <2>1, <3>1, <3>3 DEF News
    <3>4. QED
      BY <3>2, <3>3
  \* The turn that a bound request is bound to.
  <2>12. r.bound # 0 => \E i \in News(r) :
            /\ i < k /\ transcript[i].turn = r.bound
            /\ \E e \in 1..c : Tells(e, i)
    <3>1. r.bound # 0 => \E i \in News(r) :
             /\ transcript[i].turn = r.bound
             /\ \E e \in 1..c : Tells(e, i)
      BY <2>5 DEF BoundToFirst
    <3>2. \A i \in News(r) : (\E e \in 1..c : Tells(e, i)) => i < k
      BY <1>4, <2>8
    <3>3. QED
      BY <3>1, <3>2
  <2>13. CASE r.bound # 0 /\ record.turn # r.bound
    <3>1. PICK i \in News(r) :
             /\ i < k /\ transcript[i].turn = r.bound
             /\ \E e \in 1..c : Tells(e, i)
      BY <2>12, <2>13
    <3>2. Cause(r)
      <4>1. CASE k \in Starts(transcript)
        <5>1. k \in News(r) /\ i # k
          BY <2>3, <2>10, <2>13, <3>1, <4>1
        <5>2. QED
          BY <5>1 DEF Cause
      <4>2. CASE k \in Finals(transcript)
        <5>1. PICK j \in Starts(transcript) :
                 /\ j < k /\ transcript[j].turn = record.turn
                 /\ \/ j \in News(r)
                    \/ \E e \in 1..r.from : Tells(e, j)
          BY <2>11, <4>2
        <5>2. CASE j \in News(r)
          <6>1. i # j
            BY <2>13, <3>1, <5>1
          <6>2. QED
            BY <5>2, <6>1 DEF Cause
        \* The turn before the request's, whose final follows its start.
        <5>3. CASE agent = "here" /\ \E e \in 1..r.from : Tells(e, j)
          <6>1. PICK e \in 1..r.from : Tells(e, j)
            BY <5>3
          <6>2. PICK f \in 1..c : Tells(f, i)
            BY <3>1
          <6>3. f \notin 1..r.from
            BY <6>2 DEF News
          <6>4. /\ e < f /\ e \in 1..Len(events) /\ f \in 1..Len(events)
                /\ i \in 1..Len(transcript) /\ j \in 1..Len(transcript)
            BY <1>1, <1>2, <1>4, <2>5, <6>3
          <6>5. j < i
            BY <6>1, <6>2, <6>4, ToldInOrder
          <6>6. /\ j < Len(transcript) /\ j + 1 <= i
            BY <1>1, <6>4, <6>5
          <6>7. /\ j + 1 \in Finals(transcript)
                /\ transcript[j + 1].turn = transcript[j].turn
            BY <5>3, <6>6 DEF Alternates
          <6>8. j + 1 = k
            BY <2>3, <4>2, <5>1, <6>7 DEF TurnsInOrder
          <6>9. QED
            BY <1>1, <3>1, <6>4, <6>6, <6>8
        <5>4. CASE agent # "here"
          BY <5>4 DEF Cause
        <5>5. QED
          BY <5>1, <5>2, <5>3, <5>4
      <4>3. QED
        BY <2>3, <4>1, <4>2
    <3>3. ReconcileEvent(r, event) = Finish(r, "indeterminate")
      BY <1>3, <1>6, <2>13
    <3>4. QED
      BY <3>2, <3>3, GivenUp
  <2>14. CASE k \in Starts(transcript) /\ r.bound = 0
    <3>1. ReconcileEvent(r, event) = BindTurn(r, record)
      BY <1>3, <1>6, <2>4, <2>14
    <3>2. CASE ~managed /\ record.input # "own"
      <4>1. Cause(r)
        BY <2>3, <2>10, <2>14, <3>2 DEF Cause
      <4>2. BindTurn(r, record) = Finish(r, "indeterminate")
        BY <3>2 DEF BindTurn
      <4>3. QED
        BY <3>1, <4>1, <4>2, GivenUp
    <3>3. CASE managed \/ record.input = "own"
      <4> DEFINE q == [r EXCEPT !.bound = record.turn, !.state = "bound"]
      <4>1. BindTurn(r, record) = q
        BY <3>3 DEF BindTurn
      <4>2. /\ q.baseline = r.baseline /\ q.created = r.created
            /\ q.from = r.from
            /\ q.bound = record.turn /\ q.state = "bound"
        BY DEF Requests
      <4> HIDE DEF q
      <4>3. News(q) = News(r) /\ EndedBy(q.from, q.created)
        BY <2>5, <4>2, NewsAlike
      <4>4. q.from <= c + 1
        BY <1>2, <2>5, <4>2
      <4>5. BoundToFirst(q, c + 1)
        <5>1. \A i \in News(r) : i >= k
          BY <1>1, <1>4, <2>9, <2>14
        <5>2. c + 1 \in 1..(c + 1)
          OBVIOUS
        <5>3. QED
          BY <2>2, <2>3, <2>10, <2>14, <3>3, <4>2, <4>3, <5>1, <5>2
          DEF BoundToFirst
      <4>6. NotBoundYet(q, c + 1) /\ HasFinal(q)
        BY <2>1, <4>2 DEF NotBoundYet, HasFinal
      <4>7. Taken(q, c + 1)
        BY <4>2, <4>3, <4>4, <4>5, <4>6 DEF Taken, Follows, Terminal
      <4>8. QED
        BY <3>1, <4>1, <4>7
    <3>4. QED
      BY <3>2, <3>3
  <2>15. CASE /\ k \in Starts(transcript) /\ r.bound # 0
              /\ record.turn = r.bound
    <3>1. ReconcileEvent(r, event) = r
      BY <1>3, <1>6, <2>4, <2>15
    <3>2. QED
      BY <2>15, <3>1, PassedOver
  <2>16. CASE k \in Finals(transcript) /\ r.bound = 0
    <3>1. MadeAt(record) = k
      <4>1. \A i \in DOMAIN transcript : transcript[i] = record <=> i = k
        BY <1>1, <2>3, RecordsDiffer
      <4>2. QED
        BY <1>1, <4>1 DEF MadeAt
    <3>2. k <= r.created
      BY <2>9, <2>11, <2>16
    <3>3. ReconcileEvent(r, event) = r
      BY <1>3, <1>6, <2>4, <2>16, <3>1, <3>2 DEF UnstartedFinal
    <3>4. ~ \E i \in News(r) : Tells(c + 1, i)
      <4> SUFFICES ASSUME NEW i \in News(r), Tells(c + 1, i) PROVE FALSE
        OBVIOUS
      <4>1. record.kind = "start"
        BY DEF Tells, News, Starts
      <4>2. QED
        BY <2>4, <2>16, <4>1
    <3>5. QED
      BY <3>3, <3>4, PassedOver
  <2>17. CASE /\ k \in Finals(transcript) /\ r.bound # 0
              /\ record.turn = r.bound
    <3>1. ReconcileEvent(r, event) = TakeFinal(r, record)
      BY <1>3, <1>6, <2>4, <2>17
    <3>2. CASE record.outcome = "completed"
      <4> DEFINE q == [Finish(r, "completed") EXCEPT !.final = record.turn]
      <4>1. TakeFinal(r, record) = q
        BY <3>2 DEF TakeFinal
      <4>2. /\ q.baseline = r.baseline /\ q.created = r.created
            /\ q.from = r.from
            /\ q.bound = r.bound /\ q.state = "completed"
            /\ q.final = record.turn
        BY DEF Requests, Finish
      <4> HIDE DEF q
      <4>3. 1..c \subseteq 1..(c + 1)
        OBVIOUS
      <4>4. /\ News(q) = News(r) /\ EndedBy(q.from, q.created)
            /\ q.from <= c + 1
        BY <1>2, <2>5, <4>2, NewsAlike
      <4>5. BoundToFirst(q, c + 1)
        BY <2>5, <4>2, <4>3, <4>4 DEF BoundToFirst
      <4>6. NotBoundYet(q, c + 1)
        BY <2>17, <4>2 DEF NotBoundYet
      <4>7. HasFinal(q)
        BY <2>3, <2>17, <3>2, <4>2 DEF HasFinal
      <4>8. Taken(q, c + 1)
        BY <2>17, <4>2, <4>4, <4>5, <4>6, <4>7 DEF Taken, Follows
      <4>9. QED
        BY <3>1, <4>1, <4>8
    <3>3. CASE record.outcome = "silent"
      <4>1. TakeFinal(r, record) = Finish(r, "indeterminate")
        BY <3>3 DEF TakeFinal
      <4>2. PICK i \in News(r) : transcript[i].turn = r.bound
        BY <2>12, <2>17
      <4>3. Cause(r)
        BY <2>3, <2>17, <3>3, <4>2 DEF Cause
      <4>4. QED
        BY <3>1, <4>1, <4>3, GivenUp
    <3>4. CASE record.outcome # "completed" /\ record.outcome # "silent"
      <4>1. TakeFinal(r, record) = Finish(r, "aborted")
        BY <3>4 DEF TakeFinal
      <4>2. /\ Follows(Finish(r, "aborted"), c)
            /\ Finish(r, "aborted").state = "aborted"
            /\ Finish(r, "aborted").bound = r.bound
            /\ Finish(r, "aborted") \in Requests
        <5>1. r.state # "indeterminate" /\ "aborted" \in Terminal
          BY <2>1 DEF Terminal
        <5>2. Finish(r, "aborted").bound = r.bound
          BY DEF Finish, Requests
        <5>3. QED
          BY <5>1, <5>2, FinishFollows, SaveTypes DEF Taken
      <4>3. Taken(Finish(r, "aborted"), c)
        BY <2>17, <4>2 DEF Taken
      <4>4. QED
        BY <2>17, <3>1, <4>1, <4>2, <4>3, PassedOver
    <3>5. QED
      BY <3>2, <3>3, <3>4
  <2>18. QED
    BY <2>3, <2>13, <2>14, <2>15, <2>16, <2>17
<1>7. QED
  BY <1>5, <1>6

\* A whole page.
LEMMA EventsFollow ==
    ASSUME TypeOK, TurnsInOrder, Alternates, StoreFollows,
           NEW r \in Requests,
           NEW page \in Seq(StoredEvents), Taken(r, r.cursor),
           r.cursor + Len(page) <= Len(events),
           \A n \in 1..Len(page) : page[n] = events[r.cursor + n]
    PROVE  Taken(ReconcileEvents(r, page), r.cursor + Len(page))
PROOF
<1>0. /\ Len(page) \in Nat /\ Len(events) \in Nat /\ r.cursor \in Nat
      /\ \A n \in 1..Len(page) : page[n] \in StoredEvents
  BY Numbers
<1>1. PICK g : /\ g[0] = r /\ ReconcileEvents(r, page) = g[Len(page)]
               /\ \A n \in 1..Len(page) :
                     g[n] = ReconcileEvent(g[n - 1], page[n])
  BY <1>0, EventsAreRun
<1> DEFINE Good(n) == g[n] \in Requests /\ Taken(g[n], r.cursor + n)
           G == {n \in Nat : n <= Len(page) => Good(n)}
<1>2. 0 \in G
  <2>1. r.cursor + 0 = r.cursor
    BY <1>0
  <2>2. QED
    BY <1>1, <2>1
<1>3. ASSUME NEW n \in Nat, n \in G
      PROVE  n + 1 \in G
  <2>1. CASE n + 1 <= Len(page)
    <3>1. /\ n + 1 \in 1..Len(page) /\ (n + 1) - 1 = n /\ n <= Len(page)
          /\ r.cursor + n \in Nat /\ (r.cursor + n) + 1 = r.cursor + (n + 1)
          /\ (r.cursor + n) + 1 <= Len(events)
      <4>1. \A a, b, l \in Nat : b + 1 <= l /\ a + l <= Len(events) =>
               /\ b + 1 \in 1..l /\ (b + 1) - 1 = b /\ b <= l
               /\ a + b \in Nat /\ (a + b) + 1 = a + (b + 1)
               /\ (a + b) + 1 <= Len(events)
        BY <1>0
      <4>2. QED
        BY <1>0, <2>1, <4>1
    <3>2. g[n + 1] = ReconcileEvent(g[n], page[n + 1])
      BY <1>1, <3>1
    <3>3. g[n] \in Requests /\ Taken(g[n], r.cursor + n)
      BY <1>3, <3>1
    <3>4. /\ page[n + 1] = events[(r.cursor + n) + 1]
          /\ page[n + 1] \in StoredEvents
      BY <1>0, <3>1
    <3>5. g[n + 1] \in Requests
      BY <3>2, <3>3, <3>4, EventTypes
    <3>6. Taken(g[n + 1], (r.cursor + n) + 1)
      BY <3>1, <3>2, <3>3, <3>4, EventFollows
    <3>7. QED
      BY <3>1, <3>5, <3>6
  <2>2. CASE ~(n + 1 <= Len(page))
    BY <2>2
  <2>3. QED
    BY <2>1, <2>2
<1>4. Len(page) \in G
  <2> HIDE DEF G
  <2>1. QED
    BY <1>0, <1>2, <1>3, SetInduction
<1>5. QED
  BY <1>0, <1>1, <1>4

\* What a page makes of a request that has not ended.
LEMMA PageFollows ==
    ASSUME TypeOK, TurnsInOrder, Alternates, StoreFollows, reader # Nothing,
           reader.pruned <= pruned,
           NEW r \in Requests, r.cursor <= reader.latest,
           r.state \notin Terminal, Follows(r, r.cursor)
    PROVE  LET q == ReconcileEventPage(r)
           IN  /\ Follows(q, q.cursor)
               /\ q.state = "indeterminate" => Cause(q) \/ q.cursor < pruned
PROOF
<1> DEFINE d == PageEnd(r.cursor)
           page == SubSeq(events, r.cursor + 1, d)
           p == ReconcileEvents(r, page)
           q == ReconcileEventPage(r)
<1>1. /\ d \in r.cursor..Len(events) /\ page \in Seq(StoredEvents)
      /\ Len(page) = d - r.cursor
      /\ \A n \in 1..Len(page) : page[n] = events[r.cursor + n]
  BY PageWorks
<1>2. r.cursor \in Nat /\ Len(events) \in Nat
  BY Numbers
<1>3. q = IF r.cursor < reader.pruned THEN Finish(r, "indeterminate")
                                      ELSE [p EXCEPT !.cursor = d]
  BY DEF ReconcileEventPage
<1> HIDE DEF d, page, p, q
<1>4. CASE r.cursor < reader.pruned
  <2>1. q = Finish(r, "indeterminate") /\ "indeterminate" \in Terminal
    BY <1>3, <1>4 DEF Terminal
  <2>2. Follows(q, r.cursor) /\ q.cursor = r.cursor
    BY <2>1, FinishFollows
  <2>3. r.cursor < pruned
    <3>1. reader.pruned \in Nat /\ pruned \in Nat
      BY DEF TypeOK
    <3>2. QED
      BY <1>2, <1>4, <3>1
  <2>4. QED
    BY <2>2, <2>3 DEF q
<1>5. CASE ~(r.cursor < reader.pruned)
  <2>1. Taken(r, r.cursor)
    BY DEF Taken, Terminal
  <2>2. r.cursor + Len(page) = d /\ d <= Len(events)
    BY <1>1, <1>2
  <2>3. Taken(p, d)
    BY <1>1, <2>1, <2>2, EventsFollow DEF p
  <2>4. p \in Requests
    BY <1>1, PageTypes DEF p, Fixed
  <2>5. /\ q.cursor = d /\ q.baseline = p.baseline /\ q.created = p.created
        /\ q.from = p.from
        /\ q.bound = p.bound /\ q.final = p.final /\ q.state = p.state
    BY <1>3, <1>5, <2>4 DEF Requests
  <2>6. Follows(q, d)
    BY <2>3, <2>5, FollowsAlike DEF Taken
  <2>7. Cause(p) => Cause(q)
    BY <2>5, NewsAlike DEF Cause
  <2>8. QED
    BY <2>3, <2>5, <2>6, <2>7 DEF Taken, q
<1>6. QED
  BY <1>4, <1>5

-----------------------------------------------------------------------------
(* The request follows the events through every step.                      *)

\* When the transcript shows an idle agent, the turns of the store have ended.
LEMMA IdleEnded ==
    ASSUME TypeOK, TurnsInOrder, Alternates, StoreFollows, agent = "here",
           NEW c \in 0..Len(events), NEW k \in projected..Len(transcript),
           IdleAfter(k)
    PROVE  EndedBy(c, k)
PROOF
<1> SUFFICES ASSUME NEW i \in Starts(transcript), NEW e \in 1..c, Tells(e, i)
             PROVE  \E j \in Finals(transcript) :
                       j <= k /\ transcript[j].turn = transcript[i].turn
  BY DEF EndedBy
<1>1. /\ Len(transcript) \in Nat /\ Len(events) \in Nat
      /\ Starts(transcript) \subseteq 1..Len(transcript)
      /\ projected \in 0..Len(transcript) /\ e \in DOMAIN events
  <2>1. /\ transcript \in Seq(Records) /\ events \in Seq(StoredEvents)
        /\ projected \in 0..Len(transcript)
    BY DEF TypeOK
  <2>2. DOMAIN events = 1..Len(events) /\ e \in 1..Len(events)
    BY <2>1
  <2>3. QED
    BY <2>1, <2>2, StartsAreFinite
<1>2. /\ \A m, n \in 1..Len(transcript) :
            transcript[m] = transcript[n] => m = n
      /\ \A n \in 1..Len(transcript) : transcript[n] # Lifecycle
  BY RecordsDiffer
<1>3. i \in 1..projected
  <2>1. events[e].record # Lifecycle
    BY <1>1, <1>2 DEF Tells
  <2>2. PICK n \in 1..projected : Tells(e, n)
    BY <1>1, <2>1 DEF StoreFollows
  <2>3. n = i
    <3>1. n \in 1..Len(transcript) /\ i \in 1..Len(transcript)
      BY <1>1, <2>2
    <3>2. transcript[n] = transcript[i]
      BY <2>2 DEF Tells
    <3>3. QED
      BY <1>2, <3>1, <3>2
  <2>4. QED
    BY <2>2, <2>3
<1>4. k \in 1..Len(transcript) /\ k # 0 /\ i <= k
  BY <1>1, <1>3
<1>5. transcript[k].kind # "start"
  BY <1>4 DEF IdleAfter
<1>6. i # k
  BY <1>5 DEF Starts
<1>7. i < Len(transcript) /\ i + 1 <= k
  BY <1>1, <1>3, <1>4, <1>6
<1>8. /\ i + 1 \in Finals(transcript)
      /\ transcript[i + 1].turn = transcript[i].turn
  BY <1>7 DEF Alternates
<1>9. QED
  BY <1>7, <1>8

\* What an admission knows goes on being so.
LEMMA ArmedStep ==
    ASSUME TypeOK, TypeOK', TurnsInOrder, Alternates, StoreFollows,
           RequestFollows, Next, armed' # Nothing, seen' # Nothing
    PROVE  EndedBy(armed, seen)'
PROOF
<1>1. CASE Capture
  <2>1. /\ agent = "here" /\ armed' = cached
        /\ seen' \in {k \in projected..Len(transcript) : IdleAfter(k)}
        /\ UNCHANGED <<events, transcript>>
    BY <1>1 DEF Capture, agentVars, storeVars
  <2>2. cached \in 0..Len(events)
    BY DEF TypeOK
  <2>3. EndedBy(armed', seen')
    BY <2>1, <2>2, IdleEnded
  <2>4. QED
    BY <2>1, <2>3 DEF EndedBy, Tells
<1>2. CASE Refresh
  <2>1. /\ agent = "here" /\ armed' = armed /\ armed # Nothing
        /\ seen' = Len(transcript) /\ IdleAfter(Len(transcript))
        /\ UNCHANGED <<events, transcript>>
    BY <1>2 DEF Refresh, agentVars, storeVars
  <2>2. /\ armed \in 0..Len(events)
        /\ Len(transcript) \in projected..Len(transcript)
    BY <2>1 DEF TypeOK
  <2>3. EndedBy(armed', seen')
    BY <2>1, <2>2, IdleEnded
  <2>4. QED
    BY <2>1, <2>3 DEF EndedBy, Tells
<1>3. CASE ~Capture /\ ~Refresh
  <2>1. UNCHANGED <<armed, seen>>
    BY <1>3
    DEF Next, StartTurn, Steer, EndTurn, LoseAgent, DeadlinePasses,
        ObserveAgent, RecordLifecycle, ReadSnapshot, AnswerClient, Register,
        Withdraw, Enter, DeliveryFails, SaveSubmitted, SaveFails,
        StartReconcile, Save, ReconcilePage, PageFails, Restart, requestVars
  <2>2. armed \in 0..Len(events) /\ EndedBy(armed, seen)
    BY <2>1 DEF TypeOK, RequestFollows
  <2>3. QED
    BY <2>1, <2>2, EndedStays
<1>4. QED
  BY <1>1, <1>2, <1>3

\* A new request follows the events.
LEMMA RegisterFollows ==
    ASSUME TypeOK, TurnsInOrder, StoreFollows, RequestFollows, Register
    PROVE  /\ request'.state = "registered"
           /\ Follows(request', request'.cursor)
PROOF
<1> DEFINE r == [state |-> "registered", from |-> armed, cursor |-> armed,
                 baseline |-> TurnBefore(seen), created |-> Len(transcript),
                 bound |-> 0, final |-> 0]
<1>1. request' = r /\ armed # Nothing /\ seen # Nothing
  BY DEF Register
<1>2. /\ r.state = "registered" /\ r.from = armed /\ r.cursor = armed
      /\ r.created = Len(transcript) /\ r.bound = 0
  OBVIOUS
<1> HIDE DEF r
<1>3. /\ armed \in 0..Len(events) /\ seen \in 0..Len(transcript)
      /\ Len(transcript) \in Nat /\ Len(events) \in Nat
      /\ EndedBy(armed, seen)
  <2>1. /\ transcript \in Seq(Records) /\ events \in Seq(StoredEvents)
        /\ armed \in 0..Len(events) /\ seen \in 0..Len(transcript)
    BY <1>1 DEF TypeOK
  <2>2. QED
    BY <1>1, <2>1 DEF RequestFollows
<1>4. \A j \in Finals(transcript) : j <= seen => j <= Len(transcript)
  <2>1. DOMAIN transcript = 1..Len(transcript)
    BY DEF TypeOK
  <2>2. Finals(transcript) \subseteq 1..Len(transcript)
    BY <2>1 DEF Finals
  <2>3. QED
    BY <1>3, <2>2
<1>5. EndedBy(r.from, r.created) /\ r.from <= armed
  BY <1>2, <1>3, <1>4 DEF EndedBy
<1>6. BoundToFirst(r, armed) /\ HasFinal(r) /\ NotBoundYet(r, armed)
  BY <1>2 DEF BoundToFirst, HasFinal, NotBoundYet, News
<1>7. QED
  BY <1>1, <1>2, <1>5, <1>6 DEF Follows

\* A request that is stored when it follows the events follows them.
LEMMA RequestPart ==
    ASSUME TypeOK, TypeOK', TurnsInOrder, StoreFollows, Next,
           NEW r \in Requests, Follows(r, r.cursor), request' = r,
           r.state = "indeterminate" =>
              \/ Cause(r) \/ r.cursor < pruned
              \/ agent' # "here" \/ written' = "partial"
    PROVE  /\ Follows(request, request.cursor)'
           /\ request'.state = "indeterminate" =>
                 Cause(request)' \/ request'.cursor < pruned'
PROOF
<1>1. /\ r.cursor \in 0..Len(events) /\ r.cursor \in Nat /\ pruned \in Nat
      /\ pruned' \in Nat
  <2>1. r.cursor \in 0..Len(events) /\ r.cursor \in Nat
    BY Numbers
  <2>2. pruned \in 0..Len(events) /\ pruned' \in 0..Len(events')
    BY DEF TypeOK
  <2>3. QED
    BY <2>1, <2>2
<1>2. Follows(r, r.cursor)'
  BY <1>1, FollowsGrows
<1>3. Cause(r) => Cause(r)'
  BY CauseStays
<1>4. agent' # "here" \/ written' = "partial" => Cause(r)'
  BY DEF Cause
<1>5. r.cursor < pruned => r.cursor < pruned'
  BY <1>1, StepGrows
<1>6. QED
  BY <1>2, <1>3, <1>4, <1>5

\* So does a copy that is worked on.
LEMMA WorkPart ==
    ASSUME TypeOK, TypeOK', TurnsInOrder, StoreFollows, Next,
           NEW r \in Requests, Follows(r, r.cursor), work'.copy = r
    PROVE  Follows(work.copy, work.copy.cursor)'
PROOF
<1>1. r.cursor \in 0..Len(events)
  BY DEF Requests
<1>2. Follows(r, r.cursor)'
  BY <1>1, FollowsGrows
<1>3. QED
  BY <1>2

\* RequestFollows, step by step.
LEMMA RequestStep ==
    ASSUME TypeOK, TypeOK', TurnsInOrder, Alternates, StoreFollows, InStep,
           RequestFollows, Next
    PROVE  RequestFollows'
PROOF
<1> DEFINE ArmedGoes ==
              armed' # Nothing /\ seen' # Nothing => EndedBy(armed, seen)'
           RequestGoes ==
              request' # Nothing =>
                 /\ Follows(request, request.cursor)'
                 /\ request'.state = "indeterminate" =>
                       Cause(request)' \/ request'.cursor < pruned'
           WorkGoes ==
              work' # Nothing => Follows(work.copy, work.copy.cursor)'
<1>0. ArmedGoes
  BY ArmedStep
<1>1. SUFFICES RequestGoes /\ WorkGoes
  BY <1>0 DEF RequestFollows
<1>2. UNCHANGED request => RequestGoes
  <2> SUFFICES ASSUME UNCHANGED request, request' # Nothing
               PROVE  /\ Follows(request, request.cursor)'
                      /\ request'.state = "indeterminate" =>
                            Cause(request)' \/ request'.cursor < pruned'
    OBVIOUS
  <2>1. /\ request \in Requests /\ Follows(request, request.cursor)
        /\ request.state = "indeterminate" =>
              Cause(request) \/ request.cursor < pruned
    BY DEF TypeOK, RequestFollows
  <2>2. QED
    BY <2>1, RequestPart
<1>3. UNCHANGED work => WorkGoes
  <2> SUFFICES ASSUME UNCHANGED work, work' # Nothing
               PROVE  Follows(work.copy, work.copy.cursor)'
    OBVIOUS
  <2>1. work.copy \in Requests /\ Follows(work.copy, work.copy.cursor)
    BY DEF TypeOK, RequestFollows
  <2>2. QED
    BY <2>1, WorkPart
\* A request that is stored anew, and that follows the events already.
<1>4. ASSUME NEW r \in Requests, request' = r, Follows(r, r.cursor),
             r.state = "indeterminate" =>
                \/ Cause(r) \/ r.cursor < pruned
                \/ agent' # "here" \/ written' = "partial"
      PROVE  RequestGoes
  BY <1>4, RequestPart
<1> HIDE DEF RequestGoes
<1>5. CASE Register
  <2>1. /\ request'.state = "registered"
        /\ Follows(request', request'.cursor)
    BY <1>5, RegisterFollows
  <2>2. UNCHANGED <<events, transcript, work>>
    BY <1>5 DEF Register, storeVars, agentVars
  <2>3. request' \in Requests \/ request' = Nothing
    BY <2>2 DEF TypeOK, Requests
  <2>4. request' = Nothing => RequestGoes
    BY DEF RequestGoes
  <2>5. request' \in Requests => RequestGoes
    BY <1>4, <2>1
  <2>6. QED
    BY <1>3, <2>2, <2>3, <2>4, <2>5
<1>6. CASE SaveSubmitted
  <2>1. /\ armed # Nothing /\ request' = Finish(request, "submitted")
        /\ request \in Requests /\ UNCHANGED work
    BY <1>6 DEF SaveSubmitted, Finish, InStep
  <2>2. CASE request # Nothing
    <3>1. request.state # "indeterminate" /\ Follows(request, request.cursor)
      BY <2>1, <2>2 DEF InStep, RequestFollows
    <3>2. /\ Follows(request', request'.cursor)
          /\ request'.state = "submitted" /\ request' \in Requests
      BY <2>1, <3>1, FinishFollows, SaveTypes DEF Terminal
    <3>3. QED
      BY <1>3, <1>4, <2>1, <3>2
  <2>3. CASE request = Nothing
    <3>1. Requests \subseteq
             [state : {"registered", "submitted", "bound"} \cup Terminal,
              from : Nat, cursor : Nat, baseline : Nat, created : Nat,
              bound : Nat, final : Nat]
      <4>1. /\ 0..Len(events) \subseteq Nat /\ 0..Len(transcript) \subseteq Nat
            /\ 0..MaxTurns \subseteq Nat
        <5>1. MaxTurns \in Nat
          BY ReturnAssumption
        <5>2. QED
          BY <5>1
      <4>2. QED
        BY <4>1 DEF Requests
    <3>2. QED
      BY <2>1, <2>3, <3>1, NothingAssumption
  <2>4. QED
    BY <2>2, <2>3
<1>7. CASE DeliveryFails
  <2>1. /\ request # Nothing
        /\ request' = request \/ request' = Finish(request, "indeterminate")
        /\ written' = "partial" /\ UNCHANGED work
    BY <1>7 DEF DeliveryFails, Finish
  <2>2. /\ request \in Requests /\ Follows(request, request.cursor)
        /\ "indeterminate" \in Terminal
    BY <2>1 DEF TypeOK, RequestFollows, Terminal
  <2>3. Follows(request', request'.cursor) /\ request' \in Requests
    BY <2>1, <2>2, FinishFollows, SaveTypes
  <2>4. QED
    BY <1>3, <1>4, <2>1, <2>3
<1>8. ASSUME NEW then \in {"list", "cancel"}, StartReconcile(then)
      PROVE  RequestGoes /\ WorkGoes
  <2>1. /\ work = Nothing /\ request \in Requests /\ request # Nothing
        /\ Follows(request, request.cursor)
        /\ request.state \in Terminal => announced
    BY <1>8, StartWorks DEF StartReconcile, RequestFollows, InStep, Stored
  <2>2. CASE /\ work' = [copy |-> request, then |-> then]
             /\ UNCHANGED <<request, announced>>
    <3>1. work'.copy = request
      BY <2>2
    <3>2. Follows(work.copy, work.copy.cursor)'
      BY <2>1, <3>1, WorkPart
    <3>3. QED
      BY <1>2, <2>2, <3>2
  <2>3. CASE /\ ~announced /\ UNCHANGED work
             /\ \/ request' = Finish(request, "timed_out")
                \/ /\ request' = Finish(request, "indeterminate")
                   /\ agent # "here"
    <3>1. /\ request.state # "indeterminate" /\ "timed_out" \in Terminal
          /\ "indeterminate" \in Terminal
      BY <2>1, <2>3 DEF Terminal
    <3>2. /\ Follows(request', request'.cursor) /\ request' \in Requests
          /\ request'.state = "indeterminate" => agent # "here"
      BY <2>1, <2>3, <3>1, FinishFollows, SaveTypes
    <3>3. agent # "here" => agent' # "here"
      BY StepGrows
    <3>4. QED
      BY <1>3, <1>4, <2>3, <3>2, <3>3
  <2>4. CASE UNCHANGED <<work, request>>
    BY <1>2, <1>3, <2>4
  <2>5. CASE /\ UNCHANGED work /\ request' = Finish(request, "cancelled")
             /\ request.state \notin Terminal
    <3>1. request.state # "indeterminate" /\ "cancelled" \in Terminal
      BY <2>5 DEF Terminal
    <3>2. /\ Follows(request', request'.cursor) /\ request' \in Requests
          /\ request'.state # "indeterminate"
      BY <2>1, <2>5, <3>1, FinishFollows, SaveTypes
    <3>3. QED
      BY <1>3, <1>4, <2>5, <3>2
  <2>6. QED
    BY <1>8, <2>2, <2>3, <2>4, <2>5, StartWorks
<1>9. CASE ReconcilePage
  <2> DEFINE r == ReconcileEventPage(work.copy)
  <2>1. /\ work # Nothing /\ reader # Nothing
        /\ work.copy \in Requests /\ r \in Requests
        /\ work.copy.cursor <= reader.latest
        /\ work.then \in {"list", "cancel"}
        /\ work \in [copy : Requests, then : {"list", "cancel"}]
        /\ \/ work' = Nothing /\ Save(r, work.then)
           \/ work' = [work EXCEPT !.copy = r] /\ UNCHANGED request
    BY <1>9, PageStepWorks
  <2>2. /\ Follows(work.copy, work.copy.cursor)
        /\ work.copy.state \notin Terminal /\ reader.pruned <= pruned
    BY <2>1 DEF RequestFollows, InStep
  <2>3. /\ Follows(r, r.cursor)
        /\ r.state = "indeterminate" => Cause(r) \/ r.cursor < pruned
    BY <2>1, <2>2, PageFollows
  <2> HIDE DEF r
  <2>4. CASE work' = Nothing /\ Save(r, work.then)
    <3>1. /\ request' \in {r, Finish(r, "cancelled")}
          /\ r.state \in Terminal => request' = r
      BY <2>1, <2>4, SaveWorks
    <3>2. CASE request' = r
      BY <1>4, <2>1, <2>3, <2>4, <3>2
    <3>3. CASE request' = Finish(r, "cancelled") /\ r.state \notin Terminal
      <4>1. r.state # "indeterminate" /\ "cancelled" \in Terminal
        BY <3>3 DEF Terminal
      <4>2. /\ Follows(request', request'.cursor) /\ request' \in Requests
            /\ request'.state # "indeterminate"
        BY <2>1, <2>3, <3>3, <4>1, FinishFollows, SaveTypes
      <4>3. QED
        BY <1>4, <2>4, <4>2
    <3>4. QED
      BY <3>1, <3>2, <3>3
  <2>5. CASE work' = [work EXCEPT !.copy = r] /\ UNCHANGED request
    <3>1. work'.copy = r
      BY <2>1, <2>5
    <3>2. Follows(work.copy, work.copy.cursor)'
      BY <2>1, <2>3, <3>1, WorkPart
    <3>3. QED
      BY <1>2, <2>5, <3>2
  <2>6. QED
    BY <2>1, <2>4, <2>5
<1>10. CASE Restart
  <2>1. /\ work' = Nothing /\ agent' # "here"
        /\ \/ UNCHANGED request
           \/ /\ request # Nothing
              /\ request' = Finish(request, "indeterminate")
    BY <1>10 DEF Restart
  <2>2. CASE UNCHANGED request
    BY <1>2, <2>1, <2>2
  <2>3. CASE /\ request # Nothing
             /\ request' = Finish(request, "indeterminate")
    <3>1. /\ request \in Requests /\ Follows(request, request.cursor)
          /\ "indeterminate" \in Terminal
      BY <2>3 DEF TypeOK, RequestFollows, Terminal
    <3>2. Follows(request', request'.cursor) /\ request' \in Requests
      BY <2>3, <3>1, FinishFollows, SaveTypes
    <3>3. QED
      BY <1>4, <2>1, <3>2
  <2>4. QED
    BY <2>1, <2>2, <2>3
<1>11. CASE \/ \E input \in Inputs : StartTurn(input)
            \/ \E outcome \in Outcomes : EndTurn(outcome)
            \/ \E how \in {"exited", "replaced", "moved", "detached",
                           "gone"} : LoseAgent(how)
            \/ DeadlinePasses \/ ObserveAgent \/ RecordLifecycle
            \/ \E whose \in {"main", "client"} : ReadSnapshot(whose)
            \/ AnswerClient \/ Capture \/ Refresh \/ Withdraw \/ Enter
            \/ Steer \/ SaveFails \/ PageFails
  <2>1. request' \in {request, Nothing} /\ work' \in {work, Nothing}
    BY <1>11
    DEF StartTurn, Steer, EndTurn, LoseAgent, DeadlinePasses, ObserveAgent,
        RecordLifecycle, ReadSnapshot, AnswerClient, Capture, Refresh,
        Withdraw, Enter, SaveFails, PageFails, requestVars
  <2>2. request' = Nothing => RequestGoes
    BY DEF RequestGoes
  <2>3. QED
    BY <1>2, <1>3, <2>1, <2>2
<1>12. QED
  BY <1>5, <1>6, <1>7, <1>8, <1>9, <1>10, <1>11 DEF Next

-----------------------------------------------------------------------------
(* What a request ends with.                                               *)

\* The inductive invariant holds.
LEMMA InvHolds ==
    Spec => []IInv
PROOF
<1> DEFINE J == Alternates /\ StoreFollows /\ RequestFollows
<1>1. Init => J
  <2>1. SUFFICES ASSUME Init PROVE J
    OBVIOUS
  <2>2. DOMAIN events = {} /\ projected = 0 /\ 1..projected = {}
        /\ Starts(transcript) = {}
    BY <2>1 DEF Init, Starts
  <2>3. Alternates /\ StoreFollows
    BY <2>2 DEF Alternates, StoreFollows
  <2>4. RequestFollows
    BY <2>1 DEF Init, RequestFollows
  <2>5. QED
    BY <2>3, <2>4
<1>2. Base /\ Base' /\ J /\ [Next]_vars => J'
  <2> SUFFICES ASSUME Base, Base', J, [Next]_vars PROVE J'
    OBVIOUS
  <2>1. CASE Next
    BY <2>1, AlternatesStep, FollowsStep, RequestStep DEF Base
  <2>2. CASE UNCHANGED vars
    <3>1. UNCHANGED <<managed, transcript, running, agent, projected, events,
                      pruned, armed, seen, request, written, work>>
      BY <2>2 DEF vars, agentVars, storeVars, requestVars
    <3>2. Alternates' /\ StoreFollows'
      BY <3>1 DEF Alternates, StoreFollows, Tells
    <3>3. \A r : News(r)' = News(r)
      BY <3>1 DEF News, Tells
    <3>4. \A c, k : EndedBy(c, k)' <=> EndedBy(c, k)
      BY <3>1 DEF EndedBy, Tells
    <3>5. \A r, c : Follows(r, c)' <=> Follows(r, c)
      BY <3>1, <3>3, <3>4 DEF Follows, BoundToFirst, NotBoundYet, HasFinal,
                              Tells
    <3>6. \A r : Cause(r)' <=> Cause(r)
      BY <3>1, <3>3 DEF Cause
    <3>7. QED
      BY <3>1, <3>2, <3>4, <3>5, <3>6 DEF RequestFollows
  <2>3. QED
    BY <2>1, <2>2
<1>3. Base /\ J => IInv
  BY DEF Base, IInv
<1> HIDE DEF J
<1>4. QED
  BY <1>1, <1>2, <1>3, BaseHolds, PTL DEF Spec

\* A request that completed has the answer of the first turn that was news.
LEMMA CompletedIsOwn ==
    ASSUME IInv
    PROVE  FinalIsOwn
PROOF
<1> SUFFICES ASSUME Stored({"completed"})
             PROVE  \E i \in News(request) :
                       /\ transcript[i].turn = request.final
                       /\ \A k \in News(request) : k >= i
                       /\ transcript[i].input = "own" \/ managed
                       /\ \E j \in i..Len(transcript) : transcript[j] =
                             [kind |-> "final", turn |-> request.final,
                              outcome |-> "completed"]
  BY DEF FinalIsOwn
<1> USE DEF IInv
<1>1. /\ request # Nothing /\ request.state = "completed"
      /\ BoundToFirst(request, request.cursor) /\ HasFinal(request)
  BY DEF Stored, RequestFollows, Follows
<1>2. request.bound # 0 /\ request.final = request.bound
  BY <1>1 DEF HasFinal
<1>3. PICK i \in News(request) :
         /\ transcript[i].turn = request.bound
         /\ \A k \in News(request) : k >= i
         /\ transcript[i].input = "own" \/ managed
  BY <1>1, <1>2 DEF BoundToFirst
<1>4. PICK j \in Finals(transcript) :
         transcript[j].turn = request.final
         /\ transcript[j].outcome = "completed"
  BY <1>1 DEF HasFinal
<1>5. /\ Starts(transcript) \subseteq 1..Len(transcript)
      /\ i \in Starts(transcript)
      /\ j \in 1..Len(transcript) /\ Len(transcript) \in Nat
      /\ transcript[j] \in Records /\ transcript[j].kind = "final"
      /\ \A n \in 1..Len(transcript) : transcript[n].turn \in Nat
  <2>1. DOMAIN transcript = 1..Len(transcript) /\ Len(transcript) \in Nat
    BY DEF TypeOK
  <2>2. j \in 1..Len(transcript) /\ transcript[j].kind = "final"
    BY <1>4, <2>1 DEF Finals
  <2>3. \A n \in 1..MaxTurns : n \in Nat
    BY ReturnAssumption
  <2>4. i \in Starts(transcript)
    BY DEF News
  <2>5. QED
    BY <2>1, <2>2, <2>3, <2>4, RecordsDiffer, StartsAreFinite
<1>6. transcript[j] = [kind |-> "final", turn |-> request.final,
                       outcome |-> "completed"]
  BY <1>4, <1>5 DEF Records
<1>7. i < j
  <2>1. PICK k \in Starts(transcript) :
           k < j /\ transcript[k].turn = transcript[j].turn
    BY <1>4 DEF TurnsInOrder
  <2>2. transcript[k].turn = transcript[i].turn
    BY <1>2, <1>3, <1>4, <2>1
  <2>3. ~(transcript[i].turn < transcript[k].turn)
        /\ ~(transcript[k].turn < transcript[i].turn)
    BY <1>5, <2>2
  <2>4. ~(i < k) /\ ~(k < i)
    BY <1>5, <2>3 DEF TurnsInOrder
  <2>5. QED
    BY <1>5, <2>1, <2>4
<1>8. j \in i..Len(transcript)
  BY <1>5, <1>7
<1>9. QED
  BY <1>2, <1>3, <1>6, <1>8

\* A request that is given up has met one of the causes.
LEMMA GivenUpForCause ==
    ASSUME IInv
    PROVE  GivesUpForCause
PROOF
<1> SUFFICES ASSUME Stored({"indeterminate"}),
                    agent = "here", written # "partial",
                    ~(request.cursor < pruned),
                    ~(/\ ~managed
                      /\ \E i \in News(request) :
                            transcript[i].input # "own"),
                    ~\E i \in News(request), j \in DOMAIN transcript :
                        /\ transcript[j].kind = "final"
                        /\ transcript[j].turn = transcript[i].turn
                        /\ transcript[j].outcome = "silent"
             PROVE  Cardinality(News(request)) > 1
  BY DEF GivesUpForCause
<1> USE DEF IInv
<1>1. Cause(request)
  BY DEF Stored, RequestFollows
<1>2. PICK i, k \in News(request) : i # k
  BY <1>1 DEF Cause, Finals
<1>3. /\ {i, k} \subseteq News(request)
      /\ News(request) \subseteq Starts(transcript)
  BY <1>2 DEF News
<1>4. IsFiniteSet(News(request))
  BY <1>3, StartsAreFinite, FS_Subset
<1>5. Cardinality({i, k}) = 2
  <2>1. IsFiniteSet({i}) /\ Cardinality({i}) = 1
    BY FS_Singleton
  <2>2. k \notin {i} /\ {i} \cup {k} = {i, k}
    BY <1>2
  <2>3. Cardinality({i} \cup {k}) = Cardinality({i}) + 1
    BY <2>1, <2>2, FS_AddElement
  <2>4. Cardinality({i} \cup {k}) = 2
    BY <2>1, <2>3
  <2>5. QED
    BY <2>2, <2>4, Zenon
<1>6. Cardinality({i, k}) <= Cardinality(News(request))
      /\ Cardinality(News(request)) \in Nat
  BY <1>3, <1>4, FS_Subset, FS_CardinalityType
<1>7. QED
  BY <1>5, <1>6

\* A completed request has the final answer of the first turn that was news
\* to it, which in a terminal session its own prompt started, whatever comes
\* late, out of a page or from another incarnation, however stale the
\* snapshot and the event cursor that it was registered with
\* (AgentRequest::new, reconcile_event_page).
THEOREM CompletedWithOwnFinal == Spec => []FinalIsOwn
PROOF
<1>1. IInv => FinalIsOwn
  BY CompletedIsOwn
<1>2. QED
  BY <1>1, InvHolds, PTL

\* A request ends indeterminate for one of its causes only (reconcile,
\* reconcile_event_page, reconcile_written_request_after_failure).
THEOREM IndeterminateForCause == Spec => []GivesUpForCause
PROOF
<1>1. IInv => GivesUpForCause
  BY GivenUpForCause
<1>2. QED
  BY <1>1, InvHolds, PTL

=============================================================================
