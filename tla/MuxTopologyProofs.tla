-------------------------- MODULE MuxTopologyProofs --------------------------
(***************************************************************************)
(* Theorems about MuxTopology, for any clients and any number of panes,    *)
(* tabs, windows and requests.                                             *)
(***************************************************************************)
EXTENDS MuxTopology, FiniteSetTheorems, TLAPS

(***************************************************************************)
(* What the operations on a mux do to it.                                  *)
(***************************************************************************)

\* Setting one field of a mux gives a mux.
LEMMA SetField ==
    ASSUME NEW m \in Muxes
    PROVE  /\ \A x \in SUBSET Panes : [m EXCEPT !.panes = x] \in Muxes
           /\ \A x \in SUBSET Tabs : [m EXCEPT !.tabs = x] \in Muxes
           /\ \A x \in [Tabs -> SUBSET Panes] :
                 [m EXCEPT !.trees = x] \in Muxes
           /\ \A x \in SUBSET Windows : [m EXCEPT !.windows = x] \in Muxes
           /\ \A x \in [Windows -> SUBSET Tabs] :
                 [m EXCEPT !.held = x] \in Muxes
           /\ \A x \in Nat : /\ [m EXCEPT !.activity = x] \in Muxes
                             /\ [m EXCEPT !.prunes = x] \in Muxes
           /\ \A x \in SUBSET Panes : [m EXCEPT !.removals = x] \in Muxes
           /\ \A x \in BOOLEAN : [m EXCEPT !.owed = x] \in Muxes
BY DEF Muxes

\* Pruning a mux gives a mux.
LEMMA PruneAllType ==
    ASSUME NEW m \in Muxes
    PROVE  PruneAll(m) \in Muxes
PROOF
<1> DEFINE shown == Shown(m)
           Dying(t) == IF t \in shown THEN m.trees[t] \ (m.panes \ exited)
                                      ELSE {}
           trees == [t \in Tabs |-> m.trees[t] \ Dying(t)]
           IsDead(t) == trees[t] \subseteq exited
           held == [w \in Windows |->
                       {t \in m.held[w] : ~IsDead(t) /\ t \in m.tabs}]
           tabs == m.tabs \ {t \in m.tabs : IsDead(t)}
           panes == m.panes \ UNION {trees[t] : t \in {u \in m.tabs :
                                                          IsDead(u)}}
           windows == {w \in m.windows : held[w] # {}}
           removals == m.removals \cup UNION {Dying(t) : t \in shown}
<1>1. trees \in [Tabs -> SUBSET Panes] /\ held \in [Windows -> SUBSET Tabs]
  BY DEF Muxes
<1>2. /\ tabs \in SUBSET Tabs /\ panes \in SUBSET Panes
      /\ windows \in SUBSET Windows
  BY DEF Muxes
<1>3. removals \in SUBSET Panes
  BY DEF Muxes, Shown
<1>4. PruneAll(m) = [m EXCEPT !.trees = trees, !.held = held, !.tabs = tabs,
                              !.panes = panes, !.windows = windows,
                              !.removals = removals, !.owed = FALSE]
  BY DEF PruneAll, Muxes
<1> HIDE DEF trees, held, tabs, panes, windows, removals
<1>5. [m EXCEPT !.trees = trees, !.held = held] \in Muxes
  BY <1>1, SetField
<1>6. [m EXCEPT !.trees = trees, !.held = held, !.tabs = tabs,
                !.panes = panes] \in Muxes
  BY <1>2, <1>5, SetField
<1>7. [m EXCEPT !.trees = trees, !.held = held, !.tabs = tabs,
                !.panes = panes, !.windows = windows,
                !.removals = removals, !.owed = FALSE] \in Muxes
  BY <1>2, <1>3, <1>6, SetField
<1>8. QED
  BY <1>4, <1>7

\* The trees and the windows of a pruned mux.
LEMMA PruneAllFields ==
    ASSUME NEW m \in Muxes
    PROVE  /\ \A t \in Tabs : PruneAll(m).trees[t] =
                 IF t \in Shown(m) THEN m.trees[t] \cap (m.panes \ exited)
                 ELSE m.trees[t]
           /\ \A w \in Windows : PruneAll(m).held[w] =
                 {t \in m.held[w] : /\ ~(PruneAll(m).trees[t] \subseteq exited)
                                    /\ t \in m.tabs}
           /\ PruneAll(m).tabs =
                 {t \in m.tabs : ~(PruneAll(m).trees[t] \subseteq exited)}
           /\ PruneAll(m).windows =
                 {w \in m.windows : PruneAll(m).held[w] # {}}
           /\ PruneAll(m).panes = m.panes \
                 UNION {PruneAll(m).trees[t] :
                           t \in {u \in m.tabs :
                                     PruneAll(m).trees[u] \subseteq exited}}
           /\ PruneAll(m).activity = m.activity
           /\ PruneAll(m).prunes = m.prunes
PROOF
<1> USE DEF PruneAll, Muxes
<1>1. \A t \in Tabs : PruneAll(m).trees[t] =
         IF t \in Shown(m) THEN m.trees[t] \cap (m.panes \ exited)
         ELSE m.trees[t]
  OBVIOUS
<1>2. \A w \in Windows : PruneAll(m).held[w] =
         {t \in m.held[w] : /\ ~(PruneAll(m).trees[t] \subseteq exited)
                            /\ t \in m.tabs}
  OBVIOUS
<1>3. PruneAll(m).tabs =
         {t \in m.tabs : ~(PruneAll(m).trees[t] \subseteq exited)}
  OBVIOUS
<1>4. PruneAll(m).windows = {w \in m.windows : PruneAll(m).held[w] # {}}
  OBVIOUS
<1>5. PruneAll(m).panes = m.panes \
         UNION {PruneAll(m).trees[t] :
                   t \in {u \in m.tabs :
                             PruneAll(m).trees[u] \subseteq exited}}
  OBVIOUS
<1>6. PruneAll(m).activity = m.activity /\ PruneAll(m).prunes = m.prunes
  OBVIOUS
<1>7. QED
  BY <1>1, <1>2, <1>3, <1>4, <1>5, <1>6

\* A pruning that goes through leaves nothing owed.
LEMMA PruneAllPays ==
    ASSUME NEW m \in Muxes
    PROVE  PruneAll(m).owed = FALSE
BY DEF PruneAll, Muxes

\* k is m with less in it.
Shrunk(m, k) ==
    /\ k \in Muxes
    /\ k.panes \subseteq m.panes /\ k.tabs \subseteq m.tabs
    /\ k.windows \subseteq m.windows
    /\ \A t \in Tabs : k.trees[t] \subseteq m.trees[t]
    /\ \A w \in Windows : k.held[w] \subseteq m.held[w]
    /\ k.activity = m.activity /\ k.prunes = m.prunes

\* Pruning takes things away, leaves every pane and tab where it was, and
\* leaves no husk.
LEMMA PruneAllWorks ==
    ASSUME NEW m \in Muxes
    PROVE  /\ Shrunk(m, PruneAll(m))
           /\ Homes(m) => Homes(PruneAll(m))
           /\ Clean(PruneAll(m))
PROOF
<1> DEFINE k == PruneAll(m)
<1>1. k \in Muxes
  BY PruneAllType
<1>2. Shrunk(m, k)
  <2>1. ASSUME NEW t \in Tabs PROVE k.trees[t] \subseteq m.trees[t]
    <3>1. k.trees[t] = IF t \in Shown(m)
                       THEN m.trees[t] \cap (m.panes \ exited)
                       ELSE m.trees[t]
      BY PruneAllFields
    <3> HIDE DEF k
    <3>2. QED
      BY <3>1
  <2>2. /\ k.panes \subseteq m.panes /\ k.tabs \subseteq m.tabs
        /\ k.windows \subseteq m.windows
        /\ \A w \in Windows : k.held[w] \subseteq m.held[w]
    BY PruneAllFields
  <2>3. k.activity = m.activity /\ k.prunes = m.prunes
    BY PruneAllFields
  <2>4. QED
    BY <1>1, <2>1, <2>2, <2>3 DEF Shrunk
<1>3. Homes(m) => Homes(k)
  BY <1>1, <1>2, PruneAllFields DEF Homes, Shrunk, Muxes
<1>4. Clean(k)
  <2> SUFFICES ASSUME NEW w \in k.windows, NEW t \in k.held[w]
               PROVE  k.trees[t] # {} /\ k.trees[t] \subseteq k.panes
    BY PruneAllFields DEF Clean
  <2>1. w \in m.windows /\ t \in m.held[w] /\ ~(k.trees[t] \subseteq exited)
    BY PruneAllFields DEF Muxes
  <2>2. t \in Tabs /\ t \in Shown(m)
    BY <2>1 DEF Shown, Muxes
  <2>3. k.trees[t] = m.trees[t] \cap (m.panes \ exited)
    BY <2>2, PruneAllFields
  <2>4. k.trees[t] \subseteq k.panes
    BY <2>3, PruneAllFields
  <2>5. QED
    BY <2>1, <2>4
<1>5. QED
  BY <1>2, <1>3, <1>4

\* What the proofs need to know of prune_dead_windows: with an Activity it
\* does nothing, and otherwise it leaves no husk unless it was left out.
Pruned(m, k) ==
    /\ Shrunk(m, k)
    /\ Homes(m) => Homes(k)
    /\ m.activity = 0 /\ ~k.owed => Clean(k)
    /\ m.activity > 0 => k.windows = m.windows

\* prune_dead_windows prunes, or owes it.
LEMMA PruneWorks ==
    ASSUME NEW m \in Muxes, NEW free
    PROVE  Pruned(m, Prune(m, free))
PROOF
<1>1. CASE m.activity > 0
  <2>1. Prune(m, free) = m
    BY <1>1 DEF Prune
  <2>2. Shrunk(m, m)
    BY DEF Shrunk
  <2>3. QED
    BY <1>1, <2>1, <2>2 DEF Pruned, Muxes
<1>2. CASE m.activity = 0 /\ "prune" \in free
  <2>1. Prune(m, free) = PruneAll(m)
    BY <1>2 DEF Prune
  <2>2. QED
    BY <1>2, <2>1, PruneAllWorks DEF Pruned
<1>3. CASE m.activity = 0 /\ "prune" \notin free
  <2> DEFINE k == Prune(m, free)
             owed == PruneAll(m) # m
  <2>1. k = [m EXCEPT !.owed = owed]
    BY <1>3 DEF Prune
  <2>2. owed \in BOOLEAN
    OBVIOUS
  <2>3. /\ ~owed => m = PruneAll(m)
        /\ m.owed => owed
    BY PruneAllPays
  <2> HIDE DEF owed, k
  <2>4. k \in Muxes
    BY <2>1, <2>2, SetField
  <2>5. /\ k.panes = m.panes /\ k.tabs = m.tabs /\ k.trees = m.trees
        /\ k.windows = m.windows /\ k.held = m.held
        /\ k.activity = m.activity /\ k.prunes = m.prunes
        /\ k.owed = owed
    BY <2>1 DEF Muxes
  <2>6. Shrunk(m, k)
    BY <2>4, <2>5 DEF Shrunk
  <2>7. Homes(m) => Homes(k)
    BY <2>3, <2>5 DEF Homes
  <2>8. ~k.owed => Clean(k)
    <3> SUFFICES ASSUME ~k.owed PROVE Clean(k)
      OBVIOUS
    <3>1. m = PruneAll(m)
      BY <2>3, <2>5
    <3>2. Clean(m)
      BY <3>1, PruneAllWorks
    <3>3. QED
      BY <2>5, <3>2 DEF Clean
  <2>9. QED
    BY <1>3, <2>6, <2>7, <2>8 DEF Pruned, k
<1>4. QED
  BY <1>1, <1>2, <1>3 DEF Muxes

\* So does it after something was taken away.
LEMMA PrunedAfter ==
    ASSUME NEW m, NEW k, NEW j, Shrunk(m, k), k.windows = m.windows,
           Homes(m) => Homes(k), Pruned(k, j)
    PROVE  Pruned(m, j)
BY DEF Pruned, Shrunk

\* remove_pane prunes.
LEMMA RemovePaneWorks ==
    ASSUME NEW m \in Muxes, NEW p, NEW free
    PROVE  Pruned(m, RemovePane(m, p, free))
PROOF
<1> DEFINE k == [m EXCEPT !.panes = @ \ {p}]
<1>1. k \in Muxes /\ Shrunk(m, k) /\ k.windows = m.windows
  BY DEF Muxes, Shrunk
<1>2. Homes(m) => Homes(k)
  BY DEF Muxes, Homes
<1>3. RemovePane(m, p, free) = Prune(k, free)
  BY DEF RemovePane
<1> HIDE DEF k
<1>4. QED
  BY <1>1, <1>2, <1>3, PruneWorks, PrunedAfter

\* The mux when remove_tab has removed the tab, and is to prune.
Untabbed(m, t, free) ==
    LET gone == [m EXCEPT !.tabs = @ \ {t}, !.panes = @ \ m.trees[t]]
        held == [w \in Windows |-> m.held[w] \ {t}]
    IN  IF "remove" \in free THEN [gone EXCEPT !.held = held]
                             ELSE [gone EXCEPT !.owed = TRUE]

\* It has less in it, and every pane and tab is where it was.
LEMMA UntabbedWorks ==
    ASSUME NEW m \in Muxes, NEW t \in Tabs, NEW free
    PROVE  /\ Shrunk(m, Untabbed(m, t, free))
           /\ Untabbed(m, t, free).windows = m.windows
           /\ Untabbed(m, t, free).tabs = m.tabs \ {t}
           /\ Untabbed(m, t, free).panes = m.panes \ m.trees[t]
           /\ Untabbed(m, t, free).trees = m.trees
           /\ Homes(m) => Homes(Untabbed(m, t, free))
PROOF
<1> DEFINE held == [w \in Windows |-> m.held[w] \ {t}]
           gone == [m EXCEPT !.tabs = @ \ {t}, !.panes = @ \ m.trees[t]]
           k == Untabbed(m, t, free)
<1>1. gone \in Muxes
  <2>1. m.tabs \ {t} \in SUBSET Tabs /\ m.panes \ m.trees[t] \in SUBSET Panes
    BY DEF Muxes
  <2>2. gone = [m EXCEPT !.tabs = m.tabs \ {t}, !.panes = m.panes \ m.trees[t]]
    BY DEF Muxes
  <2> HIDE DEF gone
  <2>3. QED
    BY <2>1, <2>2, SetField
<1>2. /\ gone.tabs = m.tabs \ {t} /\ gone.panes = m.panes \ m.trees[t]
      /\ gone.held = m.held /\ gone.trees = m.trees
      /\ gone.windows = m.windows /\ gone.owed = m.owed
      /\ gone.activity = m.activity /\ gone.prunes = m.prunes
  BY DEF Muxes
<1>3. k = IF "remove" \in free THEN [gone EXCEPT !.held = held]
                               ELSE [gone EXCEPT !.owed = TRUE]
  BY DEF Untabbed
<1>4. held \in [Windows -> SUBSET Tabs]
  BY DEF Muxes
<1> HIDE DEF gone, k
<1>5. k \in Muxes
  BY <1>1, <1>3, <1>4, SetField
<1>6. /\ k.tabs = gone.tabs /\ k.panes = gone.panes
      /\ k.trees = gone.trees /\ k.windows = gone.windows
      /\ k.activity = gone.activity /\ k.prunes = gone.prunes
  BY <1>1, <1>3 DEF Muxes
<1>7. \/ k.held = held /\ k.owed = m.owed
      \/ k.held = m.held /\ k.owed = TRUE
  BY <1>1, <1>2, <1>3 DEF Muxes
<1>8. Shrunk(m, k)
  BY <1>2, <1>5, <1>6, <1>7 DEF Shrunk
<1>9. Homes(m) => Homes(k)
  BY <1>2, <1>6, <1>7 DEF Homes
<1>10. QED
  BY <1>2, <1>6, <1>8, <1>9 DEF k

\* remove_tab prunes, and removes the tab.
LEMMA RemoveTabWorks ==
    ASSUME NEW m \in Muxes, NEW t \in Tabs, NEW free
    PROVE  /\ Pruned(m, RemoveTab(m, t, free))
           /\ t \notin RemoveTab(m, t, free).tabs
PROOF
<1> DEFINE k == Untabbed(m, t, free)
           j == RemoveTab(m, t, free)
<1>1. /\ Shrunk(m, k) /\ k.windows = m.windows /\ k.tabs = m.tabs \ {t}
      /\ Homes(m) => Homes(k)
  BY UntabbedWorks
<1>2. j = Prune(k, free)
  BY DEF RemoveTab, Untabbed
<1> HIDE DEF k, j
<1>3. Pruned(k, j)
  BY <1>1, <1>2, PruneWorks DEF Shrunk
<1>4. Pruned(m, j)
  BY <1>1, <1>3, PrunedAfter
<1>5. QED
  BY <1>1, <1>3, <1>4 DEF Pruned, Shrunk, j

\* A mux that is in order, as far as one can say without the clients.
Sound(m, n) == m \in Muxes /\ GivenOut(m, n) /\ Homes(m)

\* Pruning keeps a mux in order.
LEMMA PrunedSound ==
    ASSUME NEW m, NEW n, NEW k, Sound(m, n), Pruned(m, k)
    PROVE  Sound(k, n)
BY DEF Sound, Pruned, Shrunk, GivenOut

\* The mux when move_pane_to_new_tab has put the pane p of the tab t in the
\* new tab u of the window w, and when it has looked at what is left of t.
Moved(m, p, t, u, w) ==
    AddToWindow(AddTab([m EXCEPT !.trees[t] = @ \ {p}], u, p), u, w)

Left(m, p, t, u, w, free) ==
    IF Moved(m, p, t, u, w).trees[t] \subseteq exited
    THEN RemoveTab(Moved(m, p, t, u, w), t, free) ELSE Moved(m, p, t, u, w)

\* k is m with p moved from the tab t to the new tab u of w.
IsMoved(m, k, p, t, u, w) ==
    /\ k \in Muxes /\ Homes(k)
    /\ k.panes = m.panes \cup {p} /\ k.tabs = m.tabs \cup {u}
    /\ k.windows = m.windows
    /\ k.trees = [m.trees EXCEPT ![t] = @ \ {p}, ![u] = {p}]
    /\ k.held = [m.held EXCEPT ![w] = @ \cup {u}]
    /\ k.activity = m.activity /\ k.prunes = m.prunes /\ k.owed = m.owed

\* Moving a pane leaves it in one place.
LEMMA MoveWorks ==
    ASSUME NEW m \in Muxes, Homes(m), NEW t \in m.tabs, NEW p \in m.trees[t],
           NEW w \in m.windows, NEW u \in Tabs \ m.tabs,
           \A x \in Windows : u \notin m.held[x]
    PROVE  IsMoved(m, Moved(m, p, t, u, w), p, t, u, w)
PROOF
<1> DEFINE taken == [m EXCEPT !.trees[t] = @ \ {p}]
           added == AddTab(taken, u, p)
           moved == AddToWindow(added, u, w)
           trees == [m.trees EXCEPT ![t] = @ \ {p}, ![u] = {p}]
<1>0. t \in Tabs /\ p \in Panes /\ w \in Windows /\ u \in Tabs
  BY DEF Muxes
<1>1. /\ taken \in Muxes
      /\ taken.trees = [m.trees EXCEPT ![t] = @ \ {p}]
      /\ taken.panes = m.panes /\ taken.tabs = m.tabs /\ taken.held = m.held
      /\ taken.windows = m.windows /\ taken.activity = m.activity
      /\ taken.prunes = m.prunes /\ taken.owed = m.owed
  BY <1>0 DEF Muxes
<1> HIDE DEF taken
<1>2. /\ added \in Muxes
      /\ added.trees = [taken.trees EXCEPT ![u] = {p}]
      /\ added.panes = m.panes \cup {p} /\ added.tabs = m.tabs \cup {u}
      /\ added.held = m.held /\ added.windows = m.windows
      /\ added.activity = m.activity /\ added.prunes = m.prunes
      /\ added.owed = m.owed
  BY <1>0, <1>1 DEF AddTab, Muxes
<1> HIDE DEF added
<1>3. /\ moved \in Muxes
      /\ moved.trees = added.trees
      /\ moved.panes = added.panes /\ moved.tabs = added.tabs
      /\ moved.held = [m.held EXCEPT ![w] = @ \cup {u}]
      /\ moved.windows = m.windows
      /\ moved.activity = m.activity /\ moved.prunes = m.prunes
      /\ moved.owed = m.owed
  BY <1>0, <1>2 DEF AddToWindow, Muxes
<1> HIDE DEF moved
<1>4. moved.trees = trees
  BY <1>1, <1>2, <1>3
<1>5. Homes(moved)
  <2>1. \A a, b \in moved.tabs :
           a # b => moved.trees[a] \cap moved.trees[b] = {}
    BY <1>0, <1>2, <1>3, <1>4 DEF Homes, Muxes
  <2>2. /\ \A a, b \in Windows :
              a # b => moved.held[a] \cap moved.held[b] = {}
        /\ moved.owed \/ \A a \in Windows : moved.held[a] \subseteq moved.tabs
    BY <1>0, <1>2, <1>3 DEF Homes, Muxes
  <2>3. QED
    BY <2>1, <2>2 DEF Homes
<1>6. moved = Moved(m, p, t, u, w)
  BY DEF moved, added, taken, Moved
<1>7. QED
  BY <1>2, <1>3, <1>4, <1>5, <1>6 DEF IsMoved

-----------------------------------------------------------------------------
(* The inductive invariant.                                                *)

\* The types of what is not the mux.
RestTypeOK ==
    /\ made \in Counts
    /\ exited \subseteq Panes
    /\ reader \in [Panes -> {"none", "open", "ended", "done"}]

\* A request that comes in is counted, and next is what it gave out.
LEMMA AsksTypes ==
    ASSUME TypeOK, NEW next \in Counts, next.requests = made.requests,
           Asks(next)
    PROVE  /\ made' \in Counts
           /\ made'.panes = next.panes /\ made'.tabs = next.tabs
           /\ made'.windows = next.windows
PROOF
<1>1. made.requests + 1 \in 0..MaxRequests
  BY TopologyAssumption DEF Asks, TypeOK, Counts
<1>2. made' = [next EXCEPT !.requests = made.requests + 1]
  BY DEF Asks, Counts
<1>3. QED
  BY <1>1, <1>2 DEF Counts

\* The ids that may be given out next.
LEMMA NextTypes ==
    ASSUME TypeOK
    PROVE  /\ NextPane \in Panes => [made EXCEPT !.panes = NextPane] \in Counts
           /\ NextTab \in Tabs => [made EXCEPT !.tabs = NextTab] \in Counts
           /\ NextWindow \in Windows =>
                 [made EXCEPT !.windows = NextWindow] \in Counts
PROOF
<1>1. /\ NextPane \in Panes => NextPane \in 0..MaxPanes
      /\ NextTab \in Tabs => NextTab \in 0..MaxTabs
      /\ NextWindow \in Windows => NextWindow \in 0..MaxWindows
  BY TopologyAssumption DEF Panes, Tabs, Windows
<1>2. QED
  BY <1>1 DEF TypeOK, Counts

\* Dropping a builder only counts.
LEMMA DropBuilderFields ==
    ASSUME NEW m \in Muxes, m.activity # 0
    PROVE  /\ DropBuilder(m) \in Muxes
           /\ DropBuilder(m).activity = m.activity - 1
           /\ DropBuilder(m).prunes = m.prunes + 1
           /\ DropBuilder(m).prunes # 0
           /\ DropBuilder(m).panes = m.panes /\ DropBuilder(m).tabs = m.tabs
           /\ DropBuilder(m).windows = m.windows
           /\ DropBuilder(m).trees = m.trees /\ DropBuilder(m).held = m.held
           /\ DropBuilder(m).owed = m.owed
PROOF
<1> DEFINE x == m.activity - 1
           y == m.prunes + 1
<1>1. x \in Nat /\ y \in Nat /\ y # 0
  BY DEF Muxes
<1>2. DropBuilder(m) = [m EXCEPT !.activity = x, !.prunes = y]
  BY DEF DropBuilder, Muxes
<1> HIDE DEF x, y
<1>3. [m EXCEPT !.activity = x, !.prunes = y] \in Muxes
  BY <1>1, SetField
<1>4. /\ DropBuilder(m).activity = x /\ DropBuilder(m).prunes = y
      /\ DropBuilder(m).panes = m.panes /\ DropBuilder(m).tabs = m.tabs
      /\ DropBuilder(m).windows = m.windows
      /\ DropBuilder(m).trees = m.trees /\ DropBuilder(m).held = m.held
      /\ DropBuilder(m).owed = m.owed
  BY <1>2 DEF Muxes
<1>5. QED
  BY <1>1, <1>2, <1>3, <1>4 DEF x, y

\* A new window is counted by its Activity.
LEMMA NewWindowFields ==
    ASSUME NEW m \in Muxes, NEW w \in Windows
    PROVE  /\ NewWindow(m, w) \in Muxes
           /\ NewWindow(m, w).activity = m.activity + 1
           /\ NewWindow(m, w).activity # 0
           /\ NewWindow(m, w).windows = m.windows \cup {w}
           /\ NewWindow(m, w).panes = m.panes
           /\ NewWindow(m, w).tabs = m.tabs
           /\ NewWindow(m, w).trees = m.trees
           /\ NewWindow(m, w).held = m.held
           /\ NewWindow(m, w).prunes = m.prunes
           /\ NewWindow(m, w).owed = m.owed
PROOF
<1> DEFINE x == m.activity + 1
<1>1. x \in Nat /\ x # 0
  BY DEF Muxes
<1>2. NewWindow(m, w) = [m EXCEPT !.windows = m.windows \cup {w},
                                  !.activity = x]
  BY DEF NewWindow, Muxes
<1> HIDE DEF x
<1>3. [m EXCEPT !.windows = m.windows \cup {w}, !.activity = x] \in Muxes
  <2>1. m.windows \cup {w} \in SUBSET Windows
    BY DEF Muxes
  <2>2. [m EXCEPT !.windows = m.windows \cup {w}] \in Muxes
    BY <2>1, SetField
  <2>3. QED
    BY <1>1, <2>2, SetField
<1>4. /\ NewWindow(m, w).activity = x
      /\ NewWindow(m, w).windows = m.windows \cup {w}
      /\ NewWindow(m, w).panes = m.panes
      /\ NewWindow(m, w).tabs = m.tabs
      /\ NewWindow(m, w).trees = m.trees
      /\ NewWindow(m, w).held = m.held
      /\ NewWindow(m, w).prunes = m.prunes
      /\ NewWindow(m, w).owed = m.owed
  BY <1>2 DEF Muxes
<1>5. QED
  BY <1>1, <1>2, <1>3, <1>4 DEF x

\* There are finitely many requests that open a window.
LEMMA OpeningIsFinite ==
    /\ IsFiniteSet(Opening)
    /\ Cardinality(Opening) \in Nat
    /\ Cardinality(Opening) = 0 <=> Opening = {}
PROOF
<1>1. IsFiniteSet(Opening)
  BY TopologyAssumption, FS_Subset DEF Opening
<1>2. QED
  BY <1>1, FS_CardinalityType, FS_EmptySet

\* A step that no waiting request takes keeps the invariant when it leaves
\* the mux in order and the windows of waiting requests alone.
LEMMA ThroughKeeps ==
    ASSUME IInv, RestTypeOK', UNCHANGED <<task, identity>>,
           Sound(mux', made'), mux'.activity = mux.activity,
           mux.activity > 0 => mux.windows \subseteq mux'.windows,
           mux'.activity = 0 /\ mux'.prunes = 0 /\ ~mux'.owed => Clean(mux')
    PROVE  IInv'
PROOF
<1>1. TypeOK'
  BY DEF IInv, TypeOK, RestTypeOK, Sound
<1>2. Opening' = Opening
  BY DEF Opening
<1>3. NewWindowKept'
  <2>1. CASE Opening = {}
    BY <2>1 DEF NewWindowKept, Opening
  <2>2. CASE Opening # {}
    BY <2>2, OpeningIsFinite DEF NewWindowKept, IInv
  <2>3. QED
    BY <2>1, <2>2
<1>4. NoHusks'
  BY DEF NoHusks, Clean
<1>5. QED
  BY <1>1, <1>2, <1>3, <1>4 DEF IInv, Sound

\* A request that returns keeps the invariant when it leaves the mux in
\* order.
LEMMA FinishKeeps ==
    ASSUME IInv, RestTypeOK', NEW c \in Clients, task[c].op # "idle",
           NEW m, Sound(m, made'), Finish(c, m),
           m.activity = mux.activity, m.prunes = mux.prunes,
           m.windows = mux.windows, m.owed = mux.owed,
           mux.activity = 0 /\ mux.prunes = 0 /\ ~mux.owed => Clean(m)
    PROVE  IInv'
PROOF
<1>0. TypeOK /\ m \in Muxes /\ task[c] \in Tasks
  BY DEF IInv, Sound, TypeOK
<1>1. /\ task' \in [Clients -> Tasks] /\ task'[c].op = "idle"
      /\ \A d \in Clients \ {c} : task'[d] = task[d]
      /\ identity' \in Clients \cup {None}
  BY <1>0 DEF Finish, TypeOK, Idle, Tasks
<1>2. Opening' = Opening \ {c}
  BY <1>1 DEF Opening
<1>3. CASE task[c].op = "window"
  <2>1. c \in Opening /\ mux.activity \in Nat \ {0}
    BY <1>3, OpeningIsFinite DEF Opening, IInv
  <2>2. mux' = DropBuilder(m)
    BY <1>3 DEF Finish
  <2>3. /\ mux' \in Muxes /\ mux'.activity = m.activity - 1
        /\ mux'.prunes = m.prunes + 1 /\ mux'.prunes # 0
        /\ mux'.panes = m.panes /\ mux'.tabs = m.tabs
        /\ mux'.windows = m.windows /\ mux'.trees = m.trees
        /\ mux'.held = m.held /\ mux'.owed = m.owed
    BY <1>0, <2>1, <2>2, DropBuilderFields
  <2>4. Cardinality(Opening') = Cardinality(Opening) - 1
    BY <1>2, <2>1, OpeningIsFinite, FS_RemoveElement
  <2>5. TypeOK'
    BY <1>1, <2>3 DEF TypeOK, RestTypeOK
  <2>6. GivenOut(mux', made') /\ Homes(mux')
    BY <2>3 DEF Sound, GivenOut, Homes
  <2>7. NewWindowKept'
    BY <1>1, <2>3 DEF IInv, NewWindowKept
  <2>8. NoHusks'
    BY <2>3 DEF NoHusks
  <2>9. QED
    BY <2>3, <2>4, <2>5, <2>6, <2>7, <2>8 DEF IInv
<1>4. CASE task[c].op # "window"
  <2>1. mux' = m /\ Opening' = Opening
    BY <1>2, <1>4 DEF Finish, Opening
  <2>2. TypeOK'
    BY <1>0, <1>1, <2>1 DEF TypeOK, RestTypeOK
  <2>3. NewWindowKept' /\ NoHusks'
    BY <1>1, <2>1 DEF IInv, NewWindowKept, NoHusks, Clean
  <2>4. QED
    BY <2>1, <2>2, <2>3 DEF IInv, Sound
<1>5. QED
  BY <1>3, <1>4

\* The requests that wait for spawn_pane keep the invariant as they start.
LEMMA StartKeeps ==
    ASSUME IInv, NEW c \in Clients,
           \/ SpawnWindow(c)
           \/ \E p \in Panes, w \in Windows, t \in Tabs :
                 SpawnTab(c, p, w, t) \/ SplitPane(c, p, w, t)
    PROVE  IInv'
PROOF
<1>0. TypeOK
  BY DEF IInv
<1>1. CASE SpawnWindow(c)
  <2> DEFINE v == NextWindow
  <2>1. /\ task[c].op = "idle" /\ v \in Windows
        /\ mux' = NewWindow(mux, v)
        /\ task' = [task EXCEPT ![c] = [Idle EXCEPT !.op = "window",
                                          !.window = v, !.prior = identity]]
        /\ identity' = c /\ UNCHANGED <<exited, reader>>
    BY <1>1 DEF SpawnWindow, Start
  <2>2. /\ made' \in Counts
        /\ made'.windows = made.windows + 1 /\ made'.tabs = made.tabs
        /\ made'.panes = made.panes
    <3>1. Asks([made EXCEPT !.windows = v])
      BY <1>1 DEF SpawnWindow
    <3>2. /\ [made EXCEPT !.windows = v] \in Counts
          /\ [made EXCEPT !.windows = v].requests = made.requests
      BY <1>0, <2>1, NextTypes DEF TypeOK, Counts
    <3>3. /\ made' \in Counts
          /\ made'.panes = [made EXCEPT !.windows = v].panes
          /\ made'.tabs = [made EXCEPT !.windows = v].tabs
          /\ made'.windows = [made EXCEPT !.windows = v].windows
      BY <1>0, <3>1, <3>2, AsksTypes
    <3>4. QED
      BY <1>0, <3>3 DEF TypeOK, Counts, NextWindow
  <2>3. /\ mux' \in Muxes /\ mux'.activity = mux.activity + 1
        /\ mux'.activity # 0 /\ mux'.windows = mux.windows \cup {v}
        /\ mux'.panes = mux.panes /\ mux'.tabs = mux.tabs
        /\ mux'.trees = mux.trees /\ mux'.held = mux.held
        /\ mux'.owed = mux.owed
    BY <1>0, <2>1, NewWindowFields DEF TypeOK
  <2>4. /\ task' \in [Clients -> Tasks]
        /\ task'[c].op = "window" /\ task'[c].window = v
        /\ \A d \in Clients \ {c} : task'[d] = task[d]
    BY <1>0, <2>1 DEF TypeOK, Tasks, Idle
  <2>5. Opening' = Opening \cup {c} /\ c \notin Opening
    BY <2>1, <2>4 DEF Opening
  <2>6. Cardinality(Opening') = Cardinality(Opening) + 1
    BY <2>5, OpeningIsFinite, FS_AddElement
  <2>7. TypeOK'
    BY <1>0, <2>1, <2>2, <2>3, <2>4 DEF TypeOK
  <2>8. GivenOut(mux', made') /\ Homes(mux')
    <3>1. made.windows \in Nat /\ v = made.windows + 1
      BY <1>0 DEF TypeOK, Counts, NextWindow
    <3>2. mux'.windows \subseteq 1..made'.windows
      BY <2>2, <2>3, <3>1 DEF IInv, GivenOut
    <3>3. QED
      BY <2>2, <2>3, <3>2 DEF IInv, GivenOut, Homes
  <2>9. NewWindowKept' /\ NoHusks'
    BY <2>3, <2>4 DEF IInv, NewWindowKept, NoHusks
  <2>10. QED
    BY <2>3, <2>6, <2>7, <2>8, <2>9 DEF IInv
<1>2. ASSUME NEW p \in Panes, NEW w \in Windows, NEW t \in Tabs,
             SpawnTab(c, p, w, t) \/ SplitPane(c, p, w, t)
      PROVE  IInv'
  <2>1. /\ task[c].op = "idle" /\ UNCHANGED <<mux, exited, reader>>
        /\ identity' = c /\ Asks(made)
    BY <1>2 DEF SpawnTab, SplitPane, Start
  <2>2. /\ made' \in Counts
        /\ made'.windows = made.windows /\ made'.tabs = made.tabs
        /\ made'.panes = made.panes
    BY <1>0, <2>1, AsksTypes DEF TypeOK
  <2>3. /\ task' \in [Clients -> Tasks] /\ task'[c].op # "window"
        /\ \A d \in Clients \ {c} : task'[d] = task[d]
    <3>1. \/ task' = [task EXCEPT ![c] = [Idle EXCEPT !.op = "tab",
                           !.window = w, !.prior = identity]]
          \/ task' = [task EXCEPT ![c] = [Idle EXCEPT !.op = "split",
                           !.tab = t, !.pane = p, !.prior = identity]]
      BY <1>2 DEF SpawnTab, SplitPane, Start
    <3>2. /\ [Idle EXCEPT !.op = "tab", !.window = w,
                          !.prior = identity] \in Tasks
          /\ [Idle EXCEPT !.op = "split", !.tab = t, !.pane = p,
                          !.prior = identity] \in Tasks
      BY <1>0 DEF TypeOK, Tasks, Idle
    <3>3. QED
      BY <1>0, <3>1, <3>2 DEF TypeOK, Idle
  <2>4. Opening' = Opening
    BY <2>1, <2>3 DEF Opening
  <2>5. TypeOK'
    BY <1>0, <2>1, <2>2, <2>3 DEF TypeOK
  <2>6. GivenOut(mux', made') /\ Homes(mux')
    BY <2>1, <2>2 DEF IInv, GivenOut, Homes
  <2>7. NewWindowKept' /\ NoHusks'
    BY <2>1, <2>3 DEF IInv, NewWindowKept, NoHusks
  <2>8. QED
    BY <2>1, <2>4, <2>5, <2>6, <2>7 DEF IInv
<1>3. QED
  BY <1>1, <1>2

\* A new pane is in no tab, a new tab in no window, and a new window is none.
LEMMA NewIsNew ==
    ASSUME IInv
    PROVE  /\ NextPane \notin mux.panes
           /\ \A t \in Tabs : NextPane \notin mux.trees[t]
           /\ NextTab \notin mux.tabs
           /\ \A w \in Windows : NextTab \notin mux.held[w]
           /\ NextWindow \notin mux.windows
PROOF
<1>1. /\ made.panes \in Nat /\ made.tabs \in Nat /\ made.windows \in Nat
  BY DEF IInv, TypeOK, Counts
<1>2. /\ NextPane \notin 1..made.panes /\ NextTab \notin 1..made.tabs
      /\ NextWindow \notin 1..made.windows
  BY <1>1 DEF NextPane, NextTab, NextWindow
<1>3. QED
  BY <1>2 DEF IInv, GivenOut, Homes

\* What was given out stays given out when more is.
LEMMA MoreGivenOut ==
    ASSUME NEW m, NEW n \in Counts, NEW k \in Counts, GivenOut(m, n),
           n.panes <= k.panes, n.tabs <= k.tabs, n.windows <= k.windows
    PROVE  GivenOut(m, k)
PROOF
<1>1. /\ 1..n.panes \subseteq 1..k.panes /\ 1..n.tabs \subseteq 1..k.tabs
      /\ 1..n.windows \subseteq 1..k.windows
  BY DEF Counts
<1>2. QED
  BY <1>1 DEF GivenOut

\* A program that started gets its tab: the request keeps the invariant.
LEMMA SpawnDoneKeeps ==
    ASSUME IInv, NEW c \in Clients, SpawnDone(c)
    PROVE  IInv'
PROOF
<1> DEFINE t == NextTab
           p == NextPane
           w == task[c].window
           added == AddTab(mux, t, p)
           m == AddToWindow(added, t, w)
<1>0. TypeOK /\ mux \in Muxes
  BY DEF IInv, TypeOK
<1>1. /\ task[c].op # "idle" /\ t \in Tabs /\ p \in Panes
      /\ reader' = [reader EXCEPT ![p] = "open"] /\ exited' = exited
      /\ made' = [made EXCEPT !.panes = p, !.tabs = t]
      /\ Finish(c, m)
  BY DEF SpawnDone, Spawned
<1>2. /\ made' \in Counts /\ made'.panes = p /\ made'.tabs = t
      /\ made'.windows = made.windows
      /\ p = made.panes + 1 /\ t = made.tabs + 1
      /\ made.panes \in Nat /\ made.tabs \in Nat /\ made.windows \in Nat
  <2>1. [made EXCEPT !.panes = p] \in Counts /\ t \in 0..MaxTabs
    BY <1>0, <1>1, NextTypes, TopologyAssumption DEF Tabs
  <2>2. /\ p = made.panes + 1 /\ t = made.tabs + 1
        /\ made.panes \in Nat /\ made.tabs \in Nat /\ made.windows \in Nat
    BY <1>0 DEF TypeOK, Counts, NextPane, NextTab
  <2> HIDE DEF p, t
  <2>3. made' \in Counts
    BY <1>1, <2>1 DEF Counts
  <2>4. /\ made'.panes = p /\ made'.tabs = t
        /\ made'.windows = made.windows
    BY <1>0, <1>1 DEF TypeOK, Counts
  <2>5. QED
    BY <2>2, <2>3, <2>4
<1>3. /\ p \notin mux.panes /\ t \notin mux.tabs
      /\ \A u \in Tabs : p \notin mux.trees[u]
      /\ \A v \in Windows : t \notin mux.held[v]
  BY NewIsNew
<1>4. RestTypeOK'
  BY <1>0, <1>1, <1>2 DEF RestTypeOK, TypeOK
<1>5. GivenOut(mux, made')
  BY <1>0, <1>2, MoreGivenOut DEF IInv, TypeOK
<1> HIDE DEF t, p, w
<1>6. /\ added \in Muxes
      /\ added.panes = mux.panes \cup {p} /\ added.tabs = mux.tabs \cup {t}
      /\ added.trees = [mux.trees EXCEPT ![t] = {p}]
      /\ added.windows = mux.windows /\ added.held = mux.held
      /\ added.activity = mux.activity /\ added.prunes = mux.prunes
      /\ added.owed = mux.owed
  BY <1>0, <1>1 DEF AddTab, Muxes
<1> HIDE DEF added
<1>7. /\ m \in Muxes
      /\ m.panes = added.panes /\ m.tabs = added.tabs
      /\ m.trees = added.trees /\ m.windows = added.windows
      /\ m.activity = added.activity /\ m.prunes = added.prunes
      /\ m.owed = added.owed
      /\ m.held = IF w \in added.windows
                  THEN [added.held EXCEPT ![w] = @ \cup {t}] ELSE added.held
  BY <1>1, <1>6 DEF AddToWindow, Muxes
<1> HIDE DEF m
<1>8. GivenOut(m, made')
  <2>1. p \in 1..made'.panes /\ t \in 1..made'.tabs
    BY <1>2
  <2>2. QED
    BY <1>0, <1>1, <1>5, <1>6, <1>7, <2>1 DEF GivenOut, Muxes
<1>9. Homes(m)
  <2>1. \A a, b \in m.tabs : a # b => m.trees[a] \cap m.trees[b] = {}
    BY <1>0, <1>1, <1>3, <1>6, <1>7 DEF IInv, Homes, Muxes
  <2>2. /\ \A a, b \in Windows : a # b => m.held[a] \cap m.held[b] = {}
        /\ m.owed \/ \A a \in Windows : m.held[a] \subseteq m.tabs
    BY <1>0, <1>3, <1>6, <1>7 DEF IInv, Homes, Muxes
  <2>3. QED
    BY <2>1, <2>2 DEF Homes
<1>10. mux.activity = 0 /\ mux.prunes = 0 /\ ~mux.owed => Clean(m)
  <2>1. mux.activity = 0 /\ mux.prunes = 0 /\ ~mux.owed => Clean(mux)
    BY DEF IInv, NoHusks, Clean
  <2>2. Clean(mux) => Clean(m)
    BY <1>0, <1>1, <1>3, <1>6, <1>7 DEF Clean, Muxes
  <2>3. QED
    BY <2>1, <2>2
<1>11. QED
  BY <1>1, <1>4, <1>6, <1>7, <1>8, <1>9, <1>10, FinishKeeps DEF Sound, m

\* A program that started gets its place in a split, or none: the request
\* keeps the invariant.
LEMMA SplitDoneKeeps ==
    ASSUME IInv, NEW c \in Clients, NEW fits \in BOOLEAN, SplitDone(c, fits)
    PROVE  IInv'
PROOF
<1> DEFINE t == task[c].tab
           p == NextPane
           added == [mux EXCEPT !.panes = @ \cup {p}]
           ok == fits /\ task[c].pane \in mux.trees[task[c].tab]
           m == IF ok THEN [added EXCEPT !.trees[t] = @ \cup {p}] ELSE added
<1>0. TypeOK /\ mux \in Muxes /\ task[c] \in Tasks
  BY DEF IInv, TypeOK
<1>1. /\ task[c].op # "idle" /\ p \in Panes
      /\ reader' = [reader EXCEPT ![p] = "open"] /\ exited' = exited
      /\ made' = [made EXCEPT !.panes = p]
      /\ Finish(c, m)
  BY DEF SplitDone, Spawned
<1>2. /\ made' \in Counts /\ made'.panes = p /\ made'.tabs = made.tabs
      /\ made'.windows = made.windows /\ p = made.panes + 1
      /\ made.panes \in Nat /\ made.tabs \in Nat /\ made.windows \in Nat
  BY <1>0, <1>1, NextTypes DEF TypeOK, Counts, NextPane
<1>3. /\ p \notin mux.panes /\ \A u \in Tabs : p \notin mux.trees[u]
  BY NewIsNew
<1>4. RestTypeOK'
  BY <1>0, <1>1, <1>2 DEF RestTypeOK, TypeOK
<1>5. GivenOut(mux, made') /\ p \in 1..made'.panes
  BY <1>0, <1>2, MoreGivenOut DEF IInv, TypeOK
<1> HIDE DEF p, ok
<1>6. /\ added \in Muxes /\ added.panes = mux.panes \cup {p}
      /\ added.tabs = mux.tabs /\ added.trees = mux.trees
      /\ added.windows = mux.windows /\ added.held = mux.held
      /\ added.activity = mux.activity /\ added.prunes = mux.prunes
      /\ added.owed = mux.owed
  BY <1>0, <1>1 DEF Muxes
<1> HIDE DEF added, t
<1>7. /\ m \in Muxes
      /\ m.panes = added.panes /\ m.tabs = added.tabs
      /\ m.windows = added.windows /\ m.held = added.held
      /\ m.activity = added.activity /\ m.prunes = added.prunes
      /\ m.owed = added.owed
      /\ m.trees \in {added.trees, [added.trees EXCEPT ![t] = @ \cup {p}]}
  BY <1>1, <1>6 DEF Muxes
<1> HIDE DEF m
<1>8. GivenOut(m, made')
  BY <1>0, <1>5, <1>6, <1>7 DEF GivenOut, Muxes
<1>9. Homes(m)
  BY <1>0, <1>3, <1>6, <1>7 DEF IInv, Homes, Muxes
<1>10. mux.activity = 0 /\ mux.prunes = 0 /\ ~mux.owed => Clean(m)
  <2>1. mux.activity = 0 /\ mux.prunes = 0 /\ ~mux.owed => Clean(mux)
    BY DEF IInv, NoHusks, Clean
  <2>2. Clean(mux) => Clean(m)
    BY <1>0, <1>6, <1>7 DEF Clean, Muxes
  <2>3. QED
    BY <2>1, <2>2
<1>11. QED
  BY <1>1, <1>4, <1>6, <1>7, <1>8, <1>9, <1>10, FinishKeeps DEF Sound, m

\* A program that did not start leaves the mux alone.
LEMMA SpawnFailsKeeps ==
    ASSUME IInv, NEW c \in Clients, SpawnFails(c)
    PROVE  IInv'
PROOF
<1>1. RestTypeOK' /\ Sound(mux, made')
  BY DEF SpawnFails, IInv, TypeOK, RestTypeOK, Sound
<1>2. mux.activity = 0 /\ mux.prunes = 0 /\ ~mux.owed => Clean(mux)
  BY DEF IInv, NoHusks, Clean
<1>3. QED
  BY <1>1, <1>2, FinishKeeps DEF SpawnFails

\* Moving a pane to a new tab keeps the mux in order, and makes no husk.
LEMMA MovedSound ==
    ASSUME NEW m \in Muxes, Homes(m), NEW t \in m.tabs, NEW p \in m.trees[t],
           NEW w \in m.windows, NEW u \in Tabs \ m.tabs,
           \A x \in Windows : u \notin m.held[x],
           NEW n \in Counts, GivenOut(m, n), u \in 1..n.tabs, NEW free
    PROVE  /\ Sound(Left(m, p, t, u, w, free), n)
           /\ Left(m, p, t, u, w, free).activity = m.activity
           /\ Left(m, p, t, u, w, free).prunes = m.prunes
           /\ m.activity > 0 => Left(m, p, t, u, w, free).windows = m.windows
           /\ /\ m.activity = 0 /\ ~Left(m, p, t, u, w, free).owed
              /\ ~m.owed => Clean(m)
              => Clean(Left(m, p, t, u, w, free))
PROOF
<1> DEFINE moved == Moved(m, p, t, u, w)
           left == Left(m, p, t, u, w, free)
<1>0. t \in Tabs /\ p \in Panes /\ w \in Windows /\ t # u
  BY DEF Muxes
<1>1. IsMoved(m, moved, p, t, u, w)
  BY MoveWorks
<1> HIDE DEF moved
<1>2. Sound(moved, n)
  BY <1>0, <1>1 DEF Sound, GivenOut, Muxes, IsMoved
<1>3. CASE moved.trees[t] \subseteq exited
  <2>1. left = RemoveTab(moved, t, free)
    BY <1>3 DEF Left, moved
  <2>2. Pruned(moved, left)
    BY <1>0, <1>1, <2>1, RemoveTabWorks DEF IsMoved
  <2> HIDE DEF left
  <2>3. Sound(left, n)
    BY <1>2, <2>2, PrunedSound
  <2>4. QED
    BY <1>1, <2>2, <2>3 DEF Pruned, Shrunk, left, IsMoved
<1>4. CASE ~(moved.trees[t] \subseteq exited)
  <2>1. left = moved
    BY <1>4 DEF Left, moved
  <2>2. Clean(m) => Clean(moved)
    BY <1>0, <1>1, <1>4 DEF Clean, Muxes, Homes, IsMoved
  <2>3. QED
    BY <1>1, <1>2, <2>1, <2>2 DEF IsMoved
<1>5. QED
  BY <1>3, <1>4

\* What is given out when a pane is moved to a new tab of a window.
LEMMA MoveMade ==
    ASSUME IInv, NextTab \in Tabs, Asks([made EXCEPT !.tabs = NextTab])
    PROVE  /\ made' \in Counts /\ GivenOut(mux, made')
           /\ NextTab \in 1..made'.tabs
PROOF
<1>0. TypeOK
  BY DEF IInv
<1>1. /\ [made EXCEPT !.tabs = NextTab] \in Counts
      /\ [made EXCEPT !.tabs = NextTab].requests = made.requests
  BY <1>0, NextTypes DEF TypeOK, Counts
<1>2. /\ made' \in Counts
      /\ made'.panes = [made EXCEPT !.tabs = NextTab].panes
      /\ made'.tabs = [made EXCEPT !.tabs = NextTab].tabs
      /\ made'.windows = [made EXCEPT !.tabs = NextTab].windows
  BY <1>0, <1>1, AsksTypes
<1>3. /\ made'.panes = made.panes /\ made'.tabs = NextTab
      /\ made'.windows = made.windows
  BY <1>0, <1>2 DEF TypeOK, Counts
<1>4. /\ made.tabs \in Nat /\ made.windows \in Nat /\ made.panes \in Nat
      /\ NextTab = made.tabs + 1
  BY <1>0 DEF TypeOK, Counts, NextTab
<1>5. QED
  BY <1>0, <1>2, <1>3, <1>4, MoreGivenOut DEF IInv, TypeOK

\* What is given out when it is moved to a new window.
LEMMA MoveWindowMade ==
    ASSUME IInv, NextTab \in Tabs, NextWindow \in Windows,
           Asks([made EXCEPT !.tabs = NextTab, !.windows = NextWindow])
    PROVE  /\ made' \in Counts /\ GivenOut(mux, made')
           /\ NextTab \in 1..made'.tabs /\ NextWindow \in 1..made'.windows
PROOF
<1> DEFINE w == NextWindow
           next == [made EXCEPT !.tabs = NextTab, !.windows = w]
<1>0. TypeOK
  BY DEF IInv
<1>1. [made EXCEPT !.tabs = NextTab] \in Counts /\ w \in 0..MaxWindows
  BY <1>0, NextTypes, TopologyAssumption DEF Windows
<1>2. /\ made.tabs \in Nat /\ made.windows \in Nat /\ made.panes \in Nat
      /\ NextTab = made.tabs + 1 /\ w = made.windows + 1
  BY <1>0 DEF TypeOK, Counts, NextTab, NextWindow
<1> HIDE DEF w
<1>3. /\ next \in Counts /\ next.requests = made.requests
      /\ next.panes = made.panes /\ next.tabs = NextTab
      /\ next.windows = w
  BY <1>0, <1>1 DEF TypeOK, Counts
<1>4. Asks(next)
  BY DEF w
<1> HIDE DEF next
<1>5. /\ made' \in Counts /\ made'.panes = made.panes
      /\ made'.tabs = NextTab /\ made'.windows = w
  BY <1>0, <1>3, <1>4, AsksTypes
<1>6. QED
  BY <1>0, <1>2, <1>5, MoreGivenOut DEF IInv, TypeOK, w

\* A pane that leaves its tab leaves the mux in order, and no husk if the tab
\* has a live pane.
LEMMA TakenSound ==
    ASSUME NEW m, NEW n, Sound(m, n), NEW t \in m.tabs, NEW p, NEW k,
           k = [m EXCEPT !.trees[t] = @ \ {p}]
    PROVE  /\ Sound(k, n)
           /\ k.activity = m.activity /\ k.prunes = m.prunes
           /\ k.windows = m.windows /\ k.owed = m.owed
           /\ k.panes = m.panes /\ k.tabs = m.tabs /\ k.held = m.held
           /\ k.trees[t] = m.trees[t] \ {p}
           /\ \A u \in Tabs : k.trees[u] \subseteq m.trees[u]
           /\ ~(k.trees[t] \subseteq exited) /\ Clean(m) => Clean(k)
PROOF
<1>0. m \in Muxes /\ t \in Tabs
  BY DEF Sound, Muxes
<1>1. /\ k \in Muxes /\ k.trees = [m.trees EXCEPT ![t] = @ \ {p}]
      /\ k.activity = m.activity /\ k.prunes = m.prunes
      /\ k.windows = m.windows /\ k.owed = m.owed
      /\ k.panes = m.panes /\ k.tabs = m.tabs /\ k.held = m.held
  BY <1>0 DEF Muxes
<1>2. /\ k.trees[t] = m.trees[t] \ {p}
      /\ \A u \in Tabs : k.trees[u] \subseteq m.trees[u]
  BY <1>0, <1>1 DEF Muxes
<1>3. GivenOut(k, n)
  BY <1>1, <1>2 DEF Sound, GivenOut
<1>4. Homes(k)
  <2>1. Homes(m) /\ m.tabs \subseteq Tabs
    BY <1>0 DEF Sound, Muxes
  <2>2. \A u, x \in k.tabs : u # x => k.trees[u] \cap k.trees[x] = {}
    BY <1>1, <1>2, <2>1 DEF Homes
  <2>3. QED
    BY <1>1, <2>1, <2>2 DEF Homes
<1>5. ~(k.trees[t] \subseteq exited) /\ Clean(m) => Clean(k)
  BY <1>0, <1>1 DEF Clean, Muxes
<1>6. QED
  BY <1>1, <1>2, <1>3, <1>4, <1>5 DEF Sound

\* MovePaneToNewTab to a window that exists keeps the invariant.
LEMMA MoveToTabKeeps ==
    ASSUME IInv, NEW v \in mux.windows, NEW t \in mux.held[v],
           NEW p \in mux.trees[t], NEW w \in mux.windows, NEW free,
           MoveToTab(p, v, t, w, free)
    PROVE  IInv'
PROOF
<1>0. /\ TypeOK /\ mux \in Muxes /\ Homes(mux) /\ t \in mux.tabs
      /\ p \in Panes /\ Asks([made EXCEPT !.tabs = NextTab])
  BY DEF IInv, TypeOK, Muxes, MoveToTab, IsAt
<1>1. /\ NextTab \notin mux.tabs
      /\ \A x \in Windows : NextTab \notin mux.held[x]
  BY NewIsNew
<1>2. mux.activity = 0 /\ mux.prunes = 0 /\ ~mux.owed => Clean(mux)
  BY DEF IInv, NoHusks, Clean
<1>3. NextTab \in Tabs /\ UNCHANGED <<exited, task, identity>>
  BY DEF MoveToTab, Move, MovePane, ResizeFails
<1>4. /\ made' \in Counts /\ GivenOut(mux, made')
      /\ NextTab \in 1..made'.tabs
  BY <1>0, <1>3, MoveMade
<1>5. CASE MovePane(mux, p, t, w, free)
  <2>1. /\ mux' = Left(mux, p, t, NextTab, w, free)
        /\ reader' \in {reader, [reader EXCEPT ![p] = "open"]}
    BY <1>5 DEF MovePane, Left, Moved
  <2>2. /\ Sound(mux', made')
        /\ mux'.activity = mux.activity /\ mux'.prunes = mux.prunes
        /\ mux.activity > 0 => mux'.windows = mux.windows
        /\ /\ mux.activity = 0 /\ ~mux'.owed
           /\ ~mux.owed => Clean(mux)
           => Clean(mux')
    BY <1>0, <1>1, <1>3, <1>4, <2>1, MovedSound
  <2>3. RestTypeOK'
    BY <1>0, <1>3, <1>4, <2>1 DEF RestTypeOK, TypeOK
  <2>4. QED
    BY <1>2, <1>3, <2>2, <2>3, ThroughKeeps
<1>6. CASE ResizeFails(mux, p, t, w)
  <2> DEFINE taken == [mux EXCEPT !.trees[t] = @ \ {p}]
             owed == taken.owed \/ taken.trees[t] \subseteq exited
  <2>1. mux' = [taken EXCEPT !.owed = @ \/ taken.trees[t] \subseteq exited]
        /\ reader' = reader
    BY <1>6 DEF ResizeFails
  <2>2. Sound(mux, made')
    BY <1>0, <1>4 DEF Sound
  <2>3. /\ Sound(taken, made')
        /\ taken.activity = mux.activity /\ taken.prunes = mux.prunes
        /\ taken.windows = mux.windows /\ taken.owed = mux.owed
        /\ ~(taken.trees[t] \subseteq exited) /\ Clean(mux) => Clean(taken)
    BY <1>0, <2>2, TakenSound
  <2> HIDE DEF taken
  <2>4. mux' = [taken EXCEPT !.owed = owed] /\ owed \in BOOLEAN
    BY <2>1, <2>3 DEF Sound, Muxes
  <2>5. /\ owed = FALSE => ~taken.owed
        /\ owed = FALSE => ~(taken.trees[t] \subseteq exited)
    OBVIOUS
  <2> HIDE DEF owed
  <2>6. mux' \in Muxes
    BY <2>3, <2>4, SetField DEF Sound
  <2>7. /\ mux'.panes = taken.panes /\ mux'.tabs = taken.tabs
        /\ mux'.trees = taken.trees /\ mux'.windows = taken.windows
        /\ mux'.held = taken.held /\ mux'.activity = taken.activity
        /\ mux'.prunes = taken.prunes /\ mux'.owed = owed
    BY <2>3, <2>4 DEF Sound, Muxes
  <2>8. Sound(mux', made')
    BY <2>3, <2>4, <2>5, <2>6, <2>7 DEF Sound, GivenOut, Homes
  <2>9. ~mux'.owed /\ Clean(mux) => Clean(mux')
    BY <2>3, <2>4, <2>5, <2>7 DEF Clean
  <2>10. RestTypeOK'
    BY <1>0, <1>3, <1>4, <2>1 DEF RestTypeOK, TypeOK
  <2>11. mux'.activity = 0 /\ mux'.prunes = 0 /\ ~mux'.owed => Clean(mux')
    BY <1>2, <2>3, <2>4, <2>5, <2>7, <2>9
  <2>12. QED
    BY <1>3, <2>3, <2>7, <2>8, <2>10, <2>11, ThroughKeeps
<1>7. QED
  BY <1>5, <1>6 DEF MoveToTab, Move

\* A step that drops the builder of a window that was opened in it keeps the
\* invariant.
LEMMA DroppedKeeps ==
    ASSUME IInv, NEW left, Sound(left, made'), mux' = DropBuilder(left),
           left.activity = mux.activity + 1,
           mux.windows \subseteq left.windows,
           RestTypeOK', UNCHANGED <<task, identity>>
    PROVE  IInv'
PROOF
<1>0. mux.activity \in Nat /\ left \in Muxes
  BY DEF IInv, TypeOK, Muxes, Sound
<1>1. left.activity # 0
  BY <1>0
<1>2. /\ mux' \in Muxes /\ mux'.activity = left.activity - 1
      /\ mux'.prunes # 0
      /\ mux'.panes = left.panes /\ mux'.tabs = left.tabs
      /\ mux'.windows = left.windows /\ mux'.owed = left.owed
      /\ mux'.trees = left.trees /\ mux'.held = left.held
  BY <1>0, <1>1, DropBuilderFields
<1>3. mux'.activity = mux.activity
  BY <1>0, <1>2
<1>4. Sound(mux', made')
  BY <1>2 DEF Sound, GivenOut, Homes
<1>5. QED
  BY <1>2, <1>3, <1>4, ThroughKeeps

\* MovePaneToNewTab to a new window keeps the invariant.
LEMMA MoveToWindowKeeps ==
    ASSUME IInv, NEW v \in mux.windows, NEW t \in mux.held[v],
           NEW p \in mux.trees[t], NEW free, MoveToWindow(p, v, t, free)
    PROVE  IInv'
PROOF
<1> DEFINE w == NextWindow
           m == NewWindow(mux, w)
<1>0. /\ TypeOK /\ mux \in Muxes /\ Homes(mux) /\ t \in mux.tabs
      /\ p \in Panes /\ w \in Windows
      /\ Asks([made EXCEPT !.tabs = NextTab, !.windows = NextWindow])
  BY DEF IInv, TypeOK, Muxes, MoveToWindow, IsAt
<1>1. /\ NextTab \notin mux.tabs /\ w \notin mux.windows
      /\ \A x \in Windows : NextTab \notin mux.held[x]
  BY NewIsNew
<1>2. NextTab \in Tabs /\ UNCHANGED <<exited, task, identity>>
  BY DEF MoveToWindow, Move, MovePane, ResizeFails
<1>3. /\ made' \in Counts /\ GivenOut(mux, made')
      /\ NextTab \in 1..made'.tabs /\ w \in 1..made'.windows
  BY <1>0, <1>2, MoveWindowMade
<1>4. /\ m \in Muxes /\ m.activity = mux.activity + 1 /\ m.activity > 0
      /\ m.windows = mux.windows \cup {w} /\ m.panes = mux.panes
      /\ m.tabs = mux.tabs /\ m.trees = mux.trees /\ m.held = mux.held
      /\ m.prunes = mux.prunes /\ m.owed = mux.owed
  BY <1>0, NewWindowFields DEF Muxes
<1>5. Move(m, p, t, w, free)
  BY DEF MoveToWindow
<1> HIDE DEF m, w
<1>6. GivenOut(m, made') /\ Homes(m) /\ Sound(m, made')
  BY <1>0, <1>3, <1>4 DEF GivenOut, Homes, Sound
<1>7. CASE MovePane(m, p, t, w, free)
  <2> DEFINE left == Left(m, p, t, NextTab, w, free)
  <2>1. /\ mux' = DropBuilder(left)
        /\ reader' \in {reader, [reader EXCEPT ![p] = "open"]}
    BY <1>1, <1>7 DEF MovePane, Left, Moved
  <2>2. /\ Sound(left, made') /\ left.activity = m.activity
        /\ left.windows = m.windows
    <3>1. /\ t \in m.tabs /\ p \in m.trees[t] /\ w \in m.windows
          /\ NextTab \in Tabs \ m.tabs
          /\ \A x \in Windows : NextTab \notin m.held[x]
      BY <1>0, <1>1, <1>2, <1>4
    <3>2. QED
      BY <1>3, <1>4, <1>6, <3>1, MovedSound
  <2> HIDE DEF left
  <2>3. RestTypeOK'
    BY <1>0, <1>2, <1>3, <2>1 DEF RestTypeOK, TypeOK
  <2>4. QED
    BY <1>2, <1>4, <2>1, <2>2, <2>3, DroppedKeeps
<1>8. CASE ResizeFails(m, p, t, w)
  <2> DEFINE taken == [m EXCEPT !.trees[t] = @ \ {p}]
  <2>1. mux' = DropBuilder(taken) /\ reader' = reader
    BY <1>1, <1>8 DEF ResizeFails
  <2>2. /\ Sound(taken, made') /\ taken.activity = m.activity
        /\ taken.windows = m.windows
    BY <1>0, <1>4, <1>6, TakenSound
  <2> HIDE DEF taken
  <2>3. RestTypeOK'
    BY <1>0, <1>2, <1>3, <2>1 DEF RestTypeOK, TypeOK
  <2>4. QED
    BY <1>2, <1>4, <2>1, <2>2, <2>3, DroppedKeeps
<1>9. QED
  BY <1>5, <1>7, <1>8 DEF Move

\* remove_tab leaves a pane that is in no tab.
LEMMA RemoveTabSpares ==
    ASSUME NEW m \in Muxes, NEW t \in m.tabs, NEW q \in m.panes,
           \A u \in m.tabs : q \notin m.trees[u], NEW free
    PROVE  q \in RemoveTab(m, t, free).panes
PROOF
<1> DEFINE k == Untabbed(m, t, free)
<1>0. t \in Tabs
  BY DEF Muxes
<1>1. /\ k \in Muxes /\ k.tabs = m.tabs \ {t} /\ k.trees = m.trees
      /\ k.panes = m.panes \ m.trees[t]
  BY <1>0, UntabbedWorks DEF Shrunk
<1>2. RemoveTab(m, t, free) = Prune(k, free)
  BY DEF RemoveTab, Untabbed
<1> HIDE DEF k
<1>3. q \in k.panes
  BY <1>1
<1>4. \A u \in k.tabs : q \notin PruneAll(k).trees[u]
  BY <1>1, PruneAllWorks DEF Shrunk, Muxes
<1>5. q \in PruneAll(k).panes
  BY <1>1, <1>3, <1>4, PruneAllFields
<1>6. [k EXCEPT !.owed = PruneAll(k) # k].panes = k.panes
  BY <1>1 DEF Muxes
<1>7. QED
  BY <1>2, <1>3, <1>5, <1>6 DEF Prune

\* SplitPane that moves a pane keeps the invariant.
LEMMA SplitMoveKeeps ==
    ASSUME IInv, NEW w \in mux.windows, NEW t \in mux.held[w],
           NEW p \in mux.trees[t], NEW v \in mux.windows,
           NEW s \in mux.held[v], NEW q \in mux.trees[s],
           NEW fits \in BOOLEAN, NEW free,
           SplitMove(p, w, t, q, v, s, fits, free)
    PROVE  IInv'
PROOF
<1> DEFINE less == [mux EXCEPT !.trees[s] = @ \ {q}]
           taken == TakeFrom(mux, s, q, free)
<1>0. /\ TypeOK /\ mux \in Muxes /\ Homes(mux) /\ GivenOut(mux, made)
      /\ t \in mux.tabs /\ s \in mux.tabs /\ t \in Tabs /\ s \in Tabs
      /\ q \in Panes
  BY DEF IInv, TypeOK, Muxes, SplitMove, IsAt
<1>1. /\ \/ mux' = taken
         \/ mux' = [taken EXCEPT !.trees[t] = @ \cup {q},
                                 !.owed = @ \/ mux.owed]
      /\ UNCHANGED <<exited, reader, task, identity>> /\ Asks(made)
  BY DEF SplitMove
<1>2. /\ made' \in Counts /\ made'.panes = made.panes
      /\ made'.tabs = made.tabs /\ made'.windows = made.windows
  BY <1>0, <1>1, AsksTypes DEF TypeOK
<1>3. /\ less \in Muxes /\ Shrunk(mux, less)
      /\ less.windows = mux.windows /\ less.held = mux.held
      /\ less.panes = mux.panes /\ less.tabs = mux.tabs
      /\ less.trees = [mux.trees EXCEPT ![s] = @ \ {q}]
      /\ less.owed = mux.owed
  BY <1>0 DEF Muxes, Shrunk
<1>4. taken = IF less.trees[s] \subseteq exited THEN RemoveTab(less, s, free)
              ELSE less
  BY DEF TakeFrom
<1>5. Sound(mux, made')
  BY <1>0, <1>2 DEF Sound, GivenOut
<1>6. /\ Sound(less, made') /\ less.activity = mux.activity
      /\ less.prunes = mux.prunes
      /\ ~(less.trees[s] \subseteq exited) /\ Clean(mux) => Clean(less)
  BY <1>0, <1>5, TakenSound
<1> HIDE DEF less, taken
<1>7. \A u \in less.tabs : q \notin less.trees[u]
  BY <1>0, <1>3 DEF Homes, Muxes
<1>8. mux.activity = 0 /\ mux.prunes = 0 /\ ~mux.owed
         => Clean(mux) /\ q \in less.panes
  BY <1>3 DEF IInv, NoHusks, Clean
<1>9. /\ Sound(taken, made') /\ taken.activity = mux.activity
      /\ taken.prunes = mux.prunes
      /\ mux.activity > 0 => taken.windows = mux.windows
      /\ \A u \in taken.tabs : q \notin taken.trees[u]
      /\ q \in less.panes => q \in taken.panes
      /\ mux.activity = 0 /\ mux.prunes = 0 /\ ~taken.owed => Clean(taken)
  <2>1. CASE less.trees[s] \subseteq exited
    <3>1. taken = RemoveTab(less, s, free) /\ Pruned(less, taken)
      BY <1>0, <1>3, <1>4, <2>1, RemoveTabWorks
    <3>2. Sound(taken, made')
      BY <1>6, <3>1, PrunedSound
    <3>3. q \in less.panes => q \in taken.panes
      BY <1>0, <1>3, <1>7, <3>1, RemoveTabSpares
    <3>4. \A u \in taken.tabs : q \notin taken.trees[u]
      BY <1>7, <3>1 DEF Pruned, Shrunk, Muxes
    <3>5. QED
      BY <1>3, <1>6, <3>1, <3>2, <3>3, <3>4 DEF Pruned, Shrunk
  <2>2. CASE ~(less.trees[s] \subseteq exited)
    <3>1. taken = less
      BY <1>4, <2>2
    <3>2. QED
      BY <1>3, <1>6, <1>7, <1>8, <2>2, <3>1
  <2>3. QED
    BY <2>1, <2>2
<1>10. RestTypeOK'
  BY <1>0, <1>1, <1>2 DEF RestTypeOK, TypeOK
<1>11. CASE mux' = taken
  BY <1>1, <1>9, <1>10, <1>11, ThroughKeeps
<1>12. CASE mux' = [taken EXCEPT !.trees[t] = @ \cup {q},
                                 !.owed = @ \/ mux.owed]
  <2> DEFINE trees == [taken.trees EXCEPT ![t] = @ \cup {q}]
             owed == taken.owed \/ mux.owed
  <2>1. taken \in Muxes
    BY <1>9 DEF Sound
  <2>2. trees \in [Tabs -> SUBSET Panes] /\ owed \in BOOLEAN
    BY <1>0, <2>1 DEF Muxes
  <2>3. mux' = [taken EXCEPT !.trees = trees, !.owed = owed]
    BY <1>12, <2>1 DEF Muxes
  <2>4. /\ owed = FALSE => ~taken.owed /\ ~mux.owed
        /\ ~owed => owed = FALSE
        /\ taken.owed => owed
    BY <2>2
  <2>5. \A u \in Tabs :
           trees[u] = IF u = t THEN taken.trees[u] \cup {q} ELSE taken.trees[u]
    BY <1>0, <2>1 DEF Muxes
  <2> HIDE DEF trees, owed
  <2>6. mux' \in Muxes
    BY <2>1, <2>2, <2>3, SetField
  <2>7. /\ mux'.trees = trees /\ mux'.owed = owed
        /\ mux'.panes = taken.panes /\ mux'.tabs = taken.tabs
        /\ mux'.windows = taken.windows /\ mux'.held = taken.held
        /\ mux'.activity = taken.activity /\ mux'.prunes = taken.prunes
    BY <2>1, <2>3 DEF Muxes
  <2>8. Homes(mux')
    <3>1. Homes(taken) /\ taken.tabs \subseteq Tabs
      BY <1>9, <2>1 DEF Sound, Muxes
    <3>2. \A u, x \in mux'.tabs :
             u # x => mux'.trees[u] \cap mux'.trees[x] = {}
      <4> SUFFICES ASSUME NEW u \in taken.tabs, NEW x \in taken.tabs, u # x
                   PROVE  trees[u] \cap trees[x] = {}
        BY <2>7
      <4>1. /\ taken.trees[u] \cap taken.trees[x] = {}
            /\ q \notin taken.trees[u] /\ q \notin taken.trees[x]
        BY <1>9, <3>1 DEF Homes
      <4>2. /\ trees[u] = IF u = t THEN taken.trees[u] \cup {q}
                         ELSE taken.trees[u]
            /\ trees[x] = IF x = t THEN taken.trees[x] \cup {q}
                         ELSE taken.trees[x]
        BY <2>5, <3>1
      <4>3. QED
        BY <4>1, <4>2
    <3>3. QED
      BY <2>4, <2>7, <3>1, <3>2 DEF Homes
  <2>9. q \in 1..made'.panes
    BY <1>0, <1>2 DEF GivenOut
  <2>10. GivenOut(mux', made')
    BY <1>9, <2>5, <2>7, <2>9 DEF Sound, GivenOut
  <2>11. mux'.activity = 0 /\ mux'.prunes = 0 /\ ~mux'.owed => Clean(mux')
    <3> SUFFICES ASSUME mux'.activity = 0, mux'.prunes = 0, ~mux'.owed
                 PROVE  Clean(mux')
      OBVIOUS
    <3>1. ~taken.owed /\ ~mux.owed
      BY <2>4, <2>7
    <3>2. Clean(taken) /\ q \in taken.panes
      BY <1>8, <1>9, <2>7, <3>1
    <3>3. \A x \in taken.windows : taken.held[x] \subseteq Tabs
      BY <2>1 DEF Muxes
    <3>4. QED
      BY <2>5, <2>7, <3>2, <3>3 DEF Clean
  <2>12. Sound(mux', made')
    BY <2>6, <2>8, <2>10 DEF Sound
  <2>13. QED
    BY <1>1, <1>9, <1>10, <2>7, <2>11, <2>12, ThroughKeeps
<1>13. QED
  BY <1>1, <1>11, <1>12

\* Removing a pane and pruning keep the invariant.
LEMMA PruneKeeps ==
    ASSUME IInv, NEW m, Sound(m, made'), Pruned(m, mux'),
           m.activity = mux.activity, m.windows = mux.windows,
           RestTypeOK', UNCHANGED <<task, identity>>
    PROVE  IInv'
PROOF
<1>1. Sound(mux', made')
  BY PrunedSound
<1>2. /\ mux'.activity = mux.activity
      /\ mux.activity > 0 => mux.windows \subseteq mux'.windows
      /\ mux'.activity = 0 /\ mux'.prunes = 0 /\ ~mux'.owed => Clean(mux')
  BY DEF Pruned, Shrunk
<1>3. QED
  BY <1>1, <1>2, ThroughKeeps

\* Kills, exits and the tasks they queue keep the invariant.
LEMMA ExitKeeps ==
    ASSUME IInv,
           \/ \E p \in Panes : ChildReaped(p) \/ PtyEnds(p)
           \/ \E p \in Panes, free \in SUBSET {"prune"} :
                 KillPane(p, free) \/ RunEnd(p, free) \/ RunRemoval(p, free)
           \/ \E free \in SUBSET {"prune"} : RunPrune(free)
    PROVE  IInv'
PROOF
<1>0. /\ TypeOK /\ mux \in Muxes /\ Homes(mux) /\ GivenOut(mux, made)
      /\ Sound(mux, made)
  BY DEF IInv, TypeOK, Sound
<1>1. ASSUME NEW p \in Panes, NEW free, KillPane(p, free)
      PROVE  IInv'
  <2>1. /\ mux' = RemovePane(mux, p, free) /\ Asks(made)
        /\ UNCHANGED <<exited, reader, task, identity>>
    BY <1>1 DEF KillPane
  <2>2. /\ made' \in Counts /\ made'.panes = made.panes
        /\ made'.tabs = made.tabs /\ made'.windows = made.windows
    BY <1>0, <2>1, AsksTypes DEF TypeOK
  <2>3. RestTypeOK' /\ Sound(mux, made')
    BY <1>0, <2>1, <2>2 DEF RestTypeOK, TypeOK, Sound, GivenOut
  <2>4. QED
    BY <1>0, <2>1, <2>3, RemovePaneWorks, PruneKeeps
<1>2. ASSUME NEW p \in Panes, ChildReaped(p)
      PROVE  IInv'
  <2>1. /\ mux' = [mux EXCEPT !.prunes = @ + 1]
        /\ exited' = exited \cup {p}
        /\ UNCHANGED <<made, reader, task, identity>>
    BY <1>2 DEF ChildReaped
  <2>2. mux.prunes + 1 \in Nat /\ mux.prunes + 1 # 0
    BY <1>0 DEF Muxes
  <2>3. mux' = [mux EXCEPT !.prunes = mux.prunes + 1]
    BY <1>0, <2>1 DEF Muxes
  <2>4. mux' \in Muxes
    BY <1>0, <2>2, <2>3, SetField
  <2>5. /\ mux'.prunes = mux.prunes + 1
        /\ mux'.panes = mux.panes /\ mux'.tabs = mux.tabs
        /\ mux'.trees = mux.trees /\ mux'.windows = mux.windows
        /\ mux'.held = mux.held /\ mux'.activity = mux.activity
        /\ mux'.owed = mux.owed
    BY <1>0, <2>3 DEF Muxes
  <2>6. Sound(mux', made') /\ RestTypeOK'
    BY <1>0, <2>1, <2>4, <2>5 DEF Sound, GivenOut, Homes, RestTypeOK, TypeOK
  <2>7. QED
    BY <2>1, <2>2, <2>5, <2>6, ThroughKeeps
<1>3. ASSUME NEW p \in Panes, PtyEnds(p)
      PROVE  IInv'
  <2>1. /\ reader' = [reader EXCEPT ![p] = "ended"]
        /\ UNCHANGED <<mux, made, exited, task, identity>>
    BY <1>3 DEF PtyEnds
  <2>2. Sound(mux', made') /\ RestTypeOK'
    BY <1>0, <2>1 DEF RestTypeOK, TypeOK
  <2>3. mux.activity = 0 /\ mux.prunes = 0 /\ ~mux.owed => Clean(mux)
    BY DEF IInv, NoHusks, Clean
  <2>4. QED
    BY <2>1, <2>2, <2>3, ThroughKeeps
<1>4. ASSUME NEW p \in Panes, NEW free, RunEnd(p, free)
      PROVE  IInv'
  <2>1. /\ reader' = [reader EXCEPT ![p] = "done"]
        /\ mux' = RemovePane(mux, p, free)
        /\ UNCHANGED <<made, exited, task, identity>>
    BY <1>4 DEF RunEnd
  <2>2. Sound(mux, made') /\ RestTypeOK'
    BY <1>0, <2>1 DEF RestTypeOK, TypeOK
  <2>3. QED
    BY <1>0, <2>1, <2>2, RemovePaneWorks, PruneKeeps
<1>5. ASSUME NEW p \in Panes, NEW free, RunRemoval(p, free)
      PROVE  IInv'
  <2> DEFINE m == [mux EXCEPT !.removals = @ \ {p}]
  <2>1. /\ mux' = RemovePane(m, p, free)
        /\ UNCHANGED <<made, exited, reader, task, identity>>
    BY <1>5 DEF RunRemoval
  <2>2. /\ m \in Muxes /\ m.panes = mux.panes /\ m.tabs = mux.tabs
        /\ m.trees = mux.trees /\ m.windows = mux.windows
        /\ m.held = mux.held /\ m.activity = mux.activity
        /\ m.owed = mux.owed
    BY <1>0 DEF Muxes
  <2> HIDE DEF m
  <2>3. Sound(m, made') /\ RestTypeOK'
    BY <1>0, <2>1, <2>2 DEF Sound, GivenOut, Homes, RestTypeOK, TypeOK
  <2>4. QED
    BY <2>1, <2>2, <2>3, RemovePaneWorks, PruneKeeps
<1>6. ASSUME NEW free, RunPrune(free)
      PROVE  IInv'
  <2> DEFINE m == [mux EXCEPT !.prunes = @ - 1]
  <2>1. /\ mux' = Prune(m, free) /\ mux.prunes > 0
        /\ UNCHANGED <<made, exited, reader, task, identity>>
    BY <1>6 DEF RunPrune
  <2>2. mux.prunes - 1 \in Nat
    BY <1>0, <2>1 DEF Muxes
  <2>3. m = [mux EXCEPT !.prunes = mux.prunes - 1]
    BY <1>0 DEF Muxes
  <2> HIDE DEF m
  <2>4. m \in Muxes
    BY <1>0, <2>2, <2>3, SetField
  <2>5. /\ m.panes = mux.panes /\ m.tabs = mux.tabs
        /\ m.trees = mux.trees /\ m.windows = mux.windows
        /\ m.held = mux.held /\ m.activity = mux.activity
        /\ m.owed = mux.owed
    BY <1>0, <2>3 DEF Muxes
  <2>6. Sound(m, made') /\ RestTypeOK'
    BY <1>0, <2>1, <2>4, <2>5
    DEF Sound, GivenOut, Homes, RestTypeOK, TypeOK
  <2>7. QED
    BY <2>1, <2>4, <2>5, <2>6, PruneWorks, PruneKeeps
<1>7. QED
  BY <1>1, <1>2, <1>3, <1>4, <1>5, <1>6

\* The server that starts satisfies the invariant.
LEMMA InitKeeps == Init => IInv
PROOF
<1> SUFFICES ASSUME Init PROVE IInv
  OBVIOUS
<1> DEFINE trees == [t \in Tabs |-> IF t = 1 THEN 1..FirstPanes ELSE {}]
           held == [w \in Windows |-> IF w = 1 THEN {1} ELSE {}]
<1>0. /\ 1 \in Tabs /\ 1 \in Windows /\ FirstPanes \in Nat \ {0}
      /\ 1..FirstPanes \subseteq Panes /\ FirstPanes \in 0..MaxPanes
      /\ 1 \in 0..MaxTabs /\ 1 \in 0..MaxWindows /\ 0 \in 0..MaxRequests
      /\ 1 \in 1..FirstPanes
  BY TopologyAssumption DEF Tabs, Windows, Panes
<1>1. /\ mux.panes = 1..FirstPanes /\ mux.tabs = {1} /\ mux.trees = trees
      /\ mux.windows = {1} /\ mux.held = held
      /\ mux.activity = 0 /\ mux.prunes = 0 /\ mux.owed = FALSE
  BY DEF Init
<1>2. /\ made.panes = FirstPanes /\ made.tabs = 1 /\ made.windows = 1
  BY DEF Init
<1>3. TypeOK
  <2>1. trees \in [Tabs -> SUBSET Panes] /\ held \in [Windows -> SUBSET Tabs]
    BY <1>0
  <2>2. mux \in Muxes
    <3> HIDE DEF trees, held
    <3>1. mux = [panes |-> 1..FirstPanes, tabs |-> {1}, trees |-> trees,
                 windows |-> {1}, held |-> held,
                 activity |-> 0, prunes |-> 0, removals |-> {},
                 owed |-> FALSE]
      BY DEF Init, trees, held
    <3>2. QED
      BY <1>0, <2>1, <3>1 DEF Muxes
  <2>3. made \in Counts
    BY <1>0 DEF Init, Counts
  <2>4. task \in [Clients -> Tasks] /\ identity \in Clients \cup {None}
    BY DEF Init, Idle, Tasks
  <2>5. /\ exited \subseteq Panes
        /\ reader \in [Panes -> {"none", "open", "ended", "done"}]
    BY DEF Init
  <2>6. QED
    BY <2>2, <2>3, <2>4, <2>5 DEF TypeOK
<1>4. GivenOut(mux, made)
  BY <1>0, <1>1, <1>2 DEF GivenOut
<1>5. Homes(mux)
  BY <1>0, <1>1 DEF Homes
<1>6. Opening = {}
  BY DEF Init, Opening, Idle
<1>7. mux.activity = Cardinality(Opening)
  BY <1>1, <1>6, FS_EmptySet
<1>8. NewWindowKept
  BY <1>6 DEF NewWindowKept, Opening
<1>9. NoHusks
  <2>1. held[1] = {1} /\ trees[1] = 1..FirstPanes
    BY <1>0
  <2> HIDE DEF held, trees
  <2>2. QED
    BY <1>0, <1>1, <2>1 DEF NoHusks
<1>10. QED
  BY <1>3, <1>4, <1>5, <1>7, <1>8, <1>9 DEF IInv

\* Every step keeps it.
LEMMA NextKeeps == IInv /\ [Next]_vars => IInv'
PROOF
<1> SUFFICES ASSUME IInv, [Next]_vars PROVE IInv'
  OBVIOUS
<1>1. CASE UNCHANGED vars
  <2>1. UNCHANGED <<mux, made, exited, reader, task, identity>>
    BY <1>1 DEF vars
  <2>2. TypeOK'
    BY <2>1 DEF IInv, TypeOK
  <2>3. Opening' = Opening
    BY <2>1 DEF Opening
  <2>4. GivenOut(mux', made') /\ Homes(mux') /\ NewWindowKept' /\ NoHusks'
    BY <2>1 DEF IInv, NewWindowKept, NoHusks
  <2>5. QED
    BY <2>1, <2>2, <2>3, <2>4 DEF IInv
<1>2. ASSUME NEW c \in Clients, SpawnWindow(c) \/ Resume(c)
      PROVE  IInv'
  BY <1>2, StartKeeps, SpawnDoneKeeps, SplitDoneKeeps, SpawnFailsKeeps
  DEF Resume
<1>3. ASSUME NEW w \in mux.windows, NEW t \in mux.held[w],
             NEW p \in mux.trees[t], NEW c \in Clients,
             SpawnTab(c, p, w, t) \/ SplitPane(c, p, w, t)
      PROVE  IInv'
  <2>1. w \in Windows /\ t \in Tabs /\ p \in Panes
    BY DEF IInv, TypeOK, Muxes
  <2>2. QED
    BY <1>3, <2>1, StartKeeps
<1>4. ASSUME NEW w \in mux.windows, NEW t \in mux.held[w],
             NEW p \in mux.trees[t], NEW free \in SUBSET Tries,
             \/ \E v \in mux.windows : MoveToTab(p, w, t, v, free)
             \/ MoveToWindow(p, w, t, free)
             \/ \E v \in mux.windows : \E s \in mux.held[v] :
                   \E q \in mux.trees[s], fits \in BOOLEAN :
                      SplitMove(p, w, t, q, v, s, fits, free)
      PROVE  IInv'
  BY <1>4, MoveToTabKeeps, MoveToWindowKeeps, SplitMoveKeeps
<1>5. CASE \/ \E p \in Panes : ChildReaped(p) \/ PtyEnds(p)
           \/ \E p \in Panes, free \in SUBSET {"prune"} : KillPane(p, free)
           \/ RunQueued
  BY <1>5, ExitKeeps DEF RunQueued
<1>6. QED
  BY <1>1, <1>2, <1>3, <1>4, <1>5 DEF Next

\* The invariant holds in every state that is reached.
LEMMA AlwaysIInv == Spec => []IInv
PROOF
<1>1. QED
  BY InitKeeps, NextKeeps, PTL DEF Spec

-----------------------------------------------------------------------------

\* What the mux holds stays well formed, and its counters do not go below
\* zero, whatever requests, exits and queued tasks follow each other.
THEOREM TopologyTypes == Spec => []TypeOK
PROOF
<1>1. IInv => TypeOK
  BY DEF IInv
<1>2. QED
  BY <1>1, AlwaysIInv, PTL

\* A pane is in one tab and a tab in one window, for any number of clients,
\* panes, tabs and windows; the mux knows the tabs of every window, unless a
\* removal or a pruning was left out because the windows were being read.
THEOREM PanesHaveOneHome == Spec => []OneHome
PROOF
<1>1. IInv => OneHome
  BY DEF IInv, TypeOK, Muxes, Homes, OneHome, Shown
<1>2. QED
  BY <1>1, AlwaysIInv, PTL

\* A window that is being opened is not pruned before its program started:
\* every request that opens one counts as an Activity until it returns.
THEOREM OpenedWindowIsKept == Spec => []NewWindowKept
PROOF
<1>1. IInv => NewWindowKept
  BY DEF IInv
<1>2. QED
  BY <1>1, AlwaysIInv, PTL

\* When nothing is being opened and no pruning is queued or was left out, no
\* window is empty, no tab of a window is, and the mux knows every pane they
\* have.
THEOREM NoHusksRemain == Spec => []NoHusks
PROOF
<1>1. IInv => NoHusks
  BY DEF IInv
<1>2. QED
  BY <1>1, AlwaysIInv, PTL

=============================================================================
