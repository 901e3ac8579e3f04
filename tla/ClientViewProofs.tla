-------------------------- MODULE ClientViewProofs --------------------------
(***************************************************************************)
(* Theorems about ClientView: the types, that the user's choice of a tab   *)
(* stays and arrives, and that no tab is missed.                           *)
(***************************************************************************)
EXTENDS ClientView, FiniteSetTheorems, SequenceTheorems, NaturalsInduction,
        TLAPS

-----------------------------------------------------------------------------
(* Sequences.                                                              *)

\* Every set of naturals that has 0 and the successor of each of its members
\* has all of them.
LEMMA EveryNatural ==
    ASSUME NEW G, 0 \in G, \A n \in Nat : n \in G => n + 1 \in G
    PROVE  Nat \subseteq G
PROOF
<1> DEFINE T == Nat \ G
           R == OpToRel(<, Nat)
<1>1. SUFFICES ASSUME T # {} PROVE FALSE
  OBVIOUS
<1>2. IsWellFoundedOn(R, Nat)
  BY NatLessThanWellFounded, Zenon
<1>3. \A x, y \in Nat : x < y => <<x, y>> \in R
  BY DEF OpToRel
<1> HIDE DEF R
<1>4. \E x \in T : \A y \in T : ~ (<<y, x>> \in R)
  BY <1>1, <1>2, WFMin
<1>5. PICK x \in T : \A y \in T : ~ (<<y, x>> \in R)
  BY <1>4
<1>6. x # 0 /\ x - 1 \in Nat /\ x - 1 < x /\ x = (x - 1) + 1
  OBVIOUS
<1>7. x - 1 \in T
  BY <1>6
<1>8. QED
  BY <1>3, <1>5, <1>6, <1>7

\* The smallest of a set of naturals is one of them.
LEMMA MinIsMember ==
    ASSUME NEW I \in SUBSET Nat, I # {}
    PROVE  Min(I) \in I
PROOF
<1> DEFINE R == OpToRel(<, Nat)
<1>1. IsWellFoundedOn(R, Nat)
  BY NatLessThanWellFounded, Zenon
<1>2. \A x, y \in Nat : x < y => <<x, y>> \in R
  BY DEF OpToRel
<1> HIDE DEF R
<1>3. PICK x \in I : \A y \in I : ~ (<<y, x>> \in R)
  BY <1>1, WFMin
<1>4. \A y \in I : x <= y
  <2> SUFFICES ASSUME NEW y \in I PROVE x <= y
    OBVIOUS
  <2>1. x \in Nat /\ y \in Nat /\ ~(y < x)
    BY <1>2, <1>3
  <2>2. QED
    BY <2>1
<1>5. QED
  BY <1>4 DEF Min

\* kept[i] is what Only keeps of the first i elements of s, for i up to N.
IsKept(kept, s, S, N) ==
    kept = [i \in 0..N |->
               IF i = 0 THEN <<>>
               ELSE IF s[i] \in S THEN Append(kept[i - 1], s[i])
               ELSE kept[i - 1]]

\* There is such a function for every length.
LEMMA KeptExists ==
    ASSUME NEW s, NEW S, NEW N \in Nat
    PROVE  \E kept : IsKept(kept, s, S, N)
PROOF
<1> DEFINE G == {n \in Nat : \E kept : IsKept(kept, s, S, n)}
           Step(k, i) == IF s[i] \in S THEN Append(k, s[i]) ELSE k
<1>1. 0 \in G
  <2>1. IsKept([i \in 0..0 |-> <<>>], s, S, 0)
    BY DEF IsKept
  <2>2. QED
    BY <2>1
<1>2. ASSUME NEW n \in Nat, n \in G
      PROVE  n + 1 \in G
  <2>1. PICK kept : IsKept(kept, s, S, n)
    BY <1>2
  <2> DEFINE longer == [i \in 0..(n + 1) |->
                  IF i = n + 1 THEN Step(kept[n], i) ELSE kept[i]]
  <2>2. \A i \in 0..n :
           kept[i] = IF i = 0 THEN <<>> ELSE Step(kept[i - 1], i)
    BY <2>1 DEF IsKept
  <2> HIDE DEF Step
  <2>3. ASSUME NEW i \in 0..(n + 1)
        PROVE  longer[i] = IF i = 0 THEN <<>> ELSE Step(longer[i - 1], i)
    <3>1. CASE i = n + 1
      <4>1. i # 0 /\ i - 1 = n /\ n \in 0..(n + 1) /\ n # n + 1
        BY <3>1
      <4>2. longer[n] = kept[n] /\ longer[i] = Step(kept[n], i)
        BY <3>1, <4>1
      <4>3. QED
        BY <4>1, <4>2
    <3>2. CASE i # n + 1
      <4>1. i \in 0..n
        BY <3>2
      <4>2. longer[i] = kept[i]
        BY <3>2
      <4>3. i # 0 => longer[i - 1] = kept[i - 1]
        BY <4>1
      <4>4. QED
        BY <2>2, <4>1, <4>2, <4>3
    <3>3. QED
      BY <3>1, <3>2
  <2>4. IsKept(longer, s, S, n + 1)
    <3>1. longer = [i \in 0..(n + 1) |-> longer[i]]
      OBVIOUS
    <3> HIDE DEF longer
    <3>2. longer = [i \in 0..(n + 1) |->
                       IF i = 0 THEN <<>> ELSE Step(longer[i - 1], i)]
      BY <2>3, <3>1
    <3>3. QED
      BY <3>2 DEF IsKept, Step
  <2>5. QED
    BY <2>4
<1>3. QED
  <2> HIDE DEF G
  <2>1. N \in G
    BY <1>1, <1>2, EveryNatural
  <2>2. QED
    BY <2>1 DEF G

\* What has one more element.
LEMMA OneMore ==
    ASSUME NEW T, NEW s \in Seq(T), NEW x \in T
    PROVE  /\ Append(s, x) \in Seq(T)
           /\ ToSet(Append(s, x)) = ToSet(s) \cup {x}
           /\ IsInjective(s) /\ x \notin ToSet(s) =>
                 IsInjective(Append(s, x))
PROOF
<1> DEFINE u == Append(s, x)
<1>1. /\ u \in Seq(T) /\ Len(u) = Len(s) + 1 /\ u[Len(s) + 1] = x
      /\ \A i \in 1..Len(s) : u[i] = s[i]
  BY AppendProperties
<1>2. DOMAIN s = 1..Len(s) /\ DOMAIN u = 1..(Len(s) + 1) /\ Len(s) \in Nat
  BY <1>1, LenProperties
<1> HIDE DEF u
<1>3. ToSet(u) = ToSet(s) \cup {x}
  <2>1. ASSUME NEW y \in ToSet(u) PROVE y \in ToSet(s) \cup {x}
    BY <1>1, <1>2 DEF ToSet
  <2>2. ASSUME NEW y \in ToSet(s) \cup {x} PROVE y \in ToSet(u)
    BY <1>1, <1>2 DEF ToSet
  <2>3. QED
    BY <2>1, <2>2
<1>4. IsInjective(s) /\ x \notin ToSet(s) => IsInjective(u)
  BY <1>1, <1>2 DEF IsInjective, ToSet
<1>5. QED
  BY <1>1, <1>3, <1>4 DEF u

\* Only keeps the elements that are in S, each as often as it was there.
LEMMA OnlyKeeps ==
    ASSUME NEW T, NEW s \in Seq(T), NEW S
    PROVE  /\ Only(s, S) \in Seq(T)
           /\ ToSet(Only(s, S)) = ToSet(s) \cap S
           /\ IsInjective(s) => IsInjective(Only(s, S))
PROOF
<1> DEFINE g == CHOOSE g : IsKept(g, s, S, Len(s))
           Done(n) == {s[j] : j \in 1..n} \cap S
           Fine(n) == /\ g[n] \in Seq(T) /\ ToSet(g[n]) = Done(n)
                      /\ IsInjective(s) => IsInjective(g[n])
<1>1. Len(s) \in Nat /\ DOMAIN s = 1..Len(s) /\ \A i \in 1..Len(s) : s[i] \in T
  BY LenProperties, ElementOfSeq
<1>2. IsKept(g, s, S, Len(s))
  BY <1>1, KeptExists
<1>3. Only(s, S) = g[Len(s)]
  BY DEF Only, IsKept
<1> HIDE DEF g
<1>4. /\ g[0] = <<>>
      /\ \A n \in 1..Len(s) :
            g[n] = IF s[n] \in S THEN Append(g[n - 1], s[n]) ELSE g[n - 1]
  <2> DEFINE Step(k, i) == IF s[i] \in S THEN Append(k, s[i]) ELSE k
  <2>1. g = [i \in 0..Len(s) |-> IF i = 0 THEN <<>> ELSE Step(g[i - 1], i)]
    BY <1>2 DEF IsKept
  <2> HIDE DEF Step
  <2>2. \A i \in 0..Len(s) :
           g[i] = IF i = 0 THEN <<>> ELSE Step(g[i - 1], i)
    BY <2>1
  <2>3. g[0] = <<>> /\ \A n \in 1..Len(s) : g[n] = Step(g[n - 1], n)
    BY <1>1, <2>2
  <2>4. QED
    BY <2>3 DEF Step
<1>5. Fine(0)
  <2>1. ToSet(<<>>) = {} /\ IsInjective(<<>>)
    BY DEF ToSet, IsInjective
  <2>2. QED
    BY <1>4, <2>1, EmptySeq
<1>6. ASSUME NEW n \in Nat, n + 1 <= Len(s), Fine(n)
      PROVE  Fine(n + 1)
  <2> DEFINE x == s[n + 1]
  <2>1. x \in T /\ n + 1 \in 1..Len(s) /\ (n + 1) - 1 = n
    BY <1>1, <1>6
  <2>2. g[n + 1] = IF x \in S THEN Append(g[n], x) ELSE g[n]
    BY <1>4, <2>1
  <2>3. Done(n + 1) = IF x \in S THEN Done(n) \cup {x} ELSE Done(n)
    <3>1. 1..(n + 1) = (1..n) \cup {n + 1}
      OBVIOUS
    <3>2. QED
      BY <3>1
  <2>4. IsInjective(s) => x \notin Done(n)
    <3> SUFFICES ASSUME IsInjective(s), NEW j \in 1..n, s[j] = x PROVE FALSE
      OBVIOUS
    <3>1. j \in 1..Len(s) /\ n + 1 \in 1..Len(s) /\ j # n + 1
      BY <1>1, <1>6
    <3>2. QED
      BY <1>1, <3>1 DEF IsInjective
  <2>5. CASE x \in S
    <3>1. g[n + 1] = Append(g[n], x) /\ Done(n + 1) = Done(n) \cup {x}
      BY <2>2, <2>3, <2>5
    <3> HIDE DEF Done, x
    <3>2. g[n] \in Seq(T) /\ ToSet(g[n]) = Done(n)
      BY <1>6
    <3>3. /\ Append(g[n], x) \in Seq(T)
          /\ ToSet(Append(g[n], x)) = ToSet(g[n]) \cup {x}
          /\ IsInjective(g[n]) /\ x \notin ToSet(g[n]) =>
                IsInjective(Append(g[n], x))
      BY <2>1, <3>2, OneMore
    <3>4. QED
      BY <1>6, <2>4, <3>1, <3>2, <3>3
  <2>6. CASE x \notin S
    BY <1>6, <2>2, <2>3, <2>6
  <2>7. QED
    BY <2>5, <2>6
<1> DEFINE G == {n \in Nat : n <= Len(s) => Fine(n)}
<1>7. Len(s) \in G
  <2> HIDE DEF Fine
  <2>1. 0 \in G
    BY <1>5
  <2>2. \A n \in Nat : n \in G => n + 1 \in G
    BY <1>1, <1>6
  <2> HIDE DEF G
  <2>3. QED
    BY <1>1, <2>1, <2>2, EveryNatural
<1>8. Fine(Len(s))
  BY <1>1, <1>7
<1>9. Done(Len(s)) = ToSet(s) \cap S
  BY <1>1 DEF ToSet
<1>10. QED
  BY <1>3, <1>8, <1>9

\* Orders are the sequences of tabs that have no tab twice.
LEMMA OrdersAre ==
    ASSUME NEW s
    PROVE  s \in Orders <=> s \in Seq(Tabs) /\ IsInjective(s)
PROOF
<1>1. ASSUME s \in Orders PROVE s \in Seq(Tabs) /\ IsInjective(s)
  <2>1. PICK m \in 0..Cardinality(Tabs) : s \in [1..m -> Tabs]
    BY <1>1 DEF Orders, SeqOf
  <2>2. m \in Nat
    BY <2>1, FS_CardinalityType, ClientAssumption
  <2>3. QED
    BY <1>1, <2>1, <2>2, SeqDef DEF Orders
<1>2. ASSUME s \in Seq(Tabs), IsInjective(s) PROVE s \in Orders
  <2>1. /\ Len(s) \in Nat /\ DOMAIN s = 1..Len(s) /\ s \in [1..Len(s) -> Tabs]
    BY <1>2, LenProperties
  <2>2. s \in Injection(1..Len(s), Tabs)
    BY <1>2, <2>1 DEF IsInjective, Injection
  <2>3. Cardinality(1..Len(s)) = Len(s) /\ Cardinality(Tabs) \in Nat
    <3>1. Cardinality(1..Len(s)) = IF 1 > Len(s) THEN 0 ELSE Len(s) - 1 + 1
      BY <2>1, FS_Interval
    <3>2. QED
      BY <2>1, <3>1, FS_CardinalityType, ClientAssumption
  <2>4. Cardinality(1..Len(s)) <= Cardinality(Tabs)
    BY <2>2, FS_Injection, ClientAssumption
  <2>5. Len(s) \in 0..Cardinality(Tabs)
    BY <2>1, <2>3, <2>4
  <2>6. QED
    BY <1>2, <2>1, <2>5 DEF Orders, SeqOf
<1>3. QED
  BY <1>1, <1>2

\* Its places and its set.
LEMMA OrderFacts ==
    ASSUME NEW s \in Orders
    PROVE  /\ s \in Seq(Tabs) /\ IsInjective(s)
           /\ Len(s) \in Nat /\ DOMAIN s = 1..Len(s)
           /\ ToSet(s) \subseteq Tabs
           /\ \A i \in DOMAIN s : s[i] \in ToSet(s)
           /\ \A i, j \in DOMAIN s : s[i] = s[j] => i = j
           /\ s # <<>> <=> ToSet(s) # {}
           /\ s # <<>> => Head(s) \in ToSet(s)
PROOF
<1>1. s \in Seq(Tabs) /\ IsInjective(s)
  BY OrdersAre
<1>2. /\ Len(s) \in Nat /\ DOMAIN s = 1..Len(s)
      /\ \A i \in 1..Len(s) : s[i] \in Tabs
  BY <1>1, LenProperties, ElementOfSeq
<1>3. s # <<>> => 1 \in DOMAIN s /\ Head(s) = s[1]
  BY <1>1, <1>2
<1>4. s # <<>> <=> ToSet(s) # {}
  BY <1>1, <1>2, <1>3 DEF ToSet
<1>5. QED
  BY <1>1, <1>2, <1>3, <1>4 DEF ToSet, IsInjective

\* The empty order.
LEMMA NoTabs == <<>> \in Orders /\ ToSet(<<>>) = {}
PROOF
<1>1. <<>> \in Seq(Tabs) /\ IsInjective(<<>>) /\ ToSet(<<>>) = {}
  BY EmptySeq DEF IsInjective, ToSet
<1>2. QED
  BY <1>1, OrdersAre

\* A tab that is added at the end.
LEMMA TabAdded ==
    ASSUME NEW s \in Orders, NEW t \in Tabs \ ToSet(s)
    PROVE  /\ Append(s, t) \in Orders /\ Append(s, t) # <<>>
           /\ ToSet(Append(s, t)) = ToSet(s) \cup {t}
PROOF
<1>1. s \in Seq(Tabs) /\ IsInjective(s)
  BY OrdersAre
<1>2. /\ Append(s, t) \in Seq(Tabs) /\ IsInjective(Append(s, t))
      /\ ToSet(Append(s, t)) = ToSet(s) \cup {t}
  BY <1>1, OneMore
<1>3. Append(s, t) \in Orders
  BY <1>2, OrdersAre
<1>4. QED
  BY <1>2, <1>3, OrderFacts

\* What is left of an order.
LEMMA OnlyOrder ==
    ASSUME NEW s \in Orders, NEW S
    PROVE  Only(s, S) \in Orders /\ ToSet(Only(s, S)) = ToSet(s) \cap S
PROOF
<1>1. s \in Seq(Tabs) /\ IsInjective(s)
  BY OrdersAre
<1>2. QED
  BY <1>1, OnlyKeeps, OrdersAre, Zenon

\* The first tab is moved to the end.
LEMMA Rotated ==
    ASSUME NEW s \in Orders, s # <<>>
    PROVE  /\ Append(Tail(s), Head(s)) \in Orders
           /\ ToSet(Append(Tail(s), Head(s))) = ToSet(s)
           /\ Append(Tail(s), Head(s)) # <<>>
PROOF
<1> DEFINE n == Len(s)
           r == Tail(s)
<1>1. /\ s \in Seq(Tabs) /\ n \in Nat /\ n >= 1 /\ DOMAIN s = 1..n
      /\ \A i, j \in 1..n : s[i] = s[j] => i = j
      /\ Head(s) = s[1] /\ s[1] \in Tabs
  BY OrderFacts, EmptySeq
<1>2. /\ r \in Seq(Tabs) /\ Len(r) = n - 1 /\ DOMAIN r = 1..(n - 1)
      /\ \A i \in 1..(n - 1) : r[i] = s[i + 1]
  BY <1>1, HeadTailProperties, LenProperties
<1> HIDE DEF n, r
<1>3. r \in Orders
  <2>1. \A i, j \in 1..(n - 1) : r[i] = r[j] => i = j
    BY <1>1, <1>2
  <2>2. QED
    BY <1>2, <2>1, OrdersAre DEF IsInjective
<1>4. ToSet(s) = ToSet(r) \cup {s[1]}
  <2>1. ASSUME NEW i \in 1..n PROVE s[i] \in ToSet(r) \cup {s[1]}
    <3>1. CASE i # 1
      <4>1. i - 1 \in 1..(n - 1) /\ r[i - 1] = s[i]
        BY <1>1, <1>2, <3>1
      <4>2. QED
        BY <1>2, <4>1 DEF ToSet
    <3>2. QED
      BY <3>1
  <2>2. ASSUME NEW i \in 1..(n - 1) PROVE r[i] \in ToSet(s)
    <3>1. i + 1 \in 1..n
      BY <1>1
    <3>2. QED
      BY <1>1, <1>2, <3>1 DEF ToSet
  <2>3. s[1] \in ToSet(s)
    BY <1>1 DEF ToSet
  <2>4. QED
    BY <1>1, <1>2, <2>1, <2>2, <2>3 DEF ToSet
<1>5. s[1] \notin ToSet(r)
  <2> SUFFICES ASSUME NEW i \in 1..(n - 1), r[i] = s[1] PROVE FALSE
    BY <1>2 DEF ToSet
  <2>1. i + 1 \in 1..n /\ i + 1 # 1 /\ s[i + 1] = s[1]
    BY <1>1, <1>2
  <2>2. QED
    BY <1>1, <2>1
<1>6. /\ Append(r, s[1]) \in Orders /\ Append(r, s[1]) # <<>>
      /\ ToSet(Append(r, s[1])) = ToSet(r) \cup {s[1]}
  BY <1>1, <1>3, <1>5, TabAdded
<1>7. QED
  BY <1>1, <1>4, <1>6 DEF r

\* One order after another.
LEMMA Joined ==
    ASSUME NEW s \in Orders, NEW u \in Orders, ToSet(s) \cap ToSet(u) = {}
    PROVE  s \o u \in Orders /\ ToSet(s \o u) = ToSet(s) \cup ToSet(u)
PROOF
<1> DEFINE w == s \o u
<1>1. /\ s \in Seq(Tabs) /\ Len(s) \in Nat /\ DOMAIN s = 1..Len(s)
      /\ \A i, j \in DOMAIN s : s[i] = s[j] => i = j
  BY OrderFacts
<1>2. /\ u \in Seq(Tabs) /\ Len(u) \in Nat /\ DOMAIN u = 1..Len(u)
      /\ \A i, j \in DOMAIN u : u[i] = u[j] => i = j
  BY OrderFacts
<1>3. /\ w \in Seq(Tabs) /\ Len(w) = Len(s) + Len(u)
      /\ DOMAIN w = 1..(Len(s) + Len(u))
      /\ \A i \in 1..(Len(s) + Len(u)) :
            w[i] = IF i <= Len(s) THEN s[i] ELSE u[i - Len(s)]
  BY <1>1, <1>2, ConcatProperties, LenProperties
<1> HIDE DEF w
<1>4. \A i \in 1..Len(s), j \in 1..Len(u) : s[i] # u[j]
  <2> SUFFICES ASSUME NEW i \in 1..Len(s), NEW j \in 1..Len(u), s[i] = u[j]
               PROVE  FALSE
    OBVIOUS
  <2>1. s[i] \in ToSet(s) /\ u[j] \in ToSet(u)
    BY <1>1, <1>2, OrderFacts
  <2>2. QED
    BY <2>1
<1>5. ASSUME NEW i \in DOMAIN w, NEW j \in DOMAIN w, w[i] = w[j]
      PROVE  i = j
  <2>1. CASE i <= Len(s) /\ j <= Len(s)
    BY <1>1, <1>3, <1>5, <2>1
  <2>2. CASE ~(i <= Len(s)) /\ ~(j <= Len(s))
    <3>1. i - Len(s) \in DOMAIN u /\ j - Len(s) \in DOMAIN u
      BY <1>1, <1>2, <1>3, <2>2
    <3>2. QED
      BY <1>1, <1>2, <1>3, <1>5, <2>2, <3>1
  <2>3. CASE i <= Len(s) /\ ~(j <= Len(s))
    <3>1. i \in 1..Len(s) /\ j - Len(s) \in 1..Len(u)
      BY <1>1, <1>2, <1>3, <2>3
    <3>2. QED
      BY <1>3, <1>4, <1>5, <2>3, <3>1
  <2>4. CASE ~(i <= Len(s)) /\ j <= Len(s)
    <3>1. j \in 1..Len(s) /\ i - Len(s) \in 1..Len(u)
      BY <1>1, <1>2, <1>3, <2>4
    <3>2. QED
      BY <1>3, <1>4, <1>5, <2>4, <3>1
  <2>5. QED
    BY <2>1, <2>2, <2>3, <2>4
<1>6. w \in Orders
  BY <1>3, <1>5, OrdersAre DEF IsInjective
<1>7. ASSUME NEW i \in DOMAIN w PROVE w[i] \in ToSet(s) \cup ToSet(u)
  <2>1. CASE i <= Len(s)
    BY <1>1, <1>3, <2>1 DEF ToSet
  <2>2. CASE ~(i <= Len(s))
    <3>1. i - Len(s) \in DOMAIN u
      BY <1>1, <1>2, <1>3, <2>2
    <3>2. QED
      BY <1>3, <2>2, <3>1 DEF ToSet
  <2>3. QED
    BY <2>1, <2>2
<1>8. ASSUME NEW i \in DOMAIN s PROVE s[i] \in ToSet(w)
  BY <1>1, <1>2, <1>3 DEF ToSet
<1>9. ASSUME NEW i \in DOMAIN u PROVE u[i] \in ToSet(w)
  <2>1. /\ i + Len(s) \in DOMAIN w /\ ~(i + Len(s) <= Len(s))
        /\ (i + Len(s)) - Len(s) = i
    BY <1>1, <1>2, <1>3
  <2>2. w[i + Len(s)] = u[i]
    BY <1>3, <2>1
  <2>3. QED
    BY <2>1, <2>2 DEF ToSet
<1>10. ToSet(w) = ToSet(s) \cup ToSet(u)
  BY <1>7, <1>8, <1>9 DEF ToSet
<1>11. QED
  BY <1>6, <1>10 DEF w

\* apply_tab_order_subset permutes the tabs: the listed ones fill the places
\* they had among themselves, one each.
LEMMA ApplyOrderKeeps ==
    ASSUME NEW tabs \in Orders, NEW listed \in Orders,
           ToSet(listed) \subseteq ToSet(tabs)
    PROVE  /\ ApplyOrder(tabs, listed) \in Orders
           /\ ToSet(ApplyOrder(tabs, listed)) = ToSet(tabs)
PROOF
<1> DEFINE own == ToSet(listed)
           n == Len(listed)
           Mine(i) == {j \in 1..i : tabs[j] \in own}
           D == {j \in DOMAIN tabs : tabs[j] \in own}
           P == [i \in D |-> Cardinality(Mine(i))]
           u == [i \in DOMAIN tabs |->
                    IF i \in D THEN listed[P[i]] ELSE tabs[i]]
<1>1. /\ tabs \in Seq(Tabs) /\ Len(tabs) \in Nat /\ DOMAIN tabs = 1..Len(tabs)
      /\ \A i, j \in DOMAIN tabs : tabs[i] = tabs[j] => i = j
      /\ \A i \in DOMAIN tabs : tabs[i] \in Tabs
      /\ \A i \in DOMAIN tabs : tabs[i] \in ToSet(tabs)
  BY OrderFacts
<1>2. /\ n \in Nat /\ DOMAIN listed = 1..n
      /\ \A i, j \in 1..n : listed[i] = listed[j] => i = j
      /\ \A i \in 1..n : listed[i] \in own
      /\ own \subseteq Tabs
      /\ own = {listed[i] : i \in 1..n}
  BY OrderFacts DEF ToSet
<1>3. ApplyOrder(tabs, listed) = u
  BY DEF ApplyOrder
<1> HIDE DEF n, own
<1>4. \A i \in DOMAIN tabs : IsFiniteSet(Mine(i)) /\ Mine(i) \subseteq D
  <2> SUFFICES ASSUME NEW i \in DOMAIN tabs
               PROVE  IsFiniteSet(Mine(i)) /\ Mine(i) \subseteq D
    OBVIOUS
  <2>1. IsFiniteSet(1..i) /\ Mine(i) \in SUBSET (1..i)
    BY <1>1, FS_Interval
  <2>2. IsFiniteSet(Mine(i))
    BY <2>1, FS_Subset
  <2>3. QED
    BY <1>1, <2>2
<1>5. IsFiniteSet(D) /\ Cardinality(D) = n
  <2> DEFINE f == [i \in D |-> tabs[i]]
             k == [i \in 1..n |-> listed[i]]
  <2>1. IsFiniteSet(1..Len(tabs)) /\ D \in SUBSET (1..Len(tabs))
    BY <1>1, FS_Interval
  <2>2. IsFiniteSet(D)
    BY <2>1, FS_Subset
  <2>3. f \in Injection(D, own)
    BY <1>1 DEF Injection, IsInjective
  <2>4. f \in Surjection(D, own)
    <3> SUFFICES ASSUME NEW x \in own PROVE \E i \in D : f[i] = x
      BY DEF Surjection
    <3>1. PICK i \in DOMAIN tabs : tabs[i] = x
      BY DEF ToSet, own
    <3>2. QED
      BY <3>1
  <2>5. Cardinality(own) = Cardinality(D)
    BY <2>2, <2>3, <2>4, FS_Surjection
  <2>6. IsFiniteSet(1..n) /\ Cardinality(1..n) = n
    <3>1. Cardinality(1..n) = IF 1 > n THEN 0 ELSE n - 1 + 1
      BY <1>2, FS_Interval
    <3>2. QED
      BY <1>2, <3>1, FS_Interval
  <2>7. k \in Injection(1..n, own) /\ k \in Surjection(1..n, own)
    BY <1>2 DEF Injection, Surjection, IsInjective
  <2> HIDE DEF k
  <2>8. Cardinality(own) = Cardinality(1..n)
    BY <2>6, <2>7, FS_Surjection
  <2>9. QED
    BY <2>2, <2>5, <2>6, <2>8
<1>6. \A i \in D : P[i] \in 1..n
  <2> SUFFICES ASSUME NEW i \in D PROVE Cardinality(Mine(i)) \in 1..n
    OBVIOUS
  <2>1. Mine(i) \in SUBSET D /\ IsFiniteSet(Mine(i)) /\ i \in Mine(i)
    BY <1>1, <1>4
  <2> HIDE DEF Mine, D
  <2>2. Cardinality(Mine(i)) <= n /\ Cardinality(Mine(i)) \in Nat
    BY <1>5, <2>1, FS_Subset, FS_CardinalityType
  <2>3. Cardinality(Mine(i)) # 0
    BY <2>1, FS_EmptySet
  <2>4. QED
    BY <1>2, <2>2, <2>3
<1>7. \A i, j \in D : i < j => P[i] < P[j]
  <2> SUFFICES ASSUME NEW i \in D, NEW j \in D, i < j
               PROVE  Cardinality(Mine(i)) < Cardinality(Mine(j))
    OBVIOUS
  <2>1. /\ Mine(i) \in SUBSET Mine(j) /\ IsFiniteSet(Mine(j))
        /\ j \in Mine(j) /\ j \notin Mine(i) /\ IsFiniteSet(Mine(i))
    BY <1>1, <1>4
  <2> HIDE DEF Mine
  <2>2. /\ Cardinality(Mine(i)) <= Cardinality(Mine(j))
        /\ Cardinality(Mine(i)) # Cardinality(Mine(j))
        /\ Cardinality(Mine(i)) \in Nat /\ Cardinality(Mine(j)) \in Nat
    BY <2>1, FS_Subset, FS_CardinalityType
  <2>3. QED
    BY <2>2
<1> HIDE DEF P
<1>8. \A i, j \in D : P[i] = P[j] => i = j
  <2> SUFFICES ASSUME NEW i \in D, NEW j \in D, P[i] = P[j] PROVE i = j
    OBVIOUS
  <2>1. i \in Nat /\ j \in Nat /\ P[i] \in Nat /\ P[j] \in Nat
    BY <1>1, <1>2, <1>6
  <2>2. ~(i < j) /\ ~(j < i)
    BY <1>7, <2>1
  <2>3. QED
    BY <2>1, <2>2
<1>9. \A k \in 1..n : \E i \in D : P[i] = k
  <2>1. P \in Injection(D, 1..n)
    BY <1>6, <1>8 DEF Injection, IsInjective, P
  <2>2. IsFiniteSet(1..n) /\ Cardinality(1..n) = n
    <3>1. Cardinality(1..n) = IF 1 > n THEN 0 ELSE n - 1 + 1
      BY <1>2, FS_Interval
    <3>2. QED
      BY <1>2, <3>1, FS_Interval
  <2> HIDE DEF D
  <2>3. P \in Surjection(D, 1..n)
    BY <1>5, <2>1, <2>2, FS_Injection
  <2>4. QED
    BY <2>3 DEF Surjection
<1>10. \A i \in D : u[i] = listed[P[i]] /\ u[i] \in own
  BY <1>2, <1>6
<1>11. \A i \in DOMAIN tabs \ D : u[i] = tabs[i] /\ u[i] \notin own
  OBVIOUS
<1>12. DOMAIN u = DOMAIN tabs /\ D \subseteq DOMAIN tabs
  OBVIOUS
<1> HIDE DEF u, D
<1>13. u \in Seq(Tabs)
  <2>1. u \in [1..Len(tabs) -> Tabs]
    <3>1. \A i \in 1..Len(tabs) : u[i] \in Tabs
      BY <1>1, <1>2, <1>10, <1>11
    <3>2. u = [i \in 1..Len(tabs) |-> u[i]]
      BY <1>1 DEF u
    <3>3. QED
      BY <3>1, <3>2
  <2>2. QED
    BY <1>1, <2>1, SeqDef
<1>14. \A i, j \in DOMAIN u : u[i] = u[j] => i = j
  <2> SUFFICES ASSUME NEW i \in DOMAIN u, NEW j \in DOMAIN u, u[i] = u[j]
               PROVE  i = j
    OBVIOUS
  <2>1. CASE i \in D /\ j \in D
    BY <1>2, <1>6, <1>8, <1>10, <2>1
  <2>2. CASE i \notin D /\ j \notin D
    BY <1>1, <1>11, <1>12, <2>2
  <2>3. CASE (i \in D) # (j \in D)
    BY <1>10, <1>11, <1>12, <2>3
  <2>4. QED
    BY <2>1, <2>2, <2>3
<1>15. u \in Orders
  BY <1>13, <1>14, OrdersAre DEF IsInjective
<1>16. ToSet(u) = ToSet(tabs)
  <2>1. ASSUME NEW i \in DOMAIN u PROVE u[i] \in ToSet(tabs)
    BY <1>1, <1>10, <1>11, <1>12 DEF own
  <2>2. ASSUME NEW i \in DOMAIN tabs PROVE tabs[i] \in ToSet(u)
    <3>1. CASE i \in D
      <4>1. tabs[i] \in own
        BY <3>1 DEF D
      <4>2. PICK k \in 1..n : listed[k] = tabs[i]
        BY <1>2, <4>1
      <4>3. PICK j \in D : P[j] = k
        BY <1>9
      <4>4. QED
        BY <1>10, <1>12, <4>2, <4>3 DEF ToSet
    <3>2. CASE i \notin D
      BY <1>11, <1>12, <3>2 DEF ToSet
    <3>3. QED
      BY <3>1, <3>2
  <2>3. QED
    BY <2>1, <2>2 DEF ToSet
<1>17. QED
  BY <1>3, <1>15, <1>16

-----------------------------------------------------------------------------
(* Windows.                                                                *)

\* set_active_tab leaves the tabs alone.
LEMMA SetActiveKeeps ==
    ASSUME NEW w \in Views, NEW t \in Tabs
    PROVE  /\ SetActive(w, t) \in Views
           /\ SetActive(w, t).tabs = w.tabs /\ SetActive(w, t).active = t
BY DEF SetActive, Views

\* Other tabs for the same view.
LEMMA TabsReplaced ==
    ASSUME NEW w \in Views, NEW tabs \in Orders
    PROVE  /\ [w EXCEPT !.tabs = tabs] \in Views
           /\ [w EXCEPT !.tabs = tabs].tabs = tabs
           /\ [w EXCEPT !.tabs = tabs].active = w.active
BY DEF Views

LEMMA NoWindowIsView == NoWindow \in Views /\ ToSet(NoWindow.tabs) = {}
BY NoTabs DEF NoWindow, Views

\* prune_dead_windows takes one tab; the view goes on as it was.
LEMMA PruneTabKeeps ==
    ASSUME NEW w \in Views, NEW t
    PROVE  /\ PruneTab(w, t) \in Views
           /\ ToSet(PruneTab(w, t).tabs) = ToSet(w.tabs) \ {t}
           /\ ToSet(w.tabs) \ {t} # {} => PruneTab(w, t).active = w.active
PROOF
<1> DEFINE rest == Only(w.tabs, Tabs \ {t})
<1>1. w.tabs \in Orders
  BY DEF Views
<1>2. rest \in Orders /\ ToSet(rest) = ToSet(w.tabs) \ {t}
  BY <1>1, OnlyOrder, OrderFacts
<1>3. rest # <<>> <=> ToSet(rest) # {}
  BY <1>2, OrderFacts
<1> HIDE DEF rest
<1>4. PruneTab(w, t) = IF rest = <<>> THEN NoWindow
                       ELSE [w EXCEPT !.tabs = rest]
  BY DEF PruneTab, rest
<1>5. CASE rest = <<>>
  BY <1>2, <1>3, <1>4, <1>5, NoWindowIsView
<1>6. CASE rest # <<>>
  BY <1>2, <1>4, <1>6, TabsReplaced
<1>7. QED
  BY <1>5, <1>6

\* remove_tab takes one tab, and a view of another tab stays with it.
LEMMA RemoveTabKeeps ==
    ASSUME NEW w \in Views, NEW t \in ToSet(w.tabs)
    PROVE  /\ RemoveTab(w, t) \in Views
           /\ ToSet(RemoveTab(w, t).tabs) = ToSet(w.tabs) \ {t}
           /\ w.active \in ToSet(w.tabs) \ {t} =>
                 RemoveTab(w, t).active = w.active
PROOF
<1> DEFINE rest == Only(w.tabs, Tabs \ {t})
           I == {i \in 1..Len(w.tabs) : w.tabs[i] = t}
           place == Min({SelectInSeq(w.tabs, LAMBDA x : x = t), Len(rest)})
           Cleared(x) == IF x = t THEN None ELSE x
           cleared == [tabs |-> rest, active |-> Cleared(w.active),
                       last |-> Cleared(w.last)]
           next == IF cleared.last \in ToSet(rest)
                   THEN cleared.last ELSE rest[place]
<1>1. /\ w.tabs \in Orders /\ w.active \in Tabs \cup {None}
      /\ w.last \in Tabs \cup {None}
  BY DEF Views
<1>2. rest \in Orders /\ ToSet(rest) = ToSet(w.tabs) \ {t}
  BY <1>1, OnlyOrder, OrderFacts
<1>3. rest # <<>> <=> ToSet(rest) # {}
  BY <1>2, OrderFacts
<1>4. RemoveTab(w, t) = IF rest = <<>> THEN NoWindow
                        ELSE IF cleared.active \in ToSet(rest) THEN cleared
                        ELSE SetActive(cleared, next)
  BY DEF RemoveTab
<1>5. rest # <<>> => place \in DOMAIN rest
  <2> SUFFICES ASSUME rest # <<>> PROVE place \in DOMAIN rest
    OBVIOUS
  <2>1. Len(w.tabs) \in Nat /\ DOMAIN w.tabs = 1..Len(w.tabs)
    BY <1>1, OrderFacts
  <2>2. I \in SUBSET Nat /\ I # {}
    BY <2>1 DEF ToSet
  <2>3. SelectInSeq(w.tabs, LAMBDA x : x = t) = Min(I)
    BY <2>2 DEF SelectInSeq
  <2>4. Min(I) \in I
    BY <2>2, MinIsMember
  <2>5. Len(rest) \in Nat /\ DOMAIN rest = 1..Len(rest) /\ Len(rest) # 0
    <3> HIDE DEF rest
    <3>1. rest \in Seq(Tabs)
      BY <1>2, OrdersAre
    <3>2. QED
      BY <1>2, <3>1, OrderFacts, EmptySeq
  <2> HIDE DEF rest
  <2>6. Min(I) \in Nat \ {0}
    BY <2>1, <2>4
  <2> HIDE DEF I
  <2>7. place = Min({Min(I), Len(rest)})
    BY <2>3
  <2>8. Min({Min(I), Len(rest)}) \in {Min(I), Len(rest)}
    BY <2>5, <2>6, MinIsMember
  <2>9. Min({Min(I), Len(rest)}) <= Len(rest)
    <3> DEFINE a == Min(I)
               b == Len(rest)
    <3>1. a \in Nat /\ b \in Nat
      BY <2>5, <2>6
    <3> HIDE DEF a, b
    <3>2. \E x \in {a, b} : \A y \in {a, b} : x <= y
      BY <3>1
    <3>3. \A y \in {a, b} : Min({a, b}) <= y
      BY <3>2 DEF Min
    <3>4. QED
      BY <3>3 DEF a, b
  <2>10. QED
    BY <2>5, <2>6, <2>7, <2>8, <2>9
<1> HIDE DEF rest, place
<1>6. cleared \in Views /\ cleared.tabs = rest
  BY <1>1, <1>2 DEF Views
<1>7. rest # <<>> => next \in Tabs
  BY <1>2, <1>5, OrderFacts
<1>8. CASE rest = <<>>
  BY <1>2, <1>3, <1>4, <1>8, NoWindowIsView
<1>9. CASE rest # <<>> /\ cleared.active \in ToSet(rest)
  <2>1. RemoveTab(w, t) = cleared
    BY <1>4, <1>9
  <2>2. w.active # t => cleared.active = w.active
    OBVIOUS
  <2> HIDE DEF cleared
  <2>3. QED
    BY <1>2, <1>6, <2>1, <2>2
<1>10. CASE rest # <<>> /\ cleared.active \notin ToSet(rest)
  <2>1. w.active \notin ToSet(w.tabs) \ {t}
    BY <1>2, <1>10
  <2> HIDE DEF cleared, next
  <2>2. RemoveTab(w, t) = SetActive(cleared, next)
    BY <1>4, <1>10
  <2>3. QED
    BY <1>2, <1>6, <1>7, <1>10, <2>1, <2>2, SetActiveKeeps
<1>11. QED
  BY <1>8, <1>9, <1>10

-----------------------------------------------------------------------------
(* Notifications.                                                          *)

\* NotificationQueue::push adds the notification and loses no other but an
\* older order.
LEMMA QueuedKeeps ==
    ASSUME notices \in Seq(NoticeSet), NEW n \in NoticeSet
    PROVE  /\ Queued(n) \in Seq(NoticeSet)
           /\ n \in ToSet(Queued(n))
           /\ ToSet(Queued(n)) \subseteq ToSet(notices) \cup {n}
           /\ \A m \in ToSet(notices) :
                 m.kind # "order" => m \in ToSet(Queued(n))
PROOF
<1> DEFINE I == {i \in 1..Len(notices) : notices[i].kind = "order"}
           waiting == SelectInSeq(notices, LAMBDA q : q.kind = "order")
           put == [notices EXCEPT ![waiting] = n]
<1>1. Len(notices) \in Nat /\ DOMAIN notices = 1..Len(notices)
  BY LenProperties
<1>2. waiting = IF I # {} THEN Min(I) ELSE 0
  BY DEF SelectInSeq
<1>3. Queued(n) = IF n.kind = "order" /\ waiting # 0 THEN put
                  ELSE Append(notices, n)
  BY DEF Queued, ReplaceAt
<1> HIDE DEF waiting
<1>4. CASE n.kind = "order" /\ waiting # 0
  <2>a. I \in SUBSET Nat /\ I # {}
    BY <1>1, <1>2, <1>4
  <2>1. waiting \in I
    <3> HIDE DEF I
    <3> QED BY <1>2, <2>a, MinIsMember
  <2>2. waiting \in 1..Len(notices) /\ notices[waiting].kind = "order"
    BY <2>1
  <2>3. /\ put \in Seq(NoticeSet) /\ Len(put) = Len(notices)
        /\ \A i \in 1..Len(notices) :
              put[i] = IF i = waiting THEN n ELSE notices[i]
    BY <2>2, ExceptSeq
  <2>4. DOMAIN put = 1..Len(notices)
    BY <1>1
  <2> HIDE DEF put
  <2>5. n \in ToSet(put) /\ ToSet(put) \subseteq ToSet(notices) \cup {n}
    BY <1>1, <2>2, <2>3, <2>4 DEF ToSet
  <2>6. \A m \in ToSet(notices) : m.kind # "order" => m \in ToSet(put)
    BY <1>1, <2>2, <2>3, <2>4 DEF ToSet
  <2>7. QED
    BY <1>3, <1>4, <2>3, <2>5, <2>6
<1>5. CASE ~(n.kind = "order" /\ waiting # 0)
  <2>1. /\ Append(notices, n) \in Seq(NoticeSet)
        /\ ToSet(Append(notices, n)) = ToSet(notices) \cup {n}
    BY OneMore
  <2>2. QED
    BY <1>3, <1>5, <2>1
<1>6. QED
  BY <1>4, <1>5

-----------------------------------------------------------------------------
(* What is on the wire.                                                    *)

\* A sequence that grows by one element.
LEMMA Appended ==
    ASSUME NEW S, NEW s \in Seq(S), NEW x \in S
    PROVE  /\ Append(s, x) \in Seq(S) /\ ToSet(Append(s, x)) = ToSet(s) \cup {x}
           /\ Len(s) \in Nat /\ DOMAIN s = 1..Len(s)
           /\ Len(Append(s, x)) = Len(s) + 1
           /\ DOMAIN Append(s, x) = 1..(Len(s) + 1)
           /\ \A i \in 1..Len(s) : Append(s, x)[i] = s[i]
           /\ Append(s, x)[Len(s) + 1] = x
PROOF
<1>1. Len(s) \in Nat /\ DOMAIN s = 1..Len(s)
  BY LenProperties
<1>2. Append(s, x) \in Seq(S) /\ ToSet(Append(s, x)) = ToSet(s) \cup {x}
  BY OneMore
<1>3. /\ Len(Append(s, x)) = Len(s) + 1
      /\ \A i \in 1..Len(s) : Append(s, x)[i] = s[i]
      /\ Append(s, x)[Len(s) + 1] = x
  BY AppendProperties
<1>4. DOMAIN Append(s, x) = 1..(Len(s) + 1)
  BY <1>2, <1>3, LenProperties
<1>5. QED
  BY <1>1, <1>2, <1>3, <1>4

\* A sequence that loses its head.
LEMMA Taken ==
    ASSUME NEW S, NEW s \in Seq(S), s # <<>>
    PROVE  /\ Tail(s) \in Seq(S) /\ ToSet(s) = {Head(s)} \cup ToSet(Tail(s))
           /\ Head(s) \in S /\ Head(s) = s[1]
           /\ Len(s) \in Nat \ {0} /\ DOMAIN s = 1..Len(s)
           /\ Len(Tail(s)) = Len(s) - 1
           /\ DOMAIN Tail(s) = 1..(Len(s) - 1)
           /\ \A i \in 1..(Len(s) - 1) : Tail(s)[i] = s[i + 1]
PROOF
<1> DEFINE u == Tail(s)
<1>1. Len(s) \in Nat \ {0} /\ DOMAIN s = 1..Len(s) /\ Head(s) = s[1]
  BY LenProperties, EmptySeq
<1>2. /\ u \in Seq(S) /\ Head(s) \in S /\ Len(u) = Len(s) - 1
      /\ \A i \in 1..(Len(s) - 1) : u[i] = s[i + 1]
  BY HeadTailProperties
<1>3. DOMAIN u = 1..(Len(s) - 1)
  BY <1>2, LenProperties
<1> HIDE DEF u
<1>4. ASSUME NEW i \in DOMAIN s PROVE s[i] = s[1] \/ \E j \in DOMAIN u : u[j] = s[i]
  <2>1. CASE i = 1
    BY <2>1
  <2>2. CASE i # 1
    <3>1. i - 1 \in DOMAIN u /\ u[i - 1] = s[(i - 1) + 1] /\ (i - 1) + 1 = i
      BY <1>1, <1>2, <1>3, <2>2
    <3>2. QED
      BY <3>1
  <2>3. QED
    BY <2>1, <2>2
<1>5. ASSUME NEW j \in DOMAIN u PROVE j + 1 \in DOMAIN s /\ s[j + 1] = u[j]
  BY <1>1, <1>2, <1>3
<1>6. ToSet(s) = {s[1]} \cup ToSet(u)
  <2>1. 1 \in DOMAIN s
    BY <1>1
  <2>2. QED
    BY <1>4, <1>5, <2>1 DEF ToSet
<1>7. QED
  BY <1>1, <1>2, <1>3, <1>6 DEF u

\* What a request is about.
LEMMA RequestFacts ==
    ASSUME NEW r \in RequestSet
    PROVE  /\ r.op \in {"tab", "pane", "kill", "order", "sync", "attach"}
           /\ r.op \in {"tab", "pane"} => r.by \in Generations /\ r.arg \in Tabs
           /\ r.op = "kill" => r.arg \in Tabs
           /\ r.op = "order" => r.arg \in Orders
BY DEF RequestSet

\* What the client asks for.
LEMMA RequestTypes ==
    /\ \A g \in Generations, t \in Tabs :
          Request("tab", g, t) \in RequestSet /\ Request("pane", g, t) \in RequestSet
    /\ \A t \in Tabs : Request("kill", 0, t) \in RequestSet
    /\ \A tabs \in Orders : Request("order", 0, tabs) \in RequestSet
    /\ Request("sync", 0, None) \in RequestSet
    /\ Request("attach", 0, None) \in RequestSet
BY DEF RequestSet, Request

LEMMA RequestIs ==
    ASSUME NEW op, NEW by, NEW arg
    PROVE  /\ Request(op, by, arg).op = op /\ Request(op, by, arg).by = by
           /\ Request(op, by, arg).arg = arg
BY DEF Request

LEMMA ReplyIs ==
    ASSUME NEW r, NEW ok, NEW list
    PROVE  /\ Reply(r, ok, list).op = r.op /\ Reply(r, ok, list).by = r.by
           /\ Reply(r, ok, list).ok = ok /\ Reply(r, ok, list).list = list
BY DEF Reply

Lists == [tabs : Orders, active : Tabs]

\* What an answer is about.
LEMMA ReplyFacts ==
    ASSUME NEW r \in ReplySet
    PROVE  /\ r.op \in {"tab", "pane", "kill", "order", "sync", "attach"}
           /\ r.ok \in BOOLEAN
           /\ r.op \in {"tab", "pane"} => r.by \in Generations
           /\ r.op \in {"sync", "attach"} /\ r.ok => r.list \in Lists
           /\ Reply(r, FALSE, None) \in ReplySet
BY DEF ReplySet, Reply, Lists

\* What the server answers.
LEMMA ReplyTypes ==
    ASSUME NEW r \in RequestSet
    PROVE  /\ Reply(r, FALSE, None) \in ReplySet
           /\ r.op \in {"tab", "pane", "kill", "order"} =>
                 \A ok \in BOOLEAN : Reply(r, ok, None) \in ReplySet
           /\ r.op \in {"sync", "attach"} =>
                 \A list \in Lists : Reply(r, TRUE, list) \in ReplySet
BY DEF RequestSet, ReplySet, Reply, Lists

\* What a notification is about.
LEMMA NoticeFacts ==
    ASSUME NEW n \in NoticeSet
    PROVE  /\ n.kind \in {"added", "removed", "order"} /\ n.own \in BOOLEAN
           /\ n.kind \in {"added", "removed"} => n.tab \in Tabs
           /\ n.kind = "order" => n.tabs \in Orders
BY DEF NoticeSet

LEMMA NoticeTypes ==
    /\ \A t \in Tabs : /\ Added(t) \in NoticeSet /\ Added(t).kind = "added"
                       /\ Added(t).tab = t
    /\ \A t \in Tabs : /\ Removed(t) \in NoticeSet /\ Removed(t).tab = t
                       /\ Removed(t).kind = "removed"
    /\ \A tabs \in Orders, own \in BOOLEAN :
          /\ Reordered(tabs, own) \in NoticeSet
          /\ Reordered(tabs, own).kind = "order"
BY DEF NoticeSet, Added, Removed, Reordered

\* Notify: the notification is queued and no other but an older order is lost,
\* or the session is closed, or it is told nothing.
LEMMA NotifyKeeps ==
    ASSUME WireOK, link \in {"up", "down", "gone"}, Len(notices) <= Capacity,
           NEW n \in NoticeSet, Notify(n)
    PROVE  /\ notices' \in Seq(NoticeSet) /\ Len(notices') <= Capacity
           /\ link' = link \/ (link = "up" /\ link' = "gone")
           /\ identified /\ link' = "up" =>
                 /\ n \in ToSet(notices')
                 /\ ToSet(notices') \subseteq ToSet(notices) \cup {n}
                 /\ \A m \in ToSet(notices) :
                       m.kind # "order" => m \in ToSet(notices')
PROOF
<1>1. /\ Queued(n) \in Seq(NoticeSet)
      /\ n \in ToSet(Queued(n))
      /\ ToSet(Queued(n)) \subseteq ToSet(notices) \cup {n}
      /\ \A m \in ToSet(notices) :
            m.kind # "order" => m \in ToSet(Queued(n))
  BY QueuedKeeps DEF WireOK
<1>2. Len(Queued(n)) \in Nat /\ Capacity \in Nat \ {0}
  BY <1>1, LenProperties, ClientAssumption
<1>3. <<>> \in Seq(NoticeSet) /\ Len(<<>>) <= Capacity
  BY <1>2, EmptySeq
<1>4. CASE link # "up" \/ ~identified
  BY <1>4 DEF Notify, WireOK
<1>5. CASE ~(link # "up" \/ ~identified) /\ Len(Queued(n)) > Capacity
  BY <1>3, <1>5 DEF Notify
<1>6. CASE ~(link # "up" \/ ~identified) /\ ~(Len(Queued(n)) > Capacity)
  BY <1>1, <1>2, <1>6 DEF Notify
<1>7. QED
  BY <1>4, <1>5, <1>6

-----------------------------------------------------------------------------
(* A snapshot becomes the client's view.                                   *)

Boxes == [inFlight : BOOLEAN, pending : Intents \cup {None},
          desired : Intents \cup {None}]
Syncs == [stage : {"idle", "list", "status"}, pending : BOOLEAN]

LEMMA IntentFacts ==
    ASSUME NEW i \in Intents
    PROVE  /\ i.generation \in Generations /\ i.tab \in Tabs
           /\ i.acknowledged \in BOOLEAN /\ i # None
BY NoneAssumption DEF Intents

LEMMA BoxFacts ==
    ASSUME NEW box \in Boxes
    PROVE  /\ box.inFlight \in BOOLEAN
           /\ box.pending # None => box.pending \in Intents
           /\ box.desired # None => box.desired \in Intents
           /\ [box EXCEPT !.desired = None] \in Boxes
           /\ [box EXCEPT !.desired = None].desired = None
           /\ [box EXCEPT !.desired = None].pending = box.pending
           /\ [box EXCEPT !.desired = None].inFlight = box.inFlight
BY DEF Boxes

LEMMA NoEntryIs ==
    /\ NoEntry \in Boxes /\ NoEntry.desired = None /\ NoEntry.pending = None
    /\ NoEntry.inFlight = FALSE
BY DEF Boxes, NoEntry

\* reconcile forgets an acknowledged intent that the snapshot confirms, and
\* nothing else.
LEMMA ReconcileIs ==
    ASSUME NEW box \in Boxes, NEW seen \in Tabs
    PROVE  LET after == AfterReconcile(box, seen)
           IN  /\ after \in Boxes /\ Reconciled(after, seen) \in Tabs
               /\ \/ after = box
                  \/ /\ box.desired # None /\ box.desired.acknowledged
                     /\ box.desired.tab = seen /\ after.desired = None
                     /\ after.pending = box.pending
                     /\ after.inFlight = box.inFlight
               /\ Reconciled(after, seen) =
                      IF box.desired = None THEN seen ELSE box.desired.tab
PROOF
<1> DEFINE after == AfterReconcile(box, seen)
<1>1. CASE /\ box.desired # None /\ box.desired.acknowledged
           /\ box.desired.tab = seen
  <2>1. after = [box EXCEPT !.desired = None]
    BY <1>1 DEF AfterReconcile
  <2>2. QED
    BY <1>1, <2>1, BoxFacts DEF Reconciled
<1>2. CASE ~(/\ box.desired # None /\ box.desired.acknowledged
             /\ box.desired.tab = seen)
  <2>1. after = box
    BY <1>2 DEF AfterReconcile
  <2>2. box.desired # None => box.desired.tab \in Tabs
    BY BoxFacts, IntentFacts
  <2>3. QED
    BY <2>1, <2>2 DEF Reconciled
<1>3. QED
  BY <1>1, <1>2

\* process_pane_list adds the tabs that are new and drops none from the
\* window; it gives up the intent only for a tab that is gone.
LEMMA ProcessKeeps ==
    ASSUME view \in Views, outbox \in Boxes, focused \in Tabs \cup {None},
           NEW list \in Lists, ProcessPaneList(list)
    PROVE  LET box == AfterReconcile(outbox, list.active)
               wanted == Reconciled(box, list.active)
           IN  /\ view' \in Views /\ known' = ToSet(list.tabs)
               /\ ToSet(view'.tabs) = ToSet(view.tabs) \cup ToSet(list.tabs)
               /\ outbox' \in Boxes /\ focused' \in {focused, None}
               /\ wanted \notin known \ ToSet(list.tabs) =>
                     /\ outbox' = box /\ focused' = focused
                     /\ view'.active \in {view.active, wanted}
               /\ wanted \in known \ ToSet(list.tabs) =>
                     /\ outbox' = NoEntry
                     /\ box.desired # None /\ box.desired.tab = focused =>
                           focused' = None
PROOF
<1> DEFINE listed == ToSet(list.tabs)
           forget == known \ listed
           missing == Only(list.tabs, Tabs \ ToSet(view.tabs))
           tabs == view.tabs \o missing
           placed == IF Len(list.tabs) < 2 THEN tabs
                     ELSE ApplyOrder(tabs, list.tabs)
           box == AfterReconcile(outbox, list.active)
           wanted == Reconciled(box, list.active)
           dropped == wanted \in forget
           show == IF dropped THEN list.active ELSE wanted
           shown == show \in known \cup listed /\ show \in ToSet(placed)
           filled == [view EXCEPT !.tabs = placed]
<1>1. /\ view' = IF shown THEN SetActive(filled, show) ELSE filled
      /\ known' = listed
      /\ IF dropped THEN AbortIntent(box)
                    ELSE outbox' = box /\ UNCHANGED focused
  BY DEF ProcessPaneList
<1>2. list.tabs \in Orders /\ list.active \in Tabs /\ view.tabs \in Orders
  BY DEF Lists, Views
<1>3. listed \subseteq Tabs
  BY <1>2, OrderFacts
<1>4. missing \in Orders /\ ToSet(missing) = listed \ ToSet(view.tabs)
  <2>1. /\ missing \in Orders
        /\ ToSet(missing) = listed \cap (Tabs \ ToSet(view.tabs))
    BY <1>2, OnlyOrder
  <2>2. QED
    BY <1>3, <2>1
<1> HIDE DEF missing, listed
<1>5. tabs \in Orders /\ ToSet(tabs) = ToSet(view.tabs) \cup listed
  <2>1. ToSet(view.tabs) \cap ToSet(missing) = {}
    BY <1>4
  <2>2. tabs \in Orders /\ ToSet(tabs) = ToSet(view.tabs) \cup ToSet(missing)
    BY <1>2, <1>4, <2>1, Joined
  <2>3. QED
    BY <1>4, <2>2
<1> HIDE DEF tabs
<1>6. placed \in Orders /\ ToSet(placed) = ToSet(view.tabs) \cup listed
  <2>1. ToSet(list.tabs) \subseteq ToSet(tabs)
    BY <1>5 DEF listed
  <2>2. /\ ApplyOrder(tabs, list.tabs) \in Orders
        /\ ToSet(ApplyOrder(tabs, list.tabs)) = ToSet(tabs)
    BY <1>2, <1>5, <2>1, ApplyOrderKeeps
  <2>3. QED
    BY <1>5, <2>2
<1> HIDE DEF placed
<1>7. /\ filled \in Views /\ filled.tabs = placed
      /\ filled.active = view.active
  BY <1>6, TabsReplaced
<1>8. box \in Boxes /\ wanted \in Tabs
  BY <1>2, ReconcileIs
<1> HIDE DEF box, wanted, filled
<1>9. show \in Tabs
  BY <1>2, <1>8
<1>10. /\ SetActive(filled, show) \in Views
       /\ SetActive(filled, show).tabs = filled.tabs
       /\ SetActive(filled, show).active = show
  BY <1>7, <1>9, SetActiveKeeps
<1>11. view' \in Views /\ view'.tabs = placed
  BY <1>1, <1>7, <1>10
<1>12. outbox' \in Boxes /\ focused' \in {focused, None}
  BY <1>1, <1>8, NoEntryIs DEF AbortIntent
<1>13. ~dropped => /\ outbox' = box /\ focused' = focused
                   /\ view'.active \in {view.active, wanted}
  BY <1>1, <1>7, <1>10
<1>14. dropped => /\ outbox' = NoEntry
                  /\ box.desired # None /\ box.desired.tab = focused =>
                        focused' = None
  BY <1>1 DEF AbortIntent
<1>15. QED
  BY <1>1, <1>6, <1>11, <1>12, <1>13, <1>14 DEF box, wanted, listed

\* A resync starts, or the one that runs is asked to run again.
LEMMA Resyncs ==
    ASSUME sync \in Syncs, NEW sent \in Seq(RequestSet), ResyncStep(sent)
    PROVE  /\ sync' \in Syncs /\ requests' \in Seq(RequestSet)
           /\ sync.stage # "idle" =>
                 /\ requests' = sent
                 /\ sync'.stage = sync.stage /\ sync'.pending
           /\ sync.stage = "idle" =>
                 /\ requests' = Append(sent, Request("sync", 0, None))
                 /\ sync'.stage = "list"
PROOF
<1>1. CASE sync.stage # "idle"
  BY <1>1 DEF ResyncStep, Syncs
<1>2. CASE sync.stage = "idle"
  <2>1. Append(sent, Request("sync", 0, None)) \in Seq(RequestSet)
    BY RequestTypes, Appended
  <2>2. /\ sync' = [stage |-> "list", pending |-> FALSE]
        /\ requests' = Append(sent, Request("sync", 0, None))
    BY <1>2 DEF ResyncStep
  <2>3. sync' \in Syncs /\ sync'.stage = "list"
    BY <2>2 DEF Syncs
  <2>4. QED
    BY <1>2, <2>1, <2>2, <2>3
<1>3. QED
  BY <1>1, <1>2

-----------------------------------------------------------------------------
(* Types, and a tab that is left at the server.                            *)

Base == TypeOK /\ WireOK /\ OneIsLeft

\* The conjuncts of TypeOK, with the sets of records named.
LEMMA Typed ==
    TypeOK <=>
        /\ server \in Views /\ view \in Views
        /\ server.tabs # <<>> /\ server.active \in used
        /\ ToSet(server.tabs) \subseteq used /\ used \subseteq Tabs
        /\ Len(notices) <= Capacity
        /\ identified \in BOOLEAN /\ link \in {"up", "down", "gone"}
        /\ known \subseteq Tabs /\ focused \in Tabs \cup {None}
        /\ outbox \in Boxes /\ generation \in 0..MaxChoices
        /\ flush \in [Generations -> Intents \cup {None}]
        /\ order \in [inFlight : BOOLEAN, pending : Orders \cup {None}]
        /\ sync \in Syncs
        /\ scheduled \in Nat /\ choice \in Tabs \cup {None}
        /\ events \in 0..MaxEvents
BY DEF TypeOK, Boxes, Syncs

LEMMA TypedNext ==
    TypeOK' <=>
        /\ server' \in Views /\ view' \in Views
        /\ server'.tabs # <<>> /\ server'.active \in used'
        /\ ToSet(server'.tabs) \subseteq used' /\ used' \subseteq Tabs
        /\ Len(notices') <= Capacity
        /\ identified' \in BOOLEAN /\ link' \in {"up", "down", "gone"}
        /\ known' \subseteq Tabs /\ focused' \in Tabs \cup {None}
        /\ outbox' \in Boxes /\ generation' \in 0..MaxChoices
        /\ flush' \in [Generations -> Intents \cup {None}]
        /\ order' \in [inFlight : BOOLEAN, pending : Orders \cup {None}]
        /\ sync' \in Syncs
        /\ scheduled' \in Nat /\ choice' \in Tabs \cup {None}
        /\ events' \in 0..MaxEvents
BY DEF TypeOK, Boxes, Syncs

LEMMA ViewFacts ==
    ASSUME NEW w \in Views
    PROVE  /\ w.tabs \in Orders /\ w.active \in Tabs \cup {None}
           /\ ToSet(w.tabs) \subseteq Tabs /\ (w.tabs # <<>> <=> ToSet(w.tabs) # {})
PROOF
<1>1. w.tabs \in Orders /\ w.active \in Tabs \cup {None}
  BY DEF Views
<1>2. QED
  BY <1>1, OrderFacts

\* A change is counted while there are some left.
LEMMA CountedIs ==
    ASSUME TypeOK, Counted
    PROVE  events' \in 0..MaxEvents
PROOF
<1>1. events \in 0..MaxEvents /\ generation \in 0..MaxChoices /\ MaxEvents \in Nat
      /\ MaxChoices \in Nat
  BY Typed, ClientAssumption
<1>2. QED
  BY <1>1 DEF Counted

\* Requests that close no tab leave a tab at the server.
LEMMA LeftAlone ==
    ASSUME OneIsLeft, ToSet(server.tabs) \subseteq ToSet(server'.tabs),
           \A r \in ToSet(requests') : r \in ToSet(requests) \/ r.op # "kill"
    PROVE  OneIsLeft'
BY DEF OneIsLeft

\* A tab that may be closed is not the last that is left.
LEMMA LeftOver ==
    ASSUME Base, NEW t, MayClose(t)
    PROVE  \E u \in ToSet(server.tabs) \ {t} : \A r \in ToSet(requests) :
               r.op = "kill" => r.arg # u
PROOF
<1> DEFINE asked == {i \in DOMAIN requests : requests[i].op = "kill"}
           closed == {t} \cup (used \ ToSet(server.tabs))
                         \cup {requests[i].arg : i \in asked}
<1>1. PICK u \in used : u \notin closed
  BY DEF MayClose
<1>2. u # t /\ u \in ToSet(server.tabs)
  BY <1>1
<1>3. ASSUME NEW r \in ToSet(requests), r.op = "kill" PROVE r.arg # u
  <2>1. PICK i \in DOMAIN requests : requests[i] = r
    BY DEF ToSet
  <2>2. i \in asked
    BY <1>3, <2>1
  <2>3. requests[i].arg \in closed
    BY <2>2
  <2>4. QED
    BY <1>1, <2>1, <2>3
<1>4. QED
  BY <1>2, <1>3

LEMMA OpenTabBase ==
    ASSUME Base, NEW t \in Tabs, OpenTab(t)
    PROVE  /\ Base' /\ server'.active = server.active
           /\ ToSet(server'.tabs) = ToSet(server.tabs) \cup {t}
PROOF
<1> USE DEF Base
<1>1. /\ t \notin used /\ server' = [server EXCEPT !.tabs = Append(@, t)]
      /\ used' = used \cup {t} /\ Notify(Added(t)) /\ Counted
      /\ UNCHANGED <<identified, requests, replies, view, known,
                     focusVars, order, syncVars, choice>>
  BY DEF OpenTab
<1>2. server.tabs \in Orders /\ t \notin ToSet(server.tabs)
  BY <1>1, Typed, ViewFacts
<1>3. /\ Append(server.tabs, t) \in Orders /\ Append(server.tabs, t) # <<>>
      /\ ToSet(Append(server.tabs, t)) = ToSet(server.tabs) \cup {t}
  BY <1>2, TabAdded
<1>4. /\ server' \in Views /\ server'.tabs = Append(server.tabs, t)
      /\ server'.active = server.active
  BY <1>1, <1>3, Typed, TabsReplaced
<1>5. /\ notices' \in Seq(NoticeSet) /\ Len(notices') <= Capacity
      /\ link' \in {"up", "down", "gone"}
  <2>1. Added(t) \in NoticeSet
    BY NoticeTypes
  <2>2. QED
    BY <1>1, <2>1, Typed, NotifyKeeps
<1>6. TypeOK'
  BY <1>1, <1>3, <1>4, <1>5, Typed, TypedNext, CountedIs
     DEF focusVars, syncVars
<1>7. WireOK'
  BY <1>1, <1>5 DEF WireOK
<1>8. OneIsLeft'
  BY <1>1, <1>3, <1>4, LeftAlone
<1>9. QED
  BY <1>3, <1>4, <1>6, <1>7, <1>8

\* A tab goes at the server.
LEMMA RemovePaneKeeps ==
    ASSUME Base, NEW t \in Tabs, RemovePane(t), ToSet(server.tabs) \ {t} # {}
    PROVE  /\ server' \in Views /\ server'.tabs # <<>>
           /\ server'.active = server.active
           /\ ToSet(server'.tabs) = ToSet(server.tabs) \ {t}
           /\ notices' \in Seq(NoticeSet) /\ Len(notices') <= Capacity
           /\ link' \in {"up", "down", "gone"}
           /\ choice' \in Tabs \cup {None}
PROOF
<1> USE DEF Base
<1>1. /\ server' = PruneTab(server, t) /\ Notify(Removed(t))
      /\ choice' = IF choice = t THEN None ELSE choice
  BY DEF RemovePane
<1>2. /\ server' \in Views /\ ToSet(server'.tabs) = ToSet(server.tabs) \ {t}
      /\ server'.active = server.active
  BY <1>1, Typed, PruneTabKeeps
<1>3. server'.tabs # <<>>
  BY <1>2, ViewFacts
<1>4. /\ notices' \in Seq(NoticeSet) /\ Len(notices') <= Capacity
      /\ link' \in {"up", "down", "gone"}
  <2>1. Removed(t) \in NoticeSet
    BY NoticeTypes
  <2>2. QED
    BY <1>1, <2>1, Typed, NotifyKeeps
<1>5. QED
  BY <1>1, <1>2, <1>3, <1>4, Typed

LEMMA CloseTabBase ==
    ASSUME Base, NEW t \in Tabs, CloseTab(t)
    PROVE  /\ Base' /\ server'.active = server.active
           /\ ToSet(server'.tabs) = ToSet(server.tabs) \ {t}
PROOF
<1> USE DEF Base
<1>1. /\ MayClose(t) /\ Counted /\ RemovePane(t)
      /\ UNCHANGED <<used, identified, requests, replies, view, known,
                     focusVars, order, syncVars>>
  BY DEF CloseTab
<1>2. PICK u \in ToSet(server.tabs) \ {t} :
          \A r \in ToSet(requests) : r.op = "kill" => r.arg # u
  BY <1>1, LeftOver
<1>3. /\ server' \in Views /\ server'.tabs # <<>>
      /\ server'.active = server.active
      /\ ToSet(server'.tabs) = ToSet(server.tabs) \ {t}
      /\ notices' \in Seq(NoticeSet) /\ Len(notices') <= Capacity
      /\ link' \in {"up", "down", "gone"} /\ choice' \in Tabs \cup {None}
  BY <1>1, <1>2, RemovePaneKeeps
<1>4. TypeOK'
  BY <1>1, <1>3, Typed, TypedNext, CountedIs DEF focusVars, syncVars
<1>5. WireOK'
  BY <1>1, <1>3 DEF WireOK
<1>6. OneIsLeft'
  BY <1>1, <1>2, <1>3 DEF OneIsLeft
<1>7. QED
  BY <1>3, <1>4, <1>5, <1>6

LEMMA OtherMovesBase ==
    ASSUME Base, OtherMoves
    PROVE  Base' /\ ToSet(server'.tabs) = ToSet(server.tabs)
                 /\ server'.active = server.active
PROOF
<1> USE DEF Base
<1> DEFINE tabs == Append(Tail(server.tabs), Head(server.tabs))
<1>1. /\ Counted /\ server' = [server EXCEPT !.tabs = tabs]
      /\ Notify(Reordered(tabs, FALSE))
      /\ UNCHANGED <<used, identified, requests, replies, view, known,
                     focusVars, order, syncVars, choice>>
  BY DEF OtherMoves
<1>2. tabs \in Orders /\ ToSet(tabs) = ToSet(server.tabs) /\ tabs # <<>>
  BY Typed, ViewFacts, Rotated
<1> HIDE DEF tabs
<1>3. /\ server' \in Views /\ server'.tabs = tabs
      /\ server'.active = server.active
  BY <1>1, <1>2, Typed, TabsReplaced
<1>4. /\ notices' \in Seq(NoticeSet) /\ Len(notices') <= Capacity
      /\ link' \in {"up", "down", "gone"}
  <2>1. Reordered(tabs, FALSE) \in NoticeSet
    BY <1>2, NoticeTypes
  <2>2. QED
    BY <1>1, <2>1, Typed, NotifyKeeps
<1>5. TypeOK'
  BY <1>1, <1>2, <1>3, <1>4, Typed, TypedNext, CountedIs
     DEF focusVars, syncVars
<1>6. WireOK'
  BY <1>1, <1>4 DEF WireOK
<1>7. OneIsLeft'
  BY <1>1, <1>2, <1>3, LeftAlone
<1>8. QED
  BY <1>2, <1>3, <1>5, <1>6, <1>7

\* A choice is queued: a task starts with it, or one will take it next.
LEMMA QueueActiveKeeps ==
    ASSUME TypeOK, WireOK, NEW t \in Tabs, generation < MaxChoices,
           QueueActive(t)
    PROVE  LET new == generation + 1
               intent == [generation |-> new, tab |-> t, acknowledged |-> FALSE]
           IN  /\ generation' = new /\ new \in Generations /\ intent \in Intents
               /\ outbox' \in Boxes /\ outbox'.inFlight /\ outbox'.desired = intent
               /\ outbox.inFlight =>
                     /\ outbox'.pending = intent
                     /\ flush' = flush /\ requests' = requests
               /\ ~outbox.inFlight =>
                     /\ outbox'.pending = None
                     /\ flush' = [flush EXCEPT ![new] = intent]
                     /\ requests' = Append(requests, Request("tab", new, t))
               /\ flush' \in [Generations -> Intents \cup {None}]
               /\ requests' \in Seq(RequestSet)
               /\ \A r \in ToSet(requests') :
                     r \in ToSet(requests) \/ r.op # "kill"
PROOF
<1> DEFINE new == generation + 1
           intent == [generation |-> new, tab |-> t, acknowledged |-> FALSE]
           sent == Request("tab", new, t)
<1>1. generation' = new /\ new \in Generations
  <2>1. generation \in 0..MaxChoices /\ MaxChoices \in Nat
    BY Typed, ClientAssumption
  <2>2. QED
    BY <2>1 DEF QueueActive, Generations
<1>2. intent \in Intents
  BY <1>1 DEF Intents
<1>3. CASE outbox.inFlight
  <2>1. /\ outbox' = [outbox EXCEPT !.pending = intent, !.desired = intent]
        /\ flush' = flush /\ requests' = requests
    BY <1>3 DEF QueueActive
  <2> HIDE DEF intent
  <2>2. /\ outbox' \in Boxes /\ outbox'.inFlight /\ outbox'.desired = intent
        /\ outbox'.pending = intent
    BY <1>2, <1>3, <2>1, Typed DEF Boxes
  <2>3. QED
    BY <1>1, <1>2, <1>3, <2>1, <2>2, Typed DEF WireOK, intent
<1>4. CASE ~outbox.inFlight
  <2>1. /\ outbox' = [inFlight |-> TRUE, pending |-> None, desired |-> intent]
        /\ flush' = [flush EXCEPT ![new] = intent]
        /\ requests' = Append(requests, sent)
    BY <1>4 DEF QueueActive
  <2> HIDE DEF intent
  <2>2. /\ outbox' \in Boxes /\ outbox'.inFlight /\ outbox'.desired = intent
        /\ outbox'.pending = None
    BY <1>2, <2>1 DEF Boxes
  <2>3. flush' \in [Generations -> Intents \cup {None}]
    BY <1>1, <1>2, <2>1, Typed
  <2>4. sent \in RequestSet /\ sent.op = "tab"
    BY <1>1, RequestTypes, RequestIs
  <2>5. /\ requests' \in Seq(RequestSet)
        /\ ToSet(requests') = ToSet(requests) \cup {sent}
    BY <2>1, <2>4, Appended DEF WireOK
  <2>6. QED
    BY <1>1, <1>2, <1>4, <2>1, <2>2, <2>3, <2>4, <2>5 DEF intent
<1>5. QED
  BY <1>3, <1>4

LEMMA ChooseTabBase ==
    ASSUME Base, NEW t \in Tabs, ChooseTab(t)
    PROVE  Base'
PROOF
<1> USE DEF Base
<1>1. /\ generation < MaxChoices /\ view' = SetActive(view, t) /\ focused' = t
      /\ choice' = IF t \in ToSet(server.tabs) THEN t ELSE None
      /\ IF focused # t /\ t \in known
         THEN QueueActive(t)
         ELSE UNCHANGED <<outbox, generation, flush, requests>>
      /\ UNCHANGED <<serverVars, notices, identified, link, replies,
                     known, order, syncVars, events>>
  BY DEF ChooseTab
<1>2. view' \in Views
  BY <1>1, Typed, SetActiveKeeps
<1>3. /\ generation' \in 0..MaxChoices /\ outbox' \in Boxes
      /\ flush' \in [Generations -> Intents \cup {None}]
      /\ requests' \in Seq(RequestSet)
      /\ \A r \in ToSet(requests') : r \in ToSet(requests) \/ r.op # "kill"
  <2>1. CASE focused # t /\ t \in known
    <3>1. /\ generation' \in Generations /\ outbox' \in Boxes
          /\ flush' \in [Generations -> Intents \cup {None}]
          /\ requests' \in Seq(RequestSet)
          /\ \A r \in ToSet(requests') : r \in ToSet(requests) \/ r.op # "kill"
      BY <1>1, <2>1, QueueActiveKeeps
    <3>2. generation' \in 0..MaxChoices
      BY <3>1, ClientAssumption DEF Generations
    <3>3. QED
      BY <3>1, <3>2
  <2>2. CASE ~(focused # t /\ t \in known)
    BY <1>1, <2>2, Typed DEF WireOK
  <2>3. QED
    BY <2>1, <2>2
<1>4. TypeOK'
  BY <1>1, <1>2, <1>3, Typed, TypedNext DEF serverVars, syncVars
<1>5. WireOK'
  BY <1>1, <1>3 DEF WireOK
<1>6. OneIsLeft'
  BY <1>1, <1>3, LeftAlone DEF serverVars
<1>7. QED
  BY <1>4, <1>5, <1>6

LEMMA MoveTabBase ==
    ASSUME Base, MoveTab
    PROVE  /\ Base' /\ ToSet(view'.tabs) = ToSet(view.tabs)
           /\ view'.active = view.active
           /\ \/ requests' = requests
              \/ \E tabs \in Orders :
                    requests' = Append(requests, Request("order", 0, tabs))
PROOF
<1> USE DEF Base
<1> DEFINE tabs == Append(Tail(view.tabs), Head(view.tabs))
           mine == Only(tabs, known)
           sends == ToSet(mine) = known /\ known # {}
<1>1. /\ Len(view.tabs) > 1 /\ Counted /\ view' = [view EXCEPT !.tabs = tabs]
      /\ order' = IF ~sends THEN order
                  ELSE [inFlight |-> TRUE,
                        pending |-> IF order.inFlight THEN mine ELSE None]
      /\ requests' = IF sends /\ ~order.inFlight
                     THEN Append(requests, Request("order", 0, mine))
                     ELSE requests
      /\ UNCHANGED <<serverVars, notices, identified, link, replies,
                     known, focusVars, syncVars, choice>>
  BY DEF MoveTab
<1>2. view.tabs \in Orders /\ view.tabs # <<>>
  <2>1. view.tabs \in Orders
    BY Typed, ViewFacts
  <2>2. view.tabs # <<>>
    BY <1>1, EmptySeq
  <2>3. QED
    BY <2>1, <2>2
<1>3. tabs \in Orders /\ ToSet(tabs) = ToSet(view.tabs)
  BY <1>2, Rotated
<1> HIDE DEF tabs
<1>4. mine \in Orders
  BY <1>3, OnlyOrder
<1> HIDE DEF mine
<1>5. view' \in Views /\ view'.tabs = tabs /\ view'.active = view.active
  BY <1>1, <1>3, Typed, TabsReplaced
<1>6. order' \in [inFlight : BOOLEAN, pending : Orders \cup {None}]
  BY <1>1, <1>4, Typed
<1>7. /\ Request("order", 0, mine) \in RequestSet
      /\ Request("order", 0, mine).op = "order"
  BY <1>4, RequestTypes, RequestIs
<1>8. /\ requests' \in Seq(RequestSet)
      /\ \A r \in ToSet(requests') : r \in ToSet(requests) \/ r.op # "kill"
  <2>1. /\ Append(requests, Request("order", 0, mine)) \in Seq(RequestSet)
        /\ ToSet(Append(requests, Request("order", 0, mine)))
               = ToSet(requests) \cup {Request("order", 0, mine)}
    BY <1>7, Appended DEF WireOK
  <2>2. QED
    BY <1>1, <1>7, <2>1 DEF WireOK
<1>9. TypeOK'
  BY <1>1, <1>5, <1>6, Typed, TypedNext, CountedIs
     DEF serverVars, focusVars, syncVars
<1>10. WireOK'
  BY <1>1, <1>8 DEF WireOK
<1>11. OneIsLeft'
  BY <1>1, <1>8, LeftAlone DEF serverVars
<1>12. QED
  BY <1>1, <1>3, <1>4, <1>5, <1>9, <1>10, <1>11

LEMMA CloseOwnTabBase ==
    ASSUME Base, NEW t \in Tabs, CloseOwnTab(t)
    PROVE  Base'
PROOF
<1> USE DEF Base
<1> DEFINE sent == Request("kill", 0, t)
<1>1. /\ t \in ToSet(view.tabs) /\ MayClose(t) /\ Counted
      /\ view' = RemoveTab(view, t) /\ requests' = Append(requests, sent)
      /\ choice' = IF choice = t THEN None ELSE choice
      /\ UNCHANGED <<serverVars, notices, identified, link, replies,
                     known, focusVars, order, syncVars>>
  BY DEF CloseOwnTab
<1>2. view' \in Views
  BY <1>1, Typed, RemoveTabKeeps
<1>3. sent \in RequestSet /\ sent.arg = t
  BY RequestTypes, RequestIs
<1>4. /\ requests' \in Seq(RequestSet)
      /\ ToSet(requests') = ToSet(requests) \cup {sent}
  BY <1>1, <1>3, Appended DEF WireOK
<1> HIDE DEF sent
<1>5. PICK u \in ToSet(server.tabs) \ {t} :
          \A r \in ToSet(requests) : r.op = "kill" => r.arg # u
  BY <1>1, LeftOver
<1>6. TypeOK'
  BY <1>1, <1>2, Typed, TypedNext, CountedIs
     DEF serverVars, focusVars, syncVars
<1>7. WireOK'
  BY <1>1, <1>4 DEF WireOK
<1>8. OneIsLeft'
  BY <1>1, <1>3, <1>4, <1>5 DEF OneIsLeft, serverVars
<1>9. QED
  BY <1>6, <1>7, <1>8

\* Asking for a snapshot closes nothing.
LEMMA SyncSent ==
    ASSUME requests \in Seq(RequestSet),
           \/ requests' = requests
           \/ requests' = Append(requests, Request("sync", 0, None))
    PROVE  /\ requests' \in Seq(RequestSet)
           /\ \A r \in ToSet(requests') : r \in ToSet(requests) \/ r.op # "kill"
PROOF
<1> DEFINE sent == Request("sync", 0, None)
<1>1. sent \in RequestSet /\ sent.op = "sync"
  BY RequestTypes, RequestIs
<1>2. /\ Append(requests, sent) \in Seq(RequestSet)
      /\ ToSet(Append(requests, sent)) = ToSet(requests) \cup {sent}
  BY <1>1, Appended
<1>3. QED
  BY <1>1, <1>2

LEMMA RunScheduledBase ==
    ASSUME Base, RunScheduled
    PROVE  Base'
PROOF
<1> USE DEF Base
<1>1. /\ scheduled > 0 /\ scheduled' = scheduled - 1 /\ ResyncStep(requests)
      /\ UNCHANGED <<serverVars, notices, identified, link, replies,
                     view, known, focusVars, order, choice, events>>
  BY DEF RunScheduled
<1>2. sync \in Syncs /\ requests \in Seq(RequestSet)
  BY Typed DEF WireOK
<1>3. /\ sync' \in Syncs
      /\ \/ requests' = requests
         \/ requests' = Append(requests, Request("sync", 0, None))
  BY <1>1, <1>2, Resyncs
<1>4. /\ requests' \in Seq(RequestSet)
      /\ \A r \in ToSet(requests') : r \in ToSet(requests) \/ r.op # "kill"
  BY <1>2, <1>3, SyncSent
<1>5. scheduled' \in Nat
  BY <1>1, Typed
<1>6. TypeOK'
  BY <1>1, <1>3, <1>5, Typed, TypedNext DEF serverVars, focusVars
<1>7. WireOK'
  BY <1>1, <1>4 DEF WireOK
<1>8. OneIsLeft'
  BY <1>1, <1>4, LeftAlone DEF serverVars
<1>9. QED
  BY <1>6, <1>7, <1>8

LEMMA FinishResyncBase ==
    ASSUME Base, FinishResync
    PROVE  Base'
PROOF
<1> USE DEF Base
<1>1. /\ sync' \in Syncs
      /\ \/ requests' = requests
         \/ requests' = Append(requests, Request("sync", 0, None))
      /\ UNCHANGED <<serverVars, notices, identified, link, replies,
                     view, known, focusVars, order, scheduled, choice, events>>
  <2>1. CASE sync.pending
    <3>1. /\ sync' = [stage |-> "list", pending |-> FALSE]
          /\ requests' = Append(requests, Request("sync", 0, None))
      BY <2>1 DEF FinishResync
    <3>2. sync' \in Syncs
      BY <3>1 DEF Syncs
    <3>3. QED
      BY <3>1, <3>2 DEF FinishResync
  <2>2. CASE ~sync.pending
    <3>1. /\ sync' = [stage |-> "idle", pending |-> FALSE]
          /\ requests' = requests
      BY <2>2 DEF FinishResync
    <3>2. sync' \in Syncs
      BY <3>1 DEF Syncs
    <3>3. QED
      BY <3>1, <3>2 DEF FinishResync
  <2>3. QED
    BY <2>1, <2>2
<1>2. /\ requests' \in Seq(RequestSet)
      /\ \A r \in ToSet(requests') : r \in ToSet(requests) \/ r.op # "kill"
  BY <1>1, SyncSent DEF WireOK
<1>3. TypeOK'
  BY <1>1, Typed, TypedNext DEF serverVars, focusVars
<1>4. WireOK'
  BY <1>1, <1>2 DEF WireOK
<1>5. OneIsLeft'
  BY <1>1, <1>2, LeftAlone DEF serverVars
<1>6. QED
  BY <1>3, <1>4, <1>5

\* The server handles the oldest request: the answer takes its place in the
\* line, and what the request asks for is done or refused.
Handled(r, a) ==
    /\ r \in RequestSet /\ a \in ReplySet /\ a.op = r.op /\ a.by = r.by
    /\ replies' = Append(replies, a) /\ requests' = Tail(requests)
    /\ server' \in Views /\ server'.tabs # <<>> /\ server'.active \in used
    /\ notices' \in Seq(NoticeSet) /\ Len(notices') <= Capacity
    /\ link' \in {"up", "gone"}
    /\ r.op = "kill" => /\ ToSet(server'.tabs) = ToSet(server.tabs) \ {r.arg}
                        /\ choice' \in {choice, None}
                        /\ choice = r.arg /\ r.arg \in ToSet(server.tabs) =>
                              choice' = None
    /\ r.op # "kill" => /\ ToSet(server'.tabs) = ToSet(server.tabs)
                        /\ choice' = choice
    /\ r.op \in {"tab", "pane"} /\ a.ok =>
          /\ identified /\ r.arg \in ToSet(server.tabs)
          /\ server'.active = r.arg
    /\ r.op \in {"tab", "pane"} /\ ~a.ok => server'.active = server.active
    /\ r.op \notin {"tab", "pane"} => server'.active = server.active
    /\ r.op \in {"sync", "attach"} =>
          /\ a.ok /\ a.list.tabs = server.tabs
          /\ identified => a.list.active = server.active
    /\ identified /\ link' = "up" =>
          /\ \A n \in ToSet(notices) : n.kind # "order" => n \in ToSet(notices')
          /\ \A n \in ToSet(notices') :
                \/ n \in ToSet(notices)
                \/ n.kind = "order"
                \/ /\ n.kind = "removed" /\ r.op = "kill" /\ n.tab = r.arg
                   /\ n.tab \in ToSet(server.tabs)

LEMMA ServeIs ==
    ASSUME Base, Serve
    PROVE  /\ \E a \in ReplySet : Handled(Head(requests), a)
           /\ requests # <<>> /\ link = "up"
           /\ UNCHANGED <<used, identified, view, known, focusVars, order,
                          syncVars, events>>
PROOF
<1> USE DEF Base
<1> DEFINE r == Head(requests)
<1>1. /\ link = "up" /\ requests # <<>> /\ requests' = Tail(requests)
      /\ UNCHANGED <<used, identified, view, known, focusVars, order,
                     syncVars, events>>
      /\ \/ HandleKill(r)
         \/ /\ HandleActivate(r) \/ HandleOrder(r) \/ HandleList(r)
            /\ UNCHANGED choice
  BY DEF Serve
<1>2. r \in RequestSet /\ r \in ToSet(requests)
  BY <1>1, Taken DEF WireOK
<1>3. /\ server \in Views /\ server.tabs \in Orders /\ server.tabs # <<>>
      /\ server.active \in used /\ ToSet(server.tabs) \subseteq used
      /\ used \subseteq Tabs /\ notices \in Seq(NoticeSet)
      /\ Len(notices) <= Capacity
  BY Typed, ViewFacts DEF WireOK
<1> HIDE DEF r
<1>4. CASE HandleKill(r)
  <2> DEFINE ok == r.arg \in ToSet(server.tabs)
             a == Reply(r, ok, None)
  <2>1. r.op = "kill" /\ replies' = Append(replies, a)
    BY <1>4 DEF HandleKill, Answer
  <2>2. a \in ReplySet /\ a.op = r.op /\ a.by = r.by
    <3>1. a \in ReplySet
      <4>1. ok \in BOOLEAN
        OBVIOUS
      <4> HIDE DEF ok
      <4>2. QED
        BY <1>2, <2>1, <4>1, ReplyTypes
    <3>2. QED
      BY <3>1, ReplyIs
  <2>3. r.arg \in Tabs
    BY <1>2, <2>1, RequestFacts
  <2>4. CASE ok
    <3>1. RemovePane(r.arg)
      BY <1>4, <2>4 DEF HandleKill
    <3>2. ToSet(server.tabs) \ {r.arg} # {}
      BY <1>2, <2>1 DEF OneIsLeft
    <3>3. /\ server' \in Views /\ server'.tabs # <<>>
          /\ server'.active = server.active
          /\ ToSet(server'.tabs) = ToSet(server.tabs) \ {r.arg}
      BY <2>3, <3>1, <3>2, RemovePaneKeeps
    <3>4. /\ Removed(r.arg) \in NoticeSet /\ Removed(r.arg).kind = "removed"
          /\ Removed(r.arg).tab = r.arg
      BY <2>3, NoticeTypes
    <3>5. /\ notices' \in Seq(NoticeSet) /\ Len(notices') <= Capacity
          /\ link' = link \/ (link = "up" /\ link' = "gone")
          /\ identified /\ link' = "up" =>
                /\ ToSet(notices') \subseteq ToSet(notices) \cup {Removed(r.arg)}
                /\ \A m \in ToSet(notices) :
                      m.kind # "order" => m \in ToSet(notices')
      BY <3>1, <3>4, Typed, NotifyKeeps DEF RemovePane
    <3>6. choice' = IF choice = r.arg THEN None ELSE choice
      BY <3>1 DEF RemovePane
    <3> HIDE DEF a
    <3>7. identified /\ link' = "up" =>
             /\ \A n \in ToSet(notices) :
                   n.kind # "order" => n \in ToSet(notices')
             /\ \A n \in ToSet(notices') :
                   \/ n \in ToSet(notices)
                   \/ n.kind = "order"
                   \/ /\ n.kind = "removed" /\ r.op = "kill" /\ n.tab = r.arg
                      /\ n.tab \in ToSet(server.tabs)
      BY <2>1, <2>4, <3>4, <3>5
    <3>8. Handled(r, a)
      BY <1>1, <1>2, <1>3, <2>1, <2>2, <3>3, <3>5, <3>6, <3>7 DEF Handled, r
    <3>9. QED
      BY <1>1, <2>2, <3>8 DEF r
  <2>5. CASE ~ok
    <3>1. UNCHANGED <<server, notices, link, choice>>
      BY <1>4, <2>5 DEF HandleKill
    <3>2. ToSet(server.tabs) = ToSet(server.tabs) \ {r.arg}
      BY <2>5
    <3> HIDE DEF a
    <3>3. Handled(r, a)
      BY <1>1, <1>2, <1>3, <2>1, <2>2, <2>5, <3>1, <3>2 DEF Handled, r
    <3>4. QED
      BY <1>1, <2>2, <3>3 DEF r
  <2>6. QED
    BY <2>4, <2>5
<1>5. CASE HandleActivate(r) /\ UNCHANGED choice
  <2> DEFINE ok == identified /\ r.arg \in ToSet(server.tabs)
             a == Reply(r, ok, None)
  <2>1. /\ r.op \in {"tab", "pane"} /\ replies' = Append(replies, a)
        /\ server' = IF ok THEN SetActive(server, r.arg) ELSE server
        /\ UNCHANGED <<notices, link>>
    BY <1>5 DEF HandleActivate, Answer
  <2>2. ok \in BOOLEAN
    BY Typed
  <2> HIDE DEF ok
  <2>3. a \in ReplySet /\ a.op = r.op /\ a.by = r.by /\ a.ok = ok
    <3>1. a \in ReplySet
      BY <1>2, <2>1, <2>2, ReplyTypes
    <3>2. QED
      BY <3>1, ReplyIs
  <2>4. r.arg \in Tabs
    BY <1>2, <2>1, RequestFacts
  <2>5. /\ server' \in Views /\ server'.tabs = server.tabs
        /\ server'.active = IF ok THEN r.arg ELSE server.active
    BY <1>3, <2>1, <2>4, SetActiveKeeps
  <2> HIDE DEF a
  <2>6. server'.active \in used
    BY <1>3, <2>5 DEF ok
  <2>7. Handled(r, a)
    BY <1>1, <1>2, <1>3, <1>5, <2>1, <2>3, <2>5, <2>6 DEF Handled, r, ok
  <2>8. QED
    BY <1>1, <2>3, <2>7 DEF r
<1>6. CASE HandleOrder(r) /\ UNCHANGED choice
  <2> DEFINE ok == Permutes(r.arg, server.tabs)
             a == Reply(r, ok, None)
  <2>1. /\ r.op = "order" /\ replies' = Append(replies, a)
        /\ server' = IF ok THEN [server EXCEPT !.tabs = r.arg] ELSE server
        /\ \/ Notify(Reordered(r.arg, TRUE))
           \/ UNCHANGED <<notices, link>>
    BY <1>6 DEF HandleOrder, Answer
  <2>2. ok \in BOOLEAN
    BY DEF Permutes
  <2>3. r.arg \in Orders
    BY <1>2, <2>1, RequestFacts
  <2>4. ok => ToSet(r.arg) = ToSet(server.tabs)
    BY DEF Permutes
  <2> HIDE DEF ok
  <2>5. a \in ReplySet /\ a.op = r.op /\ a.by = r.by
    <3>1. a \in ReplySet
      BY <1>2, <2>1, <2>2, ReplyTypes
    <3>2. QED
      BY <3>1, ReplyIs
  <2>6. /\ server' \in Views /\ server'.active = server.active
        /\ ToSet(server'.tabs) = ToSet(server.tabs)
    BY <1>3, <2>1, <2>3, <2>4, TabsReplaced
  <2>7. server'.tabs # <<>>
    BY <1>3, <2>6, ViewFacts
  <2> HIDE DEF a
  <2>8. /\ notices' \in Seq(NoticeSet) /\ Len(notices') <= Capacity
        /\ link' \in {"up", "gone"}
        /\ identified /\ link' = "up" =>
              /\ \A n \in ToSet(notices) :
                    n.kind # "order" => n \in ToSet(notices')
              /\ \A n \in ToSet(notices') : n \in ToSet(notices) \/ n.kind = "order"
    <3>1. CASE UNCHANGED <<notices, link>>
      BY <1>1, <1>3, <3>1
    <3>2. CASE Notify(Reordered(r.arg, TRUE))
      <4>1. /\ Reordered(r.arg, TRUE) \in NoticeSet
            /\ Reordered(r.arg, TRUE).kind = "order"
        BY <2>3, NoticeTypes
      <4>2. /\ notices' \in Seq(NoticeSet) /\ Len(notices') <= Capacity
            /\ link' = link \/ (link = "up" /\ link' = "gone")
            /\ identified /\ link' = "up" =>
                  /\ ToSet(notices')
                         \subseteq ToSet(notices) \cup {Reordered(r.arg, TRUE)}
                  /\ \A m \in ToSet(notices) :
                        m.kind # "order" => m \in ToSet(notices')
        BY <3>2, <4>1, Typed, NotifyKeeps
      <4>3. QED
        BY <1>1, <4>1, <4>2
    <3>3. QED
      BY <2>1, <3>1, <3>2
  <2>9. Handled(r, a)
    BY <1>1, <1>2, <1>3, <1>6, <2>1, <2>5, <2>6, <2>7, <2>8 DEF Handled, r
  <2>10. QED
    BY <1>1, <2>5, <2>9 DEF r
<1>7. CASE HandleList(r) /\ UNCHANGED choice
  <2> DEFINE active == IF identified THEN server.active ELSE Head(server.tabs)
             list == [tabs |-> server.tabs, active |-> active]
             a == Reply(r, TRUE, list)
  <2>1. /\ r.op \in {"sync", "attach"} /\ replies' = Append(replies, a)
        /\ UNCHANGED <<server, notices, link>>
    BY <1>7 DEF HandleList
  <2>2. active \in Tabs
    BY <1>3, OrderFacts
  <2> HIDE DEF active
  <2>3. list \in Lists /\ list.tabs = server.tabs /\ list.active = active
    BY <1>3, <2>2 DEF Lists
  <2> HIDE DEF list
  <2>4. /\ a \in ReplySet /\ a.op = r.op /\ a.by = r.by /\ a.ok = TRUE
        /\ a.list = list
    <3>1. a \in ReplySet
      BY <1>2, <2>1, <2>3, ReplyTypes
    <3>2. QED
      BY <3>1 DEF Reply
  <2> HIDE DEF a
  <2>5. Handled(r, a)
    BY <1>1, <1>2, <1>3, <1>7, <2>1, <2>3, <2>4 DEF Handled, r, active
  <2>6. QED
    BY <1>1, <2>4, <2>5 DEF r
<1>8. QED
  BY <1>1, <1>4, <1>5, <1>6, <1>7

LEMMA ServeBase ==
    ASSUME Base, Serve
    PROVE  Base'
PROOF
<1> USE DEF Base
<1> DEFINE r == Head(requests)
<1>1. /\ requests # <<>> /\ link = "up"
      /\ UNCHANGED <<used, identified, view, known, focusVars, order,
                     syncVars, events>>
  BY ServeIs
<1>2. PICK a \in ReplySet : Handled(r, a)
  BY ServeIs
<1>3. /\ requests' \in Seq(RequestSet)
      /\ ToSet(requests) = {r} \cup ToSet(requests')
  BY <1>1, <1>2, Taken DEF Handled, WireOK
<1>4. replies' \in Seq(ReplySet)
  BY <1>2, Appended DEF Handled, WireOK
<1> HIDE DEF r
<1>5. choice' \in {choice, None}
  BY <1>2 DEF Handled
<1>6. ToSet(server'.tabs) \subseteq ToSet(server.tabs)
  BY <1>2 DEF Handled
<1>7. TypeOK'
  BY <1>1, <1>2, <1>5, <1>6, Typed, TypedNext DEF Handled, focusVars, syncVars
<1>8. WireOK'
  BY <1>2, <1>3, <1>4 DEF Handled, WireOK
<1>9. OneIsLeft'
  <2>1. PICK u \in ToSet(server.tabs) : \A q \in ToSet(requests) :
            q.op = "kill" => q.arg # u
    BY DEF OneIsLeft
  <2>2. u \in ToSet(server'.tabs)
    BY <1>2, <1>3, <2>1 DEF Handled
  <2>3. QED
    BY <1>3, <2>1, <2>2 DEF OneIsLeft
<1>10. QED
  BY <1>7, <1>8, <1>9

\* take_next_or_finish leaves the outbox and the tasks well formed.
LEMMA TakeNextKeeps ==
    ASSUME TypeOK, WireOK, NEW g \in Generations, NEW box \in Boxes,
           TakeNext(g, box)
    PROVE  /\ outbox' \in Boxes
           /\ flush' \in [Generations -> Intents \cup {None}]
           /\ requests' \in Seq(RequestSet)
           /\ \A r \in ToSet(requests') : r \in ToSet(requests) \/ r.op # "kill"
           /\ outbox'.desired = box.desired /\ outbox'.pending = None
           /\ box.pending # None =>
                 /\ outbox'.inFlight = box.inFlight
                 /\ flush' = [flush EXCEPT ![g] = box.pending]
                 /\ requests' =
                        Append(requests, Request("tab", g, box.pending.tab))
           /\ box.pending = None =>
                 /\ outbox'.inFlight = FALSE
                 /\ flush' = [flush EXCEPT ![g] = None]
                 /\ requests' = requests
PROOF
<1>1. CASE box.pending # None
  <2> DEFINE sent == Request("tab", g, box.pending.tab)
  <2>1. /\ outbox' = [box EXCEPT !.pending = None]
        /\ flush' = [flush EXCEPT ![g] = box.pending]
        /\ requests' = Append(requests, sent)
    BY <1>1 DEF TakeNext
  <2>2. box.pending \in Intents
    BY <1>1, BoxFacts
  <2>3. sent \in RequestSet /\ sent.op = "tab"
    BY <2>2, IntentFacts, RequestTypes, RequestIs
  <2> HIDE DEF sent
  <2>4. /\ requests' \in Seq(RequestSet)
        /\ ToSet(requests') = ToSet(requests) \cup {sent}
    BY <2>1, <2>3, Appended DEF WireOK
  <2>5. /\ outbox' \in Boxes /\ outbox'.desired = box.desired
        /\ outbox'.pending = None /\ outbox'.inFlight = box.inFlight
    BY <2>1 DEF Boxes
  <2>6. flush' \in [Generations -> Intents \cup {None}]
    BY <2>1, <2>2, Typed
  <2>7. \A r \in ToSet(requests') : r \in ToSet(requests) \/ r.op # "kill"
    BY <2>3, <2>4
  <2>8. QED
    BY <1>1, <2>1, <2>4, <2>5, <2>6, <2>7 DEF sent
<1>2. CASE box.pending = None
  <2>1. /\ outbox' = [box EXCEPT !.inFlight = FALSE]
        /\ flush' = [flush EXCEPT ![g] = None]
        /\ requests' = requests
    BY <1>2 DEF TakeNext
  <2>2. /\ outbox' \in Boxes /\ outbox'.desired = box.desired
        /\ outbox'.pending = None /\ outbox'.inFlight = FALSE
    BY <1>2, <2>1 DEF Boxes
  <2>3. flush' \in [Generations -> Intents \cup {None}]
    BY <2>1, Typed
  <2>4. QED
    BY <1>2, <2>1, <2>2, <2>3 DEF WireOK
<1>3. QED
  BY <1>1, <1>2

\* Both requests of a task were answered: the newest intent is acknowledged
\* when it is the task's.
LEMMA AckedIs ==
    ASSUME TypeOK, NEW intent
    PROVE  LET acked == Acknowledges(outbox, intent)
               box == IF acked
                      THEN [outbox EXCEPT !.desired.acknowledged = TRUE]
                      ELSE outbox
           IN  /\ box \in Boxes
               /\ box.pending = outbox.pending /\ box.inFlight = outbox.inFlight
               /\ acked => /\ outbox.desired # None /\ box.desired # None
                           /\ outbox.desired.generation = intent.generation
                           /\ box.desired.generation = intent.generation
                           /\ box.desired.tab = outbox.desired.tab
                           /\ box.desired.acknowledged
               /\ ~acked => /\ box = outbox
                            /\ outbox.desired # None =>
                                  outbox.desired.generation # intent.generation
PROOF
<1>1. CASE ~Acknowledges(outbox, intent)
  BY <1>1, Typed DEF Acknowledges
<1>2. CASE Acknowledges(outbox, intent)
  <2>1. /\ outbox.desired # None
        /\ outbox.desired.generation = intent.generation
    BY <1>2 DEF Acknowledges
  <2>2. outbox \in Boxes /\ outbox.desired \in Intents
    BY <2>1, Typed, BoxFacts
  <2> DEFINE d == [outbox.desired EXCEPT !.acknowledged = TRUE]
             box == [outbox EXCEPT !.desired.acknowledged = TRUE]
  <2>3. /\ d \in Intents /\ d.acknowledged
        /\ d.generation = outbox.desired.generation
        /\ d.tab = outbox.desired.tab
    BY <2>2 DEF Intents
  <2>4. box = [outbox EXCEPT !.desired = d]
    BY <2>2 DEF Boxes
  <2> HIDE DEF d, box
  <2>5. /\ box \in Boxes /\ box.desired = d /\ box.pending = outbox.pending
        /\ box.inFlight = outbox.inFlight
    BY <2>2, <2>3, <2>4 DEF Boxes
  <2>6. d # None
    BY <2>3, IntentFacts
  <2>7. QED
    BY <1>2, <2>1, <2>3, <2>5, <2>6 DEF box
<1>3. QED
  BY <1>1, <1>2

\* A task that goes on has an intent.
HasTask ==
    LET r == Head(replies)
    IN  r.op = "tab" /\ r.ok => flush[r.by] # None

LEMMA TakeReplyBase ==
    ASSUME Base, HasTask, TakeReply
    PROVE  Base'
PROOF
<1> USE DEF Base
<1> DEFINE r == Head(replies)
           Sound == /\ view' \in Views /\ known' \subseteq Tabs
                    /\ focused' \in Tabs \cup {None} /\ outbox' \in Boxes
                    /\ generation' \in 0..MaxChoices
                    /\ flush' \in [Generations -> Intents \cup {None}]
                    /\ order' \in [inFlight : BOOLEAN,
                                   pending : Orders \cup {None}]
                    /\ sync' \in Syncs /\ scheduled' \in Nat
                    /\ choice' \in Tabs \cup {None}
                    /\ requests' \in Seq(RequestSet)
                    /\ \A q \in ToSet(requests') :
                          q \in ToSet(requests) \/ q.op # "kill"
<1>1. /\ replies # <<>> /\ replies' = Tail(replies)
      /\ UNCHANGED <<serverVars, notices, identified, link, events>>
      /\ \/ TakeSync(r) \/ TakeAttach(r) \/ TakeOrder(r) \/ TakeTabSet(r)
         \/ TakePaneSet(r) \/ TakeActivateFailed(r) \/ TakeKilled(r)
  BY DEF TakeReply
<1>2. r \in ReplySet /\ replies' \in Seq(ReplySet)
  BY <1>1, Taken DEF WireOK
<1>3. r.op = "tab" /\ r.ok => flush[r.by] # None
  BY DEF HasTask
<1>4. /\ r.op \in {"tab", "pane"} => r.by \in Generations
      /\ r.op \in {"sync", "attach"} /\ r.ok => r.list \in Lists
  BY <1>2, ReplyFacts
<1> HIDE DEF r
<1>5. requests \in Seq(RequestSet)
  BY DEF WireOK
<1>6. ASSUME r.op \in {"sync", "attach"}, r.ok, ProcessPaneList(r.list)
      PROVE  /\ view' \in Views /\ known' \subseteq Tabs
             /\ focused' \in Tabs \cup {None} /\ outbox' \in Boxes
  <2>1. r.list \in Lists /\ r.list.tabs \in Orders
    BY <1>4, <1>6 DEF Lists
  <2>2. /\ view' \in Views /\ known' = ToSet(r.list.tabs)
        /\ outbox' \in Boxes /\ focused' \in {focused, None}
    BY <1>6, <2>1, Typed, ProcessKeeps
  <2>3. QED
    BY <2>1, <2>2, Typed, OrderFacts
<1>7. ASSUME TakeSync(r) PROVE Sound
  <2>1. /\ r.op = "sync"
        /\ UNCHANGED <<requests, generation, flush, order, scheduled, choice>>
    BY <1>7 DEF TakeSync
  <2>2. sync' \in Syncs
    BY <1>7, Typed DEF TakeSync, Syncs
  <2>3. CASE r.ok
    <3>1. ProcessPaneList(r.list)
      BY <1>7, <2>3 DEF TakeSync
    <3>2. QED
      BY <1>5, <1>6, <2>1, <2>2, <2>3, <3>1, Typed
  <2>4. CASE ~r.ok
    <3>1. UNCHANGED <<view, known, outbox, focused>>
      BY <1>7, <2>4 DEF TakeSync
    <3>2. QED
      BY <1>5, <2>1, <2>2, <3>1, Typed
  <2>5. QED
    BY <2>3, <2>4
<1>8. ASSUME TakeAttach(r) PROVE Sound
  <2>1. /\ r.op = "attach"
        /\ UNCHANGED <<requests, generation, flush, order, syncVars, choice>>
    BY <1>8 DEF TakeAttach
  <2>2. CASE r.ok
    <3>1. ProcessPaneList(r.list)
      BY <1>8, <2>2 DEF TakeAttach
    <3>2. QED
      BY <1>5, <1>6, <2>1, <2>2, <3>1, Typed DEF syncVars
  <2>3. CASE ~r.ok
    <3>1. UNCHANGED <<view, known, outbox, focused>>
      BY <1>8, <2>3 DEF TakeAttach
    <3>2. QED
      BY <1>5, <2>1, <3>1, Typed DEF syncVars
  <2>4. QED
    BY <2>2, <2>3
<1>9. ASSUME TakeOrder(r) PROVE Sound
  <2> DEFINE sent == Request("order", 0, order.pending)
  <2>1. UNCHANGED <<view, known, focusVars, sync, choice>>
    BY <1>9 DEF TakeOrder
  <2>2. scheduled' \in Nat
    BY <1>9, Typed DEF TakeOrder
  <2>3. CASE r.ok /\ order.pending # None
    <3>1. /\ requests' = Append(requests, sent)
          /\ order' = [order EXCEPT !.pending = None]
      BY <1>9, <2>3 DEF TakeOrder
    <3>2. order.pending \in Orders
      BY <2>3, Typed
    <3>3. sent \in RequestSet /\ sent.op = "order"
      BY <3>2, RequestTypes, RequestIs
    <3> HIDE DEF sent
    <3>4. /\ requests' \in Seq(RequestSet)
          /\ ToSet(requests') = ToSet(requests) \cup {sent}
      BY <1>5, <3>1, <3>3, Appended
    <3>5. order' \in [inFlight : BOOLEAN, pending : Orders \cup {None}]
      BY <3>1, Typed
    <3>6. QED
      BY <2>1, <2>2, <3>3, <3>4, <3>5, Typed DEF focusVars
  <2>4. CASE ~(r.ok /\ order.pending # None)
    <3>1. /\ order' = [inFlight |-> FALSE, pending |-> None]
          /\ UNCHANGED requests
      BY <1>9, <2>4 DEF TakeOrder
    <3>2. order' \in [inFlight : BOOLEAN, pending : Orders \cup {None}]
      BY <3>1
    <3>3. QED
      BY <1>5, <2>1, <2>2, <3>1, <3>2, Typed DEF focusVars
  <2>5. QED
    BY <2>3, <2>4
<1>10. ASSUME TakeTabSet(r) PROVE Sound
  <2> DEFINE sent == Request("pane", r.by, flush[r.by].tab)
  <2>1. /\ r.op = "tab" /\ r.ok /\ requests' = Append(requests, sent)
        /\ UNCHANGED <<view, known, focusVars, order, syncVars, choice>>
    BY <1>10 DEF TakeTabSet
  <2>2. r.by \in Generations /\ flush[r.by] \in Intents
    BY <1>3, <1>4, <2>1, Typed
  <2>3. sent \in RequestSet /\ sent.op = "pane"
    BY <2>2, IntentFacts, RequestTypes, RequestIs
  <2> HIDE DEF sent
  <2>4. /\ requests' \in Seq(RequestSet)
        /\ ToSet(requests') = ToSet(requests) \cup {sent}
    BY <1>5, <2>1, <2>3, Appended
  <2>5. QED
    BY <2>1, <2>3, <2>4, Typed DEF focusVars, syncVars
<1>11. ASSUME TakePaneSet(r) PROVE Sound
  <2> DEFINE acked == Acknowledges(outbox, flush[r.by])
             box == IF acked
                    THEN [outbox EXCEPT !.desired.acknowledged = TRUE]
                    ELSE outbox
  <2>1. /\ r.op = "pane" /\ r.ok /\ TakeNext(r.by, box)
        /\ scheduled' = IF acked THEN scheduled + 1 ELSE scheduled
        /\ UNCHANGED <<view, known, focused, generation, order, sync, choice>>
    BY <1>11 DEF TakePaneSet
  <2>2. box \in Boxes
    BY AckedIs
  <2> HIDE DEF acked, box
  <2>3. r.by \in Generations
    BY <1>4, <2>1
  <2>4. /\ outbox' \in Boxes
        /\ flush' \in [Generations -> Intents \cup {None}]
        /\ requests' \in Seq(RequestSet)
        /\ \A q \in ToSet(requests') : q \in ToSet(requests) \/ q.op # "kill"
    BY <2>1, <2>2, <2>3, TakeNextKeeps
  <2>5. scheduled' \in Nat
    BY <2>1, Typed
  <2>6. QED
    BY <2>1, <2>4, <2>5, Typed
<1>12. ASSUME TakeActivateFailed(r) PROVE Sound
  <2>1. /\ r.op \in {"tab", "pane"} /\ AbortIntent(outbox)
        /\ flush' = [flush EXCEPT ![r.by] = None]
        /\ scheduled' = scheduled + 1 /\ choice' = None
        /\ UNCHANGED <<requests, view, known, generation, order, sync>>
    BY <1>12 DEF TakeActivateFailed
  <2>2. outbox' \in Boxes /\ focused' \in Tabs \cup {None}
    BY <2>1, Typed, NoEntryIs DEF AbortIntent
  <2>3. flush' \in [Generations -> Intents \cup {None}]
    BY <2>1, Typed
  <2>4. scheduled' \in Nat
    BY <2>1, Typed
  <2>5. QED
    BY <1>5, <2>1, <2>2, <2>3, <2>4, Typed
<1>13. ASSUME TakeKilled(r) PROVE Sound
  BY <1>5, <1>13, Typed DEF TakeKilled, focusVars, syncVars
<1>14. Sound
  <2> HIDE DEF Sound
  <2> QED
    BY <1>1, <1>7, <1>8, <1>9, <1>10, <1>11, <1>12, <1>13
<1>15. TypeOK'
  BY <1>1, <1>14, Typed, TypedNext DEF serverVars
<1>16. WireOK'
  BY <1>1, <1>2, <1>14 DEF WireOK
<1>17. OneIsLeft'
  BY <1>1, <1>14, LeftAlone DEF serverVars
<1>18. QED
  BY <1>15, <1>16, <1>17

\* The client takes a notification: it loses a tab it has, takes over an
\* order of the tabs it knows, or resyncs.
LEMMA TakeNoticeIs ==
    ASSUME Base, TakeNotice
    PROVE  LET n == Head(notices)
           IN  /\ link = "up" /\ notices # <<>> /\ notices' = Tail(notices)
               /\ UNCHANGED <<serverVars, identified, link, replies, focusVars,
                              order, scheduled, choice, events>>
               /\ n \in NoticeSet /\ view' \in Views /\ known' \subseteq known
               /\ \/ /\ ResyncStep(requests)
                     /\ UNCHANGED <<view, known>>
                  \/ /\ n.kind = "removed"
                     /\ ToSet(view'.tabs) = ToSet(view.tabs) \ {n.tab}
                     /\ ToSet(view.tabs) \ {n.tab} # {} =>
                           view'.active = view.active
                     /\ known' = known \cap ToSet(view'.tabs)
                     /\ UNCHANGED <<sync, requests>>
                  \/ /\ n.kind = "order"
                     /\ ToSet(view'.tabs) = ToSet(view.tabs)
                     /\ view'.active = view.active
                     /\ UNCHANGED <<known, sync, requests>>
PROOF
<1> USE DEF Base
<1> DEFINE n == Head(notices)
<1>1. /\ link = "up" /\ notices # <<>> /\ notices' = Tail(notices)
      /\ UNCHANGED <<serverVars, identified, link, replies, focusVars,
                     order, scheduled, choice, events>>
      /\ TakeAdded(n) \/ TakeRemoved(n) \/ TakeOrdered(n)
  BY DEF TakeNotice
<1>2. n \in NoticeSet
  BY <1>1, Taken DEF WireOK
<1>3. view \in Views /\ view.tabs \in Orders
  BY Typed, ViewFacts
<1> HIDE DEF n
<1>4. CASE TakeAdded(n)
  BY <1>1, <1>2, <1>3, <1>4 DEF TakeAdded, n
<1>5. CASE TakeRemoved(n) /\ n.tab \in known \cap ToSet(view.tabs)
  <2>1. /\ n.kind = "removed" /\ view' = PruneTab(view, n.tab)
        /\ known' = known \cap ToSet(view'.tabs) /\ UNCHANGED <<sync, requests>>
    BY <1>5 DEF TakeRemoved
  <2>2. /\ view' \in Views /\ ToSet(view'.tabs) = ToSet(view.tabs) \ {n.tab}
        /\ ToSet(view.tabs) \ {n.tab} # {} => view'.active = view.active
    BY <1>3, <2>1, PruneTabKeeps
  <2>3. QED
    BY <1>1, <1>2, <2>1, <2>2 DEF n
<1>6. CASE TakeRemoved(n) /\ n.tab \notin known \cap ToSet(view.tabs)
  BY <1>1, <1>2, <1>3, <1>6 DEF TakeRemoved, n
<1>7. CASE TakeOrdered(n) /\ n.own
  BY <1>1, <1>2, <1>3, <1>7 DEF TakeOrdered, n
<1>8. CASE TakeOrdered(n) /\ ~n.own /\ ToSet(n.tabs) = known
           /\ known \subseteq ToSet(view.tabs)
  <2>1. /\ n.kind = "order"
        /\ view' = [view EXCEPT !.tabs = ApplyOrder(@, n.tabs)]
        /\ UNCHANGED <<known, sync, requests>>
    BY <1>8 DEF TakeOrdered
  <2>2. n.tabs \in Orders
    BY <1>2, <2>1, NoticeFacts
  <2>3. /\ ApplyOrder(view.tabs, n.tabs) \in Orders
        /\ ToSet(ApplyOrder(view.tabs, n.tabs)) = ToSet(view.tabs)
    BY <1>3, <1>8, <2>2, ApplyOrderKeeps
  <2>4. /\ view' \in Views /\ view'.active = view.active
        /\ view'.tabs = ApplyOrder(view.tabs, n.tabs)
    BY <1>3, <2>1, <2>3, TabsReplaced
  <2>5. QED
    BY <1>1, <1>2, <2>1, <2>3, <2>4 DEF n
<1>9. CASE TakeOrdered(n) /\ ~n.own
           /\ ~(ToSet(n.tabs) = known /\ known \subseteq ToSet(view.tabs))
  BY <1>1, <1>2, <1>3, <1>9 DEF TakeOrdered, n
<1>10. QED
  BY <1>1, <1>4, <1>5, <1>6, <1>7, <1>8, <1>9

LEMMA TakeNoticeBase ==
    ASSUME Base, TakeNotice
    PROVE  Base'
PROOF
<1> USE DEF Base
<1>1. /\ notices # <<>> /\ notices' = Tail(notices)
      /\ UNCHANGED <<serverVars, identified, link, replies, focusVars,
                     order, scheduled, choice, events>>
      /\ view' \in Views /\ known' \subseteq known
      /\ ResyncStep(requests) \/ UNCHANGED <<sync, requests>>
  BY TakeNoticeIs
<1>2. notices' \in Seq(NoticeSet) /\ Len(notices') <= Capacity
  <2>1. /\ notices' \in Seq(NoticeSet) /\ Len(notices') = Len(notices) - 1
        /\ Len(notices) \in Nat
    BY <1>1, Taken DEF WireOK
  <2>2. Len(notices) <= Capacity /\ Capacity \in Nat
    BY Typed, ClientAssumption
  <2>3. QED
    BY <2>1, <2>2
<1>3. sync \in Syncs /\ requests \in Seq(RequestSet)
  BY Typed DEF WireOK
<1>4. /\ sync' \in Syncs
      /\ \/ requests' = requests
         \/ requests' = Append(requests, Request("sync", 0, None))
  BY <1>1, <1>3, Resyncs
<1>5. /\ requests' \in Seq(RequestSet)
      /\ \A r \in ToSet(requests') : r \in ToSet(requests) \/ r.op # "kill"
  BY <1>3, <1>4, SyncSent
<1>6. TypeOK'
  BY <1>1, <1>2, <1>4, Typed, TypedNext DEF serverVars, focusVars
<1>7. WireOK'
  BY <1>1, <1>2, <1>5 DEF WireOK
<1>8. OneIsLeft'
  BY <1>1, <1>5, LeftAlone DEF serverVars
<1>9. QED
  BY <1>6, <1>7, <1>8

LEMMA PollDeadBase ==
    ASSUME Base, PollDead
    PROVE  Base'
PROOF
<1> USE DEF Base
<1>1. /\ view' = PruneTab(view, ShownTab)
      /\ UNCHANGED <<serverVars, notices, wireVars, known, focusVars, order,
                     syncVars, choice, events>>
  BY DEF PollDead
<1>2. view' \in Views
  BY <1>1, Typed, PruneTabKeeps
<1>3. TypeOK'
  BY <1>1, <1>2, Typed, TypedNext DEF serverVars, wireVars, focusVars, syncVars
<1>4. WireOK'
  BY <1>1 DEF WireOK, wireVars
<1>5. OneIsLeft'
  BY <1>1, LeftAlone DEF serverVars, wireVars
<1>6. QED
  BY <1>3, <1>4, <1>5

LEMMA DropBase ==
    ASSUME Base, Drop
    PROVE  Base' /\ link' = "down" /\ \A r \in ToSet(replies') : ~r.ok
PROOF
<1> USE DEF Base
<1> DEFINE status == IF sync.stage # "status" THEN <<>>
                     ELSE <<Request("sync", 0, None)>>
           all == (replies \o requests) \o status
           failed == [i \in DOMAIN all |-> Reply(all[i], FALSE, None)]
           S == ReplySet \cup RequestSet
<1>1. /\ link' = "down" /\ Counted /\ notices' = <<>> /\ requests' = <<>>
      /\ replies' = failed
      /\ UNCHANGED <<serverVars, identified, view, known, focusVars, order,
                     syncVars, choice>>
  BY DEF Drop
<1>2. all \in Seq(S)
  <2>1. replies \in Seq(S) /\ requests \in Seq(S)
    BY SeqMonotonic DEF WireOK
  <2>2. status \in Seq(S)
    <3>1. Request("sync", 0, None) \in S
      BY RequestTypes
    <3> HIDE DEF S
    <3>2. \A x \in S : <<x>> \in Seq(S)
      OBVIOUS
    <3>3. <<>> \in Seq(S)
      BY EmptySeq
    <3>4. QED
      BY <3>1, <3>2, <3>3
  <2> HIDE DEF status, S
  <2>3. replies \o requests \in Seq(S)
    BY <2>1, ConcatProperties
  <2>4. QED
    BY <2>2, <2>3, ConcatProperties
<1> HIDE DEF all
<1>3. Len(all) \in Nat /\ DOMAIN all = 1..Len(all)
  BY <1>2, LenProperties
<1>4. ASSUME NEW i \in 1..Len(all)
      PROVE  /\ Reply(all[i], FALSE, None) \in ReplySet
             /\ ~Reply(all[i], FALSE, None).ok
  <2>1. all[i] \in S
    BY <1>2, ElementOfSeq
  <2>2. QED
    BY <2>1, ReplyFacts, ReplyTypes, ReplyIs
<1>5. failed \in [1..Len(all) -> ReplySet]
  BY <1>3, <1>4
<1>6. replies' \in Seq(ReplySet)
  BY <1>1, <1>3, <1>5, SeqDef
<1>7. \A r \in ToSet(replies') : ~r.ok
  BY <1>1, <1>3, <1>4 DEF ToSet
<1>8. /\ notices' \in Seq(NoticeSet) /\ requests' \in Seq(RequestSet)
      /\ Len(notices') <= Capacity
  BY <1>1, EmptySeq, ClientAssumption
<1>9. ToSet(requests') = {}
  BY <1>1 DEF ToSet
<1>10. TypeOK'
  BY <1>1, <1>8, Typed, TypedNext, CountedIs DEF serverVars, focusVars, syncVars
<1>11. WireOK'
  BY <1>6, <1>8 DEF WireOK
<1>12. OneIsLeft'
  BY <1>1, <1>9, LeftAlone DEF serverVars
<1>13. QED
  BY <1>1, <1>7, <1>10, <1>11, <1>12

LEMMA ReconnectBase ==
    ASSUME Base, Reconnect
    PROVE  Base'
PROOF
<1> USE DEF Base
<1> DEFINE sent == Request("attach", 0, None)
<1>1. /\ link' = "up" /\ identified' = FALSE
      /\ requests' = Append(requests, sent)
      /\ UNCHANGED <<serverVars, notices, replies, view, known,
                     focusVars, order, syncVars, choice, events>>
  BY DEF Reconnect
<1>2. sent \in RequestSet /\ sent.op = "attach"
  BY RequestTypes, RequestIs
<1> HIDE DEF sent
<1>3. /\ requests' \in Seq(RequestSet)
      /\ ToSet(requests') = ToSet(requests) \cup {sent}
  BY <1>1, <1>2, Appended DEF WireOK
<1>4. TypeOK'
  BY <1>1, Typed, TypedNext DEF serverVars, focusVars, syncVars
<1>5. WireOK'
  BY <1>1, <1>3 DEF WireOK
<1>6. OneIsLeft'
  BY <1>1, <1>2, <1>3, LeftAlone DEF serverVars
<1>7. QED
  BY <1>4, <1>5, <1>6

-----------------------------------------------------------------------------
(* The line of requests and answers.                                       *)

IsLine(l) ==
    /\ \E n \in Nat : DOMAIN l = 1..n
    /\ \A i \in Activations(l) : l[i].by \in Generations

\* m is l without its head.
Popped(l, m) ==
    \E n \in Nat \ {0} :
        /\ DOMAIN l = 1..n /\ DOMAIN m = 1..(n - 1)
        /\ \A i \in 1..(n - 1) : m[i] = l[i + 1]

\* m is l with x at its end.
Pushed(l, m, x) ==
    \E n \in Nat :
        /\ DOMAIN l = 1..n /\ DOMAIN m = 1..(n + 1)
        /\ \A i \in 1..n : m[i] = l[i]
        /\ m[n + 1] = x

LEMMA LineIs ==
    ASSUME NEW A, NEW Q, NEW a \in Seq(A), NEW q \in Seq(Q)
    PROVE  /\ Len(a) \in Nat /\ Len(q) \in Nat
           /\ DOMAIN LineOf(a, q) = 1..(Len(a) + Len(q))
           /\ \A i \in 1..Len(a) : LineOf(a, q)[i] = InLine(a[i])
           /\ \A i \in 1..Len(q) : LineOf(a, q)[Len(a) + i] = InLine(q[i])
           /\ \A r \in ToSet(a) : \E i \in DOMAIN LineOf(a, q) :
                 i <= Len(a) /\ LineOf(a, q)[i] = InLine(r)
           /\ \A r \in ToSet(q) : \E i \in DOMAIN LineOf(a, q) :
                 i > Len(a) /\ LineOf(a, q)[i] = InLine(r)
           /\ \A i \in DOMAIN LineOf(a, q) :
                 \E r \in ToSet(a) \cup ToSet(q) : LineOf(a, q)[i] = InLine(r)
PROOF
<1> DEFINE l == LineOf(a, q)
<1>1. /\ Len(a) \in Nat /\ Len(q) \in Nat /\ DOMAIN a = 1..Len(a)
      /\ DOMAIN q = 1..Len(q)
  BY LenProperties
<1>2. /\ DOMAIN l = 1..(Len(a) + Len(q))
      /\ \A i \in 1..(Len(a) + Len(q)) :
            l[i] = IF i <= Len(a) THEN InLine(a[i]) ELSE InLine(q[i - Len(a)])
  BY DEF LineOf
<1> HIDE DEF l
<1>3. \A i \in 1..Len(a) : l[i] = InLine(a[i]) /\ i \in DOMAIN l
  BY <1>1, <1>2
<1>4. \A i \in 1..Len(q) : /\ l[Len(a) + i] = InLine(q[i])
                           /\ Len(a) + i \in DOMAIN l /\ Len(a) + i > Len(a)
  <2> TAKE i \in 1..Len(q)
  <2>1. Len(a) + i \in 1..(Len(a) + Len(q)) /\ ~(Len(a) + i <= Len(a))
        /\ (Len(a) + i) - Len(a) = i
    BY <1>1
  <2>2. QED
    BY <1>1, <1>2, <2>1
<1>5. \A r \in ToSet(a) : \E i \in DOMAIN l : i <= Len(a) /\ l[i] = InLine(r)
  BY <1>1, <1>3 DEF ToSet
<1>6. \A r \in ToSet(q) : \E i \in DOMAIN l : i > Len(a) /\ l[i] = InLine(r)
  BY <1>1, <1>4 DEF ToSet
<1>7. ASSUME NEW i \in DOMAIN l
      PROVE  \E r \in ToSet(a) \cup ToSet(q) : l[i] = InLine(r)
  <2>1. CASE i <= Len(a)
    <3>1. i \in DOMAIN a /\ l[i] = InLine(a[i])
      BY <1>1, <1>2, <2>1
    <3>2. a[i] \in ToSet(a)
      BY <3>1 DEF ToSet
    <3>3. QED
      BY <3>1, <3>2
  <2>2. CASE ~(i <= Len(a))
    <3>1. i - Len(a) \in DOMAIN q /\ l[i] = InLine(q[i - Len(a)])
      BY <1>1, <1>2, <2>2
    <3>2. q[i - Len(a)] \in ToSet(q)
      BY <3>1 DEF ToSet
    <3>3. QED
      BY <3>1, <3>2
  <2>3. QED
    BY <2>1, <2>2
<1>8. QED
  BY <1>1, <1>2, <1>3, <1>4, <1>5, <1>6, <1>7 DEF l

\* A request that is answered keeps its place.
LEMMA LineServed ==
    ASSUME NEW A, NEW Q, NEW a \in Seq(A), NEW q \in Seq(Q), q # <<>>,
           NEW x \in A, x.op = Head(q).op, x.by = Head(q).by
    PROVE  LineOf(Append(a, x), Tail(q)) = LineOf(a, q)
PROOF
<1> DEFINE b == Append(a, x)
           p == Tail(q)
           n == Len(a) + Len(q)
<1>1. /\ Len(a) \in Nat /\ Len(b) = Len(a) + 1 /\ b[Len(a) + 1] = x
      /\ \A i \in 1..Len(a) : b[i] = a[i]
  BY Appended
<1>2. /\ Len(q) \in Nat \ {0} /\ Len(p) = Len(q) - 1 /\ Head(q) = q[1]
      /\ \A i \in 1..(Len(q) - 1) : p[i] = q[i + 1]
  BY Taken
<1>3. InLine(x) = InLine(q[1])
  BY <1>2 DEF InLine
<1> HIDE DEF b, p
<1>4. Len(b) + Len(p) = n
  BY <1>1, <1>2
<1>5. ASSUME NEW i \in 1..n
      PROVE  (IF i <= Len(b) THEN InLine(b[i]) ELSE InLine(p[i - Len(b)]))
             = (IF i <= Len(a) THEN InLine(a[i]) ELSE InLine(q[i - Len(a)]))
  <2>1. CASE i <= Len(a)
    BY <1>1, <2>1
  <2>2. CASE i = Len(a) + 1
    <3>1. i - Len(a) = 1 /\ i <= Len(b) /\ ~(i <= Len(a)) /\ b[i] = x
      BY <1>1, <2>2
    <3>2. QED
      BY <1>3, <3>1
  <2>3. CASE i > Len(a) + 1
    <3>1. /\ i - Len(b) \in 1..(Len(q) - 1) /\ (i - Len(b)) + 1 = i - Len(a)
          /\ ~(i <= Len(a)) /\ ~(i <= Len(b))
      BY <1>1, <1>2, <2>3
    <3>2. p[i - Len(b)] = q[i - Len(a)]
      BY <1>2, <3>1
    <3>3. QED
      BY <3>1, <3>2
  <2>4. QED
    BY <1>1, <1>2, <2>1, <2>2, <2>3
<1>6. LineOf(b, p) = LineOf(a, q)
  BY <1>4, <1>5 DEF LineOf
<1>7. QED
  BY <1>6 DEF b, p

\* An answer that is taken leaves the head of the line.
LEMMA LineTaken ==
    ASSUME NEW A, NEW Q, NEW a \in Seq(A), NEW q \in Seq(Q), a # <<>>
    PROVE  /\ Popped(LineOf(a, q), LineOf(Tail(a), q))
           /\ LineOf(a, q)[1] = InLine(Head(a)) /\ 1 \in DOMAIN LineOf(a, q)
PROOF
<1> DEFINE b == Tail(a)
           n == Len(a) + Len(q)
<1>1. /\ Len(a) \in Nat \ {0} /\ Len(b) = Len(a) - 1 /\ Head(a) = a[1]
      /\ \A i \in 1..(Len(a) - 1) : b[i] = a[i + 1]
  BY Taken
<1>2. Len(q) \in Nat
  BY LenProperties
<1> HIDE DEF b
<1>3. n \in Nat \ {0} /\ Len(b) + Len(q) = n - 1 /\ 1 \in 1..n /\ 1 <= Len(a)
  BY <1>1, <1>2
<1>4. ASSUME NEW i \in 1..(n - 1)
      PROVE  LineOf(b, q)[i] = LineOf(a, q)[i + 1]
  <2>1. i \in 1..(Len(b) + Len(q)) /\ i + 1 \in 1..(Len(a) + Len(q))
    BY <1>1, <1>2, <1>3
  <2>2. /\ LineOf(b, q)[i] = IF i <= Len(b) THEN InLine(b[i])
                             ELSE InLine(q[i - Len(b)])
        /\ LineOf(a, q)[i + 1] = IF i + 1 <= Len(a) THEN InLine(a[i + 1])
                                 ELSE InLine(q[(i + 1) - Len(a)])
    BY <2>1 DEF LineOf
  <2>3. CASE i <= Len(b)
    <3>1. i \in 1..(Len(a) - 1) /\ i + 1 <= Len(a)
      BY <1>1, <2>3
    <3>2. QED
      BY <1>1, <2>2, <2>3, <3>1
  <2>4. CASE ~(i <= Len(b))
    <3>1. ~(i + 1 <= Len(a)) /\ (i + 1) - Len(a) = i - Len(b)
      BY <1>1, <2>4
    <3>2. QED
      BY <2>2, <2>4, <3>1
  <2>5. QED
    BY <2>3, <2>4
<1>5. /\ DOMAIN LineOf(a, q) = 1..n /\ DOMAIN LineOf(b, q) = 1..(n - 1)
      /\ LineOf(a, q)[1] = InLine(a[1])
  BY <1>3 DEF LineOf
<1> HIDE DEF n
<1>6. Popped(LineOf(a, q), LineOf(b, q))
  BY <1>3, <1>4, <1>5 DEF Popped
<1>7. QED
  BY <1>1, <1>3, <1>5, <1>6 DEF b

\* A request that is sent stands at the end of the line.
LEMMA LineSent ==
    ASSUME NEW A, NEW Q, NEW a \in Seq(A), NEW q \in Seq(Q), NEW x \in Q
    PROVE  Pushed(LineOf(a, q), LineOf(a, Append(q, x)), InLine(x))
PROOF
<1> DEFINE p == Append(q, x)
           n == Len(a) + Len(q)
<1>1. /\ Len(q) \in Nat /\ Len(p) = Len(q) + 1 /\ p[Len(q) + 1] = x
      /\ \A i \in 1..Len(q) : p[i] = q[i]
  BY Appended
<1>2. Len(a) \in Nat
  BY LenProperties
<1> HIDE DEF p
<1>3. /\ n \in Nat /\ Len(a) + Len(p) = n + 1 /\ n + 1 \in 1..(n + 1)
      /\ ~(n + 1 <= Len(a)) /\ (n + 1) - Len(a) = Len(q) + 1
  BY <1>1, <1>2
<1>4. ASSUME NEW i \in 1..n
      PROVE  LineOf(a, p)[i] = LineOf(a, q)[i]
  <2>1. i \in 1..(Len(a) + Len(q)) /\ i \in 1..(Len(a) + Len(p))
    BY <1>3
  <2>2. ~(i <= Len(a)) => i - Len(a) \in 1..Len(q)
    BY <1>1, <1>2, <2>1
  <2>3. QED
    BY <1>1, <2>1, <2>2 DEF LineOf
<1>5. /\ DOMAIN LineOf(a, q) = 1..n /\ DOMAIN LineOf(a, p) = 1..(n + 1)
      /\ LineOf(a, p)[n + 1] = InLine(x)
  BY <1>1, <1>3 DEF LineOf
<1> HIDE DEF n
<1>6. QED
  BY <1>3, <1>4, <1>5 DEF Pushed, p

Flushes == [Generations -> Intents \cup {None}]
Chase(l, f, box, g) ==
    Tasks(l, f, g) /\ Waiting(l, f, box, g) /\ Chased(l, f, box)

\* Where the places of a line are when its head is gone.
LEMMA PoppedPlaces ==
    ASSUME NEW l, NEW m, Popped(l, m)
    PROVE  /\ \A i \in DOMAIN m : i \in Nat /\ i + 1 \in DOMAIN l /\ i + 1 # 1
                                  /\ m[i] = l[i + 1]
           /\ \A j \in DOMAIN l : /\ j \in Nat \ {0}
                                  /\ j = 1 \/ (j - 1 \in DOMAIN m /\ m[j - 1] = l[j])
           /\ \A i \in Activations(m) : /\ i \in Nat /\ i + 1 \in Activations(l)
                                        /\ i + 1 # 1 /\ m[i] = l[i + 1]
           /\ \A j \in Activations(l) :
                 /\ j \in Nat \ {0}
                 /\ j = 1 \/ (j - 1 \in Activations(m) /\ m[j - 1] = l[j])
PROOF
<1>1. PICK n \in Nat \ {0} :
          /\ DOMAIN l = 1..n /\ DOMAIN m = 1..(n - 1)
          /\ \A i \in 1..(n - 1) : m[i] = l[i + 1]
  BY DEF Popped
<1>2. \A i \in DOMAIN m : i \in Nat /\ i + 1 \in DOMAIN l /\ i + 1 # 1
                          /\ m[i] = l[i + 1]
  BY <1>1
<1>3. ASSUME NEW j \in DOMAIN l, j # 1
      PROVE  j - 1 \in DOMAIN m /\ m[j - 1] = l[j]
  <2>1. j - 1 \in 1..(n - 1) /\ (j - 1) + 1 = j
    BY <1>1, <1>3
  <2>2. QED
    BY <1>1, <2>1
<1>4. \A j \in DOMAIN l : j \in Nat \ {0}
  BY <1>1
<1>5. QED
  BY <1>2, <1>3, <1>4 DEF Activations

\* Where they are when x is added, at the place e.
AddedAt(l, m, x, e) ==
    /\ e \in DOMAIN m /\ e \notin DOMAIN l /\ m[e] = x
    /\ DOMAIN m = DOMAIN l \cup {e}
    /\ \A i \in DOMAIN l : i \in Nat /\ i < e /\ m[i] = l[i]
    /\ x.op \in {"tab", "pane"} => Activations(m) = Activations(l) \cup {e}
    /\ x.op \notin {"tab", "pane"} => Activations(m) = Activations(l)
    /\ e \notin Activations(l)
    /\ \A i \in Activations(l) : i \in Nat /\ i < e /\ m[i] = l[i]

LEMMA PushedPlaces ==
    ASSUME NEW l, NEW m, NEW x, Pushed(l, m, x)
    PROVE  \E e \in Nat : AddedAt(l, m, x, e)
PROOF
<1>1. PICK n \in Nat :
          /\ DOMAIN l = 1..n /\ DOMAIN m = 1..(n + 1)
          /\ \A i \in 1..n : m[i] = l[i]
          /\ m[n + 1] = x
  BY DEF Pushed
<1> DEFINE e == n + 1
<1>2. /\ e \in Nat /\ e \in DOMAIN m /\ e \notin DOMAIN l /\ m[e] = x
      /\ \A i \in DOMAIN l : i \in Nat /\ i < e /\ m[i] = l[i]
      /\ DOMAIN m = DOMAIN l \cup {e}
  BY <1>1
<1> HIDE DEF e
<1>3. /\ x.op \in {"tab", "pane"} => Activations(m) = Activations(l) \cup {e}
      /\ x.op \notin {"tab", "pane"} => Activations(m) = Activations(l)
      /\ e \notin Activations(l)
      /\ \A i \in Activations(l) : i \in Nat /\ i < e /\ m[i] = l[i]
  BY <1>2 DEF Activations
<1>4. QED
  BY <1>2, <1>3 DEF AddedAt

\* Something else is sent.
LEMMA ChasePushed ==
    ASSUME NEW l, NEW m, NEW x, Pushed(l, m, x), x.op \notin {"tab", "pane"},
           NEW f, NEW box, NEW g, Chase(l, f, box, g)
    PROVE  Chase(m, f, box, g)
PROOF
<1>1. /\ Activations(m) = Activations(l)
      /\ \A i \in Activations(l) : m[i] = l[i]
  <2>1. PICK e \in Nat : AddedAt(l, m, x, e)
    BY PushedPlaces
  <2>2. QED
    BY <2>1 DEF AddedAt
<1> DEFINE A == Activations(l)
<1>2. Tasks(m, f, g)
  <2>1. Tasks(l, f, g)
    BY DEF Chase
  <2> HIDE DEF A
  <2>2. QED
    BY <1>1, <2>1 DEF Tasks
<1>3. Waiting(m, f, box, g)
  BY <1>1 DEF Chase, Waiting
<1>4. \A i \in A : Newest(l, f, box, i) => Newest(m, f, box, i)
  BY <1>1 DEF Newest
<1>5. Chased(m, f, box)
  BY <1>1, <1>4 DEF Chase, Chased
<1>6. QED
  BY <1>2, <1>3, <1>5 DEF Chase

\* The answer to something else is taken.
LEMMA ChasePopped ==
    ASSUME NEW l, NEW m, Popped(l, m), l[1].op \notin {"tab", "pane"},
           NEW f, NEW box, NEW g, Chase(l, f, box, g)
    PROVE  /\ Chase(m, f, box, g)
           /\ Activations(l) = {} => Activations(m) = {}
PROOF
<1>1. 1 \notin Activations(l)
  BY DEF Activations
<1>2. \A i \in Activations(m) : /\ i \in Nat /\ i + 1 \in Activations(l)
                                /\ m[i] = l[i + 1]
  BY PoppedPlaces
<1>3. \A j \in Activations(l) : /\ j \in Nat \ {0} /\ j - 1 \in Activations(m)
                                /\ m[j - 1] = l[j]
  BY <1>1, PoppedPlaces
<1>4. Tasks(m, f, g)
  <2>1. Tasks(l, f, g)
    BY DEF Chase
  <2>2. \A i, j \in Activations(m) : m[i].by = m[j].by => i = j
    <3> TAKE i, j \in Activations(m)
    <3>1. /\ i \in Nat /\ j \in Nat /\ i + 1 \in Activations(l)
          /\ j + 1 \in Activations(l) /\ m[i] = l[i + 1] /\ m[j] = l[j + 1]
      BY <1>2
    <3>2. m[i].by = m[j].by => i + 1 = j + 1
      BY <2>1, <3>1 DEF Tasks
    <3>3. QED
      BY <3>1, <3>2
  <2>3. \A h : (\E i \in Activations(m) : m[i].by = h)
                   <=> \E i \in Activations(l) : l[i].by = h
    BY <1>2, <1>3
  <2>4. QED
    BY <2>1, <2>2, <2>3 DEF Tasks
<1>5. Activations(l) = {} <=> Activations(m) = {}
  BY <1>2, <1>3
<1>6. Waiting(m, f, box, g)
  BY <1>5 DEF Chase, Waiting
<1>7. ASSUME NEW i \in Activations(l), Newest(l, f, box, i)
      PROVE  i - 1 \in Activations(m) /\ Newest(m, f, box, i - 1)
  <2>1. i \in Nat \ {0} /\ i - 1 \in Activations(m) /\ m[i - 1] = l[i]
    BY <1>3
  <2>2. ASSUME NEW j \in Activations(m)
        PROVE  /\ j > i - 1 => m[i - 1].op = "tab" /\ m[j].op = "pane"
               /\ m[i - 1].op = "pane" => m[j].op = "pane"
    <3>1. j \in Nat /\ j + 1 \in Activations(l) /\ m[j] = l[j + 1]
      BY <1>2
    <3>2. j > i - 1 => j + 1 > i
      BY <2>1, <3>1
    <3>3. QED
      BY <1>7, <2>1, <3>1, <3>2 DEF Newest
  <2>3. QED
    BY <1>7, <2>1, <2>2 DEF Newest
<1>8. Chased(m, f, box)
  BY <1>5, <1>7 DEF Chase, Chased
<1>9. QED
  BY <1>4, <1>5, <1>6, <1>8 DEF Chase

\* reconcile is done with an intent that is acknowledged.
LEMMA ChaseReconciled ==
    ASSUME NEW l, NEW f, NEW g, NEW box \in Boxes, NEW new \in Boxes,
           Chase(l, f, box, g), box.desired # None, box.desired.acknowledged,
           new.desired = None, new.pending = box.pending,
           new.inFlight = box.inFlight
    PROVE  Chase(l, f, new, g) /\ Activations(l) = {}
PROOF
<1>1. box.pending = None
  BY DEF Chase, Waiting
<1>2. Activations(l) = {}
  BY <1>1 DEF Chase, Chased
<1>3. QED
  BY <1>1, <1>2 DEF Chase, Waiting, Chased

\* Every intent is given up.
LEMMA ChaseAborted ==
    ASSUME NEW l, NEW f, NEW g, Tasks(l, f, g)
    PROVE  Chase(l, f, NoEntry, g)
BY NoEntryIs DEF Chase, Waiting, Chased

\* A choice waits for the task that is at work.
LEMMA ChaseQueued ==
    ASSUME NEW l, NEW f, NEW box, NEW g \in Nat, NEW new, Chase(l, f, box, g),
           box.inFlight, new.inFlight, new.pending = new.desired,
           new.desired # None, ~new.desired.acknowledged,
           new.desired.generation = g + 1, f \in Flushes
    PROVE  Chase(l, f, new, g + 1)
PROOF
<1>1. Tasks(l, f, g)
  BY DEF Chase
<1>2. ASSUME NEW h \in Generations, f[h] # None
      PROVE  /\ h \in Nat /\ h <= g + 1 /\ f[h].generation \in Nat
             /\ f[h].generation <= g + 1 /\ f[h].generation # g + 1
  <2>1. h <= g /\ f[h].generation <= g /\ f[h] \in Intents
    BY <1>1, <1>2 DEF Tasks, Flushes
  <2>2. h \in Nat /\ f[h].generation \in Nat
    BY <2>1, IntentFacts DEF Generations
  <2>3. QED
    BY <2>1, <2>2
<1>3. Tasks(l, f, g + 1)
  BY <1>1, <1>2 DEF Tasks
<1>4. Activations(l) # {}
  BY DEF Chase, Waiting
<1>5. Waiting(l, f, new, g + 1)
  BY <1>2, <1>4 DEF Waiting
<1>6. Chased(l, f, new)
  BY DEF Chased
<1>7. QED
  BY <1>3, <1>5, <1>6 DEF Chase

\* A task starts with a choice.
LEMMA ChaseStarted ==
    ASSUME NEW l, NEW m, NEW x, Pushed(l, m, x), x.op = "tab",
           NEW g \in Nat, x.by = g + 1, g + 1 \in Generations,
           NEW f \in Flushes, NEW box, NEW new, Chase(l, f, box, g),
           new.pending = None, new.desired \in Intents,
           ~new.desired.acknowledged, new.desired.generation = g + 1
    PROVE  Chase(m, [f EXCEPT ![g + 1] = new.desired], new, g + 1)
PROOF
<1> DEFINE F == [f EXCEPT ![g + 1] = new.desired]
           A == Activations(l)
           B == Activations(m)
<1>1. Tasks(l, f, g)
  BY DEF Chase
<1>a. PICK e \in Nat : AddedAt(l, m, x, e)
  BY PushedPlaces
<1>2. e \notin A /\ \A i \in A : i \in Nat /\ i < e /\ m[i] = l[i]
  BY <1>a DEF AddedAt
<1>3. B = A \cup {e} /\ m[e] = x
  BY <1>a DEF AddedAt
<1>4. ASSUME NEW h \in Generations, f[h] # None
      PROVE  /\ h \in Nat /\ h <= g + 1 /\ h # g + 1
             /\ f[h].generation <= g + 1 /\ f[h].generation # g + 1
  <2>1. h <= g /\ f[h].generation <= g /\ f[h] \in Intents
    BY <1>1, <1>4 DEF Tasks, Flushes
  <2>2. h \in Nat /\ f[h].generation \in Nat
    BY <2>1, IntentFacts DEF Generations
  <2>3. QED
    BY <2>1, <2>2
<1>5. /\ F[g + 1] = new.desired /\ new.desired # None
      /\ \A h \in Generations : h # g + 1 => F[h] = f[h]
  BY IntentFacts DEF Flushes
<1>6. \A i \in A : l[i].by # g + 1
  BY <1>1, <1>4 DEF Tasks
<1> HIDE DEF F, A, B
<1>7. Tasks(m, F, g + 1)
  <2>1. \A i, j \in B : m[i].by = m[j].by => i = j
    BY <1>1, <1>2, <1>3, <1>6 DEF Tasks, A
  <2>2. \A h \in Generations : F[h] # None <=> \E i \in B : m[i].by = h
    <3> TAKE h \in Generations
    <3>1. CASE h = g + 1
      BY <1>3, <1>5, <3>1
    <3>2. CASE h # g + 1
      <4>1. f[h] # None <=> \E i \in A : l[i].by = h
        BY <1>1 DEF Tasks, A
      <4>2. (\E i \in B : m[i].by = h) <=> \E i \in A : l[i].by = h
        BY <1>2, <1>3, <3>2
      <4>3. QED
        BY <1>5, <3>2, <4>1, <4>2
    <3>3. QED
      BY <3>1, <3>2
  <2>3. \A h \in Generations :
            F[h] # None => h <= g + 1 /\ F[h].generation <= g + 1
    BY <1>4, <1>5
  <2>4. \A h, k \in Generations :
            F[h] # None /\ F[k] # None /\ h # k => F[h].generation # F[k].generation
    BY <1>1, <1>4, <1>5 DEF Tasks
  <2>5. QED
    BY <2>1, <2>2, <2>3, <2>4 DEF Tasks, B
<1>8. Waiting(m, F, new, g + 1)
  <2>1. B # {}
    BY <1>3
  <2>2. new.desired.generation <= g + 1
    OBVIOUS
  <2>3. QED
    BY <2>1, <2>2 DEF Waiting, B
<1>9. Newest(m, F, new, e)
  <2>1. \A j \in B : j = e \/ ~(j > e)
    BY <1>2, <1>3
  <2>2. ~(e > e)
    OBVIOUS
  <2>3. QED
    BY <1>3, <1>5, <2>1, <2>2 DEF Newest, B
<1>10. Chased(m, F, new)
  BY <1>3, <1>9 DEF Chased, B
<1>11. QED
  BY <1>7, <1>8, <1>10 DEF Chase, F

\* The answer to a task's request is taken: the task has no place.
LEMMA TasksPopped ==
    ASSUME NEW l, NEW m, Popped(l, m), 1 \in Activations(l), IsLine(l),
           NEW f \in Flushes, NEW g, Tasks(l, f, g)
    PROVE  /\ Tasks(m, [f EXCEPT ![l[1].by] = None], g)
           /\ \A i \in Activations(m) : m[i].by # l[1].by
           /\ l[1].by \in Generations /\ f[l[1].by] \in Intents
           /\ l[1].by <= g /\ f[l[1].by].generation <= g
PROOF
<1> DEFINE h == l[1].by
           F == [f EXCEPT ![h] = None]
           A == Activations(l)
           B == Activations(m)
<1>1. /\ \A i \in B : i \in Nat /\ i + 1 \in A /\ i + 1 # 1 /\ m[i] = l[i + 1]
      /\ \A j \in A : /\ j \in Nat \ {0}
                      /\ j = 1 \/ (j - 1 \in B /\ m[j - 1] = l[j])
  BY PoppedPlaces
<1>2. h \in Generations
  BY DEF IsLine
<1>3. F[h] = None /\ \A k \in Generations : k # h => F[k] = f[k]
  BY <1>2 DEF Flushes
<1>4. /\ \A i, j \in A : l[i].by = l[j].by => i = j
      /\ \A k \in Generations : f[k] # None <=> \E i \in A : l[i].by = k
      /\ \A k \in Generations : f[k] # None => k <= g /\ f[k].generation <= g
      /\ \A k, j \in Generations : f[k] # None /\ f[j] # None /\ k # j =>
                                       f[k].generation # f[j].generation
  BY DEF Tasks
<1>5. f[h] # None /\ h <= g /\ f[h].generation <= g
  BY <1>2, <1>4
<1>6. f[h] \in Intents
  BY <1>2, <1>5 DEF Flushes
<1> HIDE DEF A, B, F
<1>7. \A i \in B : m[i].by # h
  BY <1>1, <1>4 DEF A
<1> HIDE DEF h
<1>8. \A i, j \in B : m[i].by = m[j].by => i = j
  <2> TAKE i, j \in B
  <2>1. /\ i \in Nat /\ j \in Nat /\ i + 1 \in A /\ j + 1 \in A
        /\ m[i] = l[i + 1] /\ m[j] = l[j + 1]
    BY <1>1
  <2>2. m[i].by = m[j].by => i + 1 = j + 1
    BY <1>4, <2>1
  <2>3. QED
    BY <2>1, <2>2
<1>9. \A k \in Generations : F[k] # None <=> \E i \in B : m[i].by = k
  <2> TAKE k \in Generations
  <2>1. CASE k = h
    BY <1>3, <1>7, <2>1
  <2>2. CASE k # h
    <3>1. (\E i \in A : l[i].by = k) => \E i \in B : m[i].by = k
      BY <1>1, <2>2 DEF h
    <3>2. (\E i \in B : m[i].by = k) => \E i \in A : l[i].by = k
      BY <1>1
    <3>3. QED
      BY <1>3, <1>4, <2>2, <3>1, <3>2
  <2>3. QED
    BY <2>1, <2>2
<1>10. /\ \A k \in Generations : F[k] # None => k <= g /\ F[k].generation <= g
       /\ \A k, j \in Generations : F[k] # None /\ F[j] # None /\ k # j =>
                                        F[k].generation # F[j].generation
  BY <1>3, <1>4
<1>11. Tasks(m, F, g)
  BY <1>8, <1>9, <1>10 DEF Tasks, B
<1>12. QED
  BY <1>2, <1>5, <1>6, <1>7, <1>11 DEF F, B, h

\* A task sends its next request.
LEMMA TasksPushed ==
    ASSUME NEW l, NEW m, NEW x, Pushed(l, m, x), x.op \in {"tab", "pane"},
           x.by \in Generations, NEW f \in Flushes, NEW g, Tasks(l, f, g),
           f[x.by] = None, x.by <= g,
           NEW intent \in Intents, intent.generation <= g,
           \A k \in Generations :
               f[k] # None => f[k].generation # intent.generation
    PROVE  Tasks(m, [f EXCEPT ![x.by] = intent], g)
PROOF
<1> DEFINE h == x.by
           F == [f EXCEPT ![h] = intent]
           A == Activations(l)
           B == Activations(m)
<1>1. PICK e \in Nat : AddedAt(l, m, x, e)
  BY PushedPlaces
<1>2. /\ e \notin A /\ \A i \in A : m[i] = l[i]
      /\ B = A \cup {e} /\ m[e] = x
  BY <1>1 DEF AddedAt
<1>3. F[h] = intent /\ intent # None
      /\ \A k \in Generations : k # h => F[k] = f[k]
  BY IntentFacts DEF Flushes
<1>4. /\ \A i, j \in A : l[i].by = l[j].by => i = j
      /\ \A k \in Generations : f[k] # None <=> \E i \in A : l[i].by = k
      /\ \A k \in Generations : f[k] # None => k <= g /\ f[k].generation <= g
      /\ \A k, j \in Generations : f[k] # None /\ f[j] # None /\ k # j =>
                                       f[k].generation # f[j].generation
  BY DEF Tasks
<1>5. \A i \in A : l[i].by # h
  BY <1>4
<1> HIDE DEF A, B, F
<1>6. \A i, j \in B : m[i].by = m[j].by => i = j
  BY <1>2, <1>4, <1>5
<1>7. \A k \in Generations : F[k] # None <=> \E i \in B : m[i].by = k
  <2> TAKE k \in Generations
  <2>1. CASE k = h
    BY <1>2, <1>3, <2>1
  <2>2. CASE k # h
    <3>1. (\E i \in B : m[i].by = k) <=> \E i \in A : l[i].by = k
      BY <1>2, <2>2
    <3>2. QED
      BY <1>3, <1>4, <2>2, <3>1
  <2>3. QED
    BY <2>1, <2>2
<1>8. /\ \A k \in Generations : F[k] # None => k <= g /\ F[k].generation <= g
      /\ \A k, j \in Generations : F[k] # None /\ F[j] # None /\ k # j =>
                                       F[k].generation # F[j].generation
  BY <1>3, <1>4
<1>9. QED
  BY <1>6, <1>7, <1>8 DEF Tasks, B, F

\* Only the newest task has the newest intent.
LEMMA NewestIs ==
    ASSUME NEW l, NEW f, NEW g, NEW box, Chase(l, f, box, g), IsLine(l),
           box.desired # None, ~box.desired.acknowledged,
           NEW i \in Activations(l),
           f[l[i].by].generation = box.desired.generation
    PROVE  Newest(l, f, box, i) /\ box.pending = None
PROOF
<1>1. l[i].by \in Generations /\ f[l[i].by] # None
  BY DEF Chase, Tasks, IsLine
<1>2. box.pending = None
  BY <1>1 DEF Chase, Waiting
<1>3. PICK j \in Activations(l) : Newest(l, f, box, j)
  BY <1>2 DEF Chase, Chased
<1>4. l[j].by \in Generations /\ f[l[j].by] # None
      /\ f[l[j].by].generation = box.desired.generation
  BY <1>3 DEF Chase, Tasks, IsLine, Newest
<1>5. l[i].by = l[j].by
  BY <1>1, <1>4 DEF Chase, Tasks
<1>6. i = j
  BY <1>5 DEF Chase, Tasks
<1>7. QED
  BY <1>2, <1>3, <1>6

\* The tab is set and the task asks for its pane: it goes to the end.
LEMMA ChaseTab ==
    ASSUME NEW l, NEW k, NEW m, Popped(l, k), NEW x, Pushed(k, m, x),
           IsLine(l), 1 \in Activations(l), l[1].op = "tab",
           x.op = "pane", x.by = l[1].by,
           NEW f \in Flushes, NEW g, NEW box, Chase(l, f, box, g)
    PROVE  Chase(m, f, box, g)
PROOF
<1> DEFINE h == l[1].by
           F == [f EXCEPT ![h] = None]
           A == Activations(l)
           B == Activations(k)
           C == Activations(m)
<1>1. Tasks(l, f, g)
  BY DEF Chase
<1>2. /\ Tasks(k, F, g) /\ \A i \in B : k[i].by # h
      /\ h \in Generations /\ f[h] \in Intents /\ h <= g
      /\ f[h].generation <= g
  BY <1>1, TasksPopped
<1>3. /\ F \in Flushes /\ F[h] = None /\ [F EXCEPT ![h] = f[h]] = f
      /\ \A j \in Generations : j # h => F[j] = f[j]
  BY <1>2 DEF Flushes
<1>4. \A j \in Generations : F[j] # None => F[j].generation # f[h].generation
  <2>1. \A j \in Generations : F[j] # None => j # h /\ F[j] = f[j]
    BY <1>3
  <2>2. f[h] # None
    BY <1>2, IntentFacts
  <2>3. QED
    BY <1>1, <1>2, <2>1, <2>2 DEF Tasks
<1> HIDE DEF F
<1>5. Tasks(m, f, g)
  <2>1. Tasks(m, [F EXCEPT ![x.by] = f[h]], g)
    BY <1>2, <1>3, <1>4, TasksPushed
  <2>2. QED
    BY <1>3, <2>1
<1>6. PICK e \in Nat : AddedAt(k, m, x, e)
  BY PushedPlaces
<1>7. /\ C = B \cup {e} /\ m[e] = x
      /\ \A i \in B : i \in Nat /\ i < e /\ m[i] = k[i]
  BY <1>6 DEF AddedAt
<1>8. /\ \A i \in B : i \in Nat /\ i + 1 \in A /\ i + 1 # 1 /\ k[i] = l[i + 1]
      /\ \A j \in A : /\ j \in Nat \ {0}
                      /\ j = 1 \/ (j - 1 \in B /\ k[j - 1] = l[j])
  BY PoppedPlaces
<1> HIDE DEF A, B, C
<1>9. Waiting(m, f, box, g)
  BY <1>7 DEF Chase, Waiting, C
<1>10. ASSUME NEW i \in A, Newest(l, f, box, i)
       PROVE  \E j \in C : Newest(m, f, box, j)
  <2>1. /\ f[l[i].by].generation = box.desired.generation
        /\ f[l[i].by].tab = box.desired.tab
        /\ \A j \in A : /\ j > i => l[i].op = "tab" /\ l[j].op = "pane"
                        /\ l[i].op = "pane" => l[j].op = "pane"
    BY <1>10 DEF Newest, A
  <2>2. CASE i = 1
    <3>1. \A j \in B : k[j].op = "pane"
      <4> TAKE j \in B
      <4>1. j \in Nat /\ j + 1 \in A /\ j + 1 # 1 /\ k[j] = l[j + 1]
        BY <1>8
      <4>2. j + 1 > 1
        BY <4>1
      <4>3. QED
        BY <2>1, <2>2, <4>1, <4>2
    <3>2. \A j \in C : m[j].op = "pane" /\ ~(j > e)
      BY <1>7, <3>1
    <3>3. Newest(m, f, box, e)
      BY <1>7, <2>1, <2>2, <3>2 DEF Newest, C
    <3>4. QED
      BY <1>7, <3>3
  <2>3. CASE i # 1
    <3>1. i \in Nat \ {0} /\ i - 1 \in B /\ k[i - 1] = l[i]
      BY <1>8, <2>3
    <3>2. m[i - 1] = l[i] /\ i - 1 \in C
      BY <1>7, <3>1
    <3>3. l[i].op = "tab"
      <4>1. l[i].op \in {"tab", "pane"}
        BY DEF A, Activations
      <4>2. l[i].op = "pane" => l[1].op = "pane"
        BY <2>1 DEF A
      <4>3. QED
        BY <4>1, <4>2
    <3>4. ASSUME NEW j \in C, j > i - 1 PROVE m[j].op = "pane"
      <4>1. CASE j = e
        BY <1>7, <4>1
      <4>2. CASE j \in B
        <5>1. j \in Nat /\ j + 1 \in A /\ m[j] = l[j + 1]
          BY <1>7, <1>8, <4>2
        <5>2. j + 1 > i
          BY <3>1, <3>4, <5>1
        <5>3. QED
          BY <2>1, <5>1, <5>2
      <4>3. QED
        BY <1>7, <4>1, <4>2
    <3>5. Newest(m, f, box, i - 1)
      BY <2>1, <3>2, <3>3, <3>4 DEF Newest, C
    <3>6. QED
      BY <3>2, <3>5
  <2>4. QED
    BY <2>2, <2>3
<1>11. Chased(m, f, box)
  <2>1. A # {}
    BY DEF A
  <2>2. QED
    BY <1>10, <2>1 DEF Chase, Chased, A, C
<1>12. QED
  BY <1>5, <1>9, <1>11 DEF Chase

\* A task is done and takes the choice that waits.
LEMMA ChaseNext ==
    ASSUME NEW l, NEW k, NEW m, Popped(l, k), NEW x, Pushed(k, m, x),
           IsLine(l), 1 \in Activations(l), x.op = "tab", x.by = l[1].by,
           NEW f \in Flushes, NEW g, NEW box \in Boxes, NEW new \in Boxes,
           Chase(l, f, box, g), box.pending # None,
           new.pending = None, new.desired = box.desired
    PROVE  Chase(m, [f EXCEPT ![l[1].by] = box.pending], new, g)
PROOF
<1> DEFINE h == l[1].by
           N == [f EXCEPT ![h] = None]
           F == [f EXCEPT ![h] = box.pending]
           B == Activations(k)
           C == Activations(m)
<1>1. Tasks(l, f, g)
  BY DEF Chase
<1>2. Tasks(k, N, g) /\ h \in Generations /\ h <= g
  BY <1>1, TasksPopped
<1>3. /\ box.pending \in Intents /\ box.pending = box.desired
      /\ box.desired # None
      /\ ~box.desired.acknowledged /\ box.pending.generation <= g
      /\ \A j \in Generations :
            f[j] # None => f[j].generation # box.pending.generation
  BY BoxFacts DEF Chase, Waiting
<1>4. /\ N \in Flushes /\ N[h] = None /\ [N EXCEPT ![h] = box.pending] = F
      /\ \A j \in Generations : j # h => N[j] = f[j]
      /\ F[h] = box.pending
  BY <1>2, <1>3 DEF Flushes
<1>5. \A j \in Generations : N[j] # None => N[j].generation # box.pending.generation
  BY <1>3, <1>4
<1> HIDE DEF N
<1>6. Tasks(m, F, g)
  <2>1. Tasks(m, [N EXCEPT ![x.by] = box.pending], g)
    BY <1>2, <1>3, <1>4, <1>5, TasksPushed
  <2>2. QED
    BY <1>4, <2>1
<1>7. PICK e \in Nat : AddedAt(k, m, x, e)
  BY PushedPlaces
<1>8. /\ C = B \cup {e} /\ m[e] = x
      /\ \A i \in B : i \in Nat /\ i < e
  BY <1>7 DEF AddedAt
<1> HIDE DEF F, B, C
<1>9. Waiting(m, F, new, g)
  BY <1>3, <1>8 DEF Waiting, C
<1>10. Newest(m, F, new, e)
  <2>1. \A j \in C : ~(j > e)
    BY <1>8
  <2>2. QED
    BY <1>3, <1>4, <1>8, <2>1 DEF Newest, C
<1>11. Chased(m, F, new)
  BY <1>3, <1>8, <1>10 DEF Chased, C
<1>12. QED
  BY <1>6, <1>9, <1>11 DEF Chase, F

\* A task is done and nothing waits.
LEMMA ChaseFinish ==
    ASSUME NEW l, NEW m, Popped(l, m), IsLine(l),
           1 \in Activations(l), l[1].op = "pane",
           NEW f \in Flushes, NEW g, NEW box \in Boxes, NEW new \in Boxes,
           Chase(l, f, box, g), box.pending = None,
           new.pending = None, new.inFlight = FALSE,
           \/ /\ box.desired # None /\ new.desired # None
              /\ f[l[1].by].generation = box.desired.generation
              /\ new.desired.generation = box.desired.generation
              /\ new.desired.acknowledged
           \/ /\ new.desired = box.desired
              /\ box.desired # None =>
                    box.desired.generation # f[l[1].by].generation
    PROVE  Chase(m, [f EXCEPT ![l[1].by] = None], new, g)
PROOF
<1> DEFINE h == l[1].by
           F == [f EXCEPT ![h] = None]
           A == Activations(l)
           B == Activations(m)
<1>1. Tasks(l, f, g)
  BY DEF Chase
<1>2. /\ Tasks(m, F, g) /\ h \in Generations
      /\ \A i \in B : m[i].by # h
  BY <1>1, TasksPopped
<1>3. \A j \in Generations : j # h => F[j] = f[j]
  BY <1>2 DEF Flushes
<1>4. /\ \A i \in B : i \in Nat /\ i + 1 \in A /\ i + 1 # 1 /\ m[i] = l[i + 1]
      /\ \A j \in A : /\ j \in Nat \ {0}
                      /\ j = 1 \/ (j - 1 \in B /\ m[j - 1] = l[j])
  BY PoppedPlaces
<1>5. A # {}
  OBVIOUS
<1>6. \A i \in A : l[i].by \in Generations
  BY DEF IsLine
<1> HIDE DEF F, A, B
<1>7. Waiting(m, F, new, g)
  BY DEF Chase, Waiting
<1>8. CASE /\ box.desired # None /\ new.desired # None
           /\ f[h].generation = box.desired.generation
           /\ new.desired.acknowledged
  <2>1. ~box.desired.acknowledged
    BY <1>5, <1>8 DEF Chase, Chased, A
  <2>2. Newest(l, f, box, 1)
    BY <1>8, <2>1, NewestIs DEF A
  <2>3. \A j \in A : ~(j > 1)
    BY <2>2 DEF Newest, A
  <2>4. B = {}
    <3>1. ASSUME NEW i \in B PROVE FALSE
      <4>1. i \in Nat /\ i + 1 \in A /\ i + 1 # 1
        BY <1>4
      <4>2. i + 1 > 1
        BY <4>1
      <4>3. QED
        BY <2>3, <4>1, <4>2
    <3>2. QED
      BY <3>1
  <2>5. Chased(m, F, new)
    BY <1>8, <2>4 DEF Chased, B
  <2>6. QED
    BY <1>2, <1>7, <2>5 DEF Chase, F
<1>9. CASE /\ new.desired = box.desired
           /\ box.desired # None => box.desired.generation # f[h].generation
  <2>1. CASE box.desired = None
    <3>1. Chased(m, F, new)
      BY <1>9, <2>1 DEF Chased
    <3>2. QED
      BY <1>2, <1>7, <3>1 DEF Chase, F
  <2>2. CASE box.desired # None
    <3>1. PICK i \in A : Newest(l, f, box, i) /\ ~box.desired.acknowledged
      BY <1>5, <2>2 DEF Chase, Chased, A
    <3>2. /\ f[l[i].by].generation = box.desired.generation
          /\ f[l[i].by].tab = box.desired.tab
          /\ \A j \in A : /\ j > i => l[i].op = "tab" /\ l[j].op = "pane"
                          /\ l[i].op = "pane" => l[j].op = "pane"
      BY <3>1 DEF Newest, A
    <3>3. i # 1
      BY <1>9, <2>2, <3>2
    <3>4. i \in Nat \ {0} /\ i - 1 \in B /\ m[i - 1] = l[i]
      BY <1>4, <3>3
    <3>5. F[l[i].by] = f[l[i].by]
      BY <1>2, <1>3, <1>6, <3>4
    <3>6. ASSUME NEW j \in B
          PROVE  /\ j > i - 1 => l[i].op = "tab" /\ m[j].op = "pane"
                 /\ l[i].op = "pane" => m[j].op = "pane"
      <4>1. j \in Nat /\ j + 1 \in A /\ m[j] = l[j + 1]
        BY <1>4
      <4>2. j > i - 1 => j + 1 > i
        BY <3>4, <4>1
      <4>3. QED
        BY <3>2, <4>1, <4>2
    <3>7. Newest(m, F, new, i - 1)
      BY <1>9, <3>2, <3>4, <3>5, <3>6 DEF Newest, B
    <3>8. Chased(m, F, new)
      BY <1>9, <3>1, <3>4, <3>7 DEF Chased, B
    <3>9. QED
      BY <1>2, <1>7, <3>8 DEF Chase, F
  <2>3. QED
    BY <2>1, <2>2
<1>10. QED
  BY <1>8, <1>9

-----------------------------------------------------------------------------
(* What holds on the connection that knows the client.                     *)

Sending ==
    /\ Chase(Line, flush, outbox, generation)
    /\ Shows(replies, flush, outbox, server.active)
    /\ AskedFor(requests, flush)

Touch ==
    /\ Sending /\ OneResync(Line, replies, sync.stage)
    /\ NoneForgotten /\ AllComing /\ FocusHolds
    /\ choice # None => choice = focused

Live == identified /\ link = "up"

LEMMA TouchIs == InTouch <=> (Live => Touch)
BY DEF InTouch, Live, Touch, Sending, Chase

LEMMA TouchNext == InTouch' <=> (Live' => Touch')
BY DEF InTouch, Live, Touch, Sending, Chase

\* Whose places the line has.
LEMMA LineHas ==
    ASSUME NEW a \in Seq(ReplySet), NEW q \in Seq(RequestSet)
    PROVE  /\ IsLine(LineOf(a, q))
           /\ \A r \in ToSet(a) \cup ToSet(q) : \E i \in DOMAIN LineOf(a, q) :
                 LineOf(a, q)[i] = InLine(r)
           /\ \A i \in DOMAIN LineOf(a, q) :
                 \E r \in ToSet(a) \cup ToSet(q) : LineOf(a, q)[i] = InLine(r)
PROOF
<1> DEFINE l == LineOf(a, q)
<1>1. /\ DOMAIN l = 1..(Len(a) + Len(q)) /\ Len(a) + Len(q) \in Nat
      /\ \A r \in ToSet(a) : \E i \in DOMAIN l : l[i] = InLine(r)
      /\ \A r \in ToSet(q) : \E i \in DOMAIN l : l[i] = InLine(r)
      /\ \A i \in DOMAIN l : \E r \in ToSet(a) \cup ToSet(q) : l[i] = InLine(r)
  BY LineIs
<1>2. /\ \A r \in ToSet(a) : r \in ReplySet
      /\ \A r \in ToSet(q) : r \in RequestSet
  <2>1. DOMAIN a = 1..Len(a) /\ DOMAIN q = 1..Len(q)
    BY LenProperties
  <2>2. QED
    BY <2>1, ElementOfSeq DEF ToSet
<1> HIDE DEF l
<1>3. ASSUME NEW i \in Activations(l) PROVE l[i].by \in Generations
  <2>1. PICK r \in ToSet(a) \cup ToSet(q) : l[i] = InLine(r)
    BY <1>1 DEF Activations
  <2>2. r.op \in {"tab", "pane"} /\ l[i].by = r.by
    BY <2>1 DEF Activations, InLine
  <2>3. QED
    BY <1>2, <2>2, ReplyFacts, RequestFacts
<1>4. IsLine(l)
  BY <1>1, <1>3 DEF IsLine
<1>5. QED
  BY <1>1, <1>4 DEF l

\* A request or an answer that activates a tab belongs to a task.
LEMMA TaskOf ==
    ASSUME WireOK, Sending,
           NEW r \in ToSet(replies) \cup ToSet(requests),
           r.op \in {"tab", "pane"}
    PROVE  /\ Activations(Line) # {} /\ r.by \in Generations
           /\ flush[r.by] # None
PROOF
<1>1. /\ IsLine(Line)
      /\ \E i \in DOMAIN Line : Line[i] = InLine(r)
  BY LineHas DEF WireOK, Line
<1>2. PICK i \in Activations(Line) : Line[i].by = r.by
  BY <1>1 DEF Activations, InLine
<1>3. r.by \in Generations
  BY <1>1, <1>2 DEF IsLine
<1>4. QED
  BY <1>2, <1>3 DEF Sending, Chase, Tasks

\* Something else is sent, or nothing.
LEMMA SentOther ==
    ASSUME WireOK, Sending, NEW x \in RequestSet, x.op \notin {"tab", "pane"},
           \/ requests' = requests
           \/ requests' = Append(requests, x),
           UNCHANGED <<replies, flush, outbox, generation>>,
           server'.active = server.active
    PROVE  /\ Sending' /\ (Activations(Line) = {} => (Activations(Line) = {})')
           /\ ToSet(requests) \subseteq ToSet(requests')
           /\ requests' = Append(requests, x) =>
                 ToSet(requests') = ToSet(requests) \cup {x}
           /\ requests' = Append(requests, x) => Pushed(Line, Line', InLine(x))
PROOF
<1>1. CASE requests' = requests /\ requests' # Append(requests, x)
  <2>1. Line' = Line
    BY <1>1 DEF Line
  <2>2. QED
    BY <1>1, <2>1 DEF Sending
<1>2. CASE requests' = Append(requests, x)
  <2>1. ToSet(requests') = ToSet(requests) \cup {x}
    BY <1>2, Appended DEF WireOK
  <2>2. Pushed(Line, Line', InLine(x))
    <3>1. Pushed(LineOf(replies, requests),
                 LineOf(replies, Append(requests, x)), InLine(x))
      BY LineSent DEF WireOK
    <3>2. QED
      BY <1>2, <3>1 DEF Line
  <2>3. InLine(x).op \notin {"tab", "pane"}
    BY DEF InLine
  <2>4. Chase(Line', flush, outbox, generation)
    BY <2>2, <2>3, ChasePushed DEF Sending
  <2>5. Activations(Line') = Activations(Line)
    <3>1. PICK e \in Nat : AddedAt(Line, Line', InLine(x), e)
      BY <2>2, PushedPlaces
    <3>2. QED
      BY <2>3, <3>1 DEF AddedAt
  <2>6. AskedFor(requests', flush)
    BY <2>1 DEF Sending, AskedFor
  <2>7. Sending'
    BY <2>4, <2>6 DEF Sending
  <2>8. QED
    BY <1>2, <2>1, <2>2, <2>5, <2>7
<1>3. QED
  BY <1>1, <1>2

LEMMA FocusSame ==
    ASSUME FocusHolds, UNCHANGED <<focused, outbox>>,
           ToSet(replies') \subseteq ToSet(replies),
           server'.active = server.active,
           Activations(Line) = {} => (Activations(Line) = {})',
           focused \in ToSet(server'.tabs) => focused \in ToSet(server.tabs)
    PROVE  FocusHolds'
BY DEF FocusHolds, Settled

\* One resync: a request that is none, a request that is one, an answer.
LEMMA ResyncPushed ==
    ASSUME NEW l, NEW m, NEW x, Pushed(l, m, x), NEW a, NEW stage,
           OneResync(l, a, stage)
    PROVE  /\ x.op \notin {"sync", "attach"} => OneResync(m, a, stage)
           /\ x.op = "sync" /\ stage # "list" => OneResync(m, a, "list")
PROOF
<1>1. PICK e \in Nat : AddedAt(l, m, x, e)
  BY PushedPlaces
<1>2. /\ DOMAIN m = DOMAIN l \cup {e} /\ m[e] = x
      /\ \A i \in DOMAIN l : m[i] = l[i]
  BY <1>1 DEF AddedAt
<1>3. QED
  BY <1>2 DEF OneResync

LEMMA ResyncPopped ==
    ASSUME NEW l, NEW m, Popped(l, m), 1 \in DOMAIN l, NEW a, NEW b,
           ToSet(b) \subseteq ToSet(a), NEW stage, OneResync(l, a, stage)
    PROVE  /\ l[1].op # "sync" => OneResync(m, b, stage)
           /\ l[1].op = "sync" =>
                 /\ stage = "list" /\ OneResync(m, b, "status")
                 /\ \A i \in DOMAIN m : m[i].op # "sync"
PROOF
<1>1. /\ \A i \in DOMAIN m : i \in Nat /\ i + 1 \in DOMAIN l /\ i + 1 # 1
                             /\ m[i] = l[i + 1]
      /\ \A j \in DOMAIN l : j = 1 \/ (j - 1 \in DOMAIN m /\ m[j - 1] = l[j])
  BY PoppedPlaces
<1>2. /\ \A i, j \in DOMAIN l : l[i].op = "sync" /\ l[j].op = "sync" => i = j
      /\ stage = "list" <=> \E i \in DOMAIN l : l[i].op = "sync"
      /\ \A i \in DOMAIN l : l[i].op # "attach"
      /\ \A r \in ToSet(a) : r.op = "sync" => r.ok
  BY DEF OneResync
<1>3. \A i, j \in DOMAIN m : m[i].op = "sync" /\ m[j].op = "sync" => i = j
  <2> TAKE i, j \in DOMAIN m
  <2>1. i \in Nat /\ j \in Nat
    BY <1>1
  <2>2. m[i].op = "sync" /\ m[j].op = "sync" => i + 1 = j + 1
    BY <1>1, <1>2
  <2>3. QED
    BY <2>1, <2>2
<1>4. \A i \in DOMAIN m : m[i].op # "attach"
  BY <1>1, <1>2
<1>5. \A r \in ToSet(b) : r.op = "sync" => r.ok
  BY <1>2
<1>6. CASE l[1].op # "sync"
  <2>1. (\E i \in DOMAIN m : m[i].op = "sync")
            <=> \E i \in DOMAIN l : l[i].op = "sync"
    BY <1>1, <1>6
  <2>2. QED
    BY <1>2, <1>3, <1>4, <1>5, <1>6, <2>1 DEF OneResync
<1>7. CASE l[1].op = "sync"
  <2>1. \A i \in DOMAIN m : m[i].op # "sync"
    BY <1>1, <1>2, <1>7
  <2>2. stage = "list"
    BY <1>2, <1>7
  <2>3. QED
    BY <1>3, <1>4, <1>5, <1>7, <2>1, <2>2 DEF OneResync
<1>8. QED
  BY <1>6, <1>7

LEMMA StillSending ==
    ASSUME Sending, UNCHANGED <<requests, replies, flush, outbox, generation>>,
           server'.active = server.active
    PROVE  Sending' /\ Line' = Line
BY DEF Sending, Line

\* Everything but the tabs on both sides, and what is known of them.
LEMMA StillInTouch ==
    ASSUME Touch,
           UNCHANGED <<requests, replies, focusVars, sync, scheduled>>,
           server'.active = server.active, choice' \in {choice, None},
           focused \in ToSet(server'.tabs) => focused \in ToSet(server.tabs),
           NoneForgotten', AllComing'
    PROVE  Touch'
PROOF
<1>1. Sending' /\ Line' = Line
  BY StillSending DEF Touch, focusVars
<1>2. FocusHolds'
  BY <1>1, FocusSame DEF Touch, focusVars
<1>3. QED
  BY <1>1, <1>2 DEF Touch, focusVars

LEMMA OpenTabTouch ==
    ASSUME Base, Touch, identified, NEW t \in Tabs, OpenTab(t), link' = "up"
    PROVE  Touch'
PROOF
<1>1. /\ t \notin used /\ used' = used \cup {t} /\ Notify(Added(t))
      /\ UNCHANGED <<identified, requests, replies, view, known,
                     focusVars, order, syncVars, choice>>
  BY DEF OpenTab
<1>2. /\ server'.active = server.active
      /\ ToSet(server'.tabs) = ToSet(server.tabs) \cup {t}
  BY OpenTabBase
<1>3. Added(t) \in NoticeSet /\ Added(t).kind = "added" /\ Added(t).tab = t
  BY NoticeTypes
<1>4. /\ Added(t) \in ToSet(notices')
      /\ ToSet(notices') \subseteq ToSet(notices) \cup {Added(t)}
      /\ \A m \in ToSet(notices) : m.kind # "order" => m \in ToSet(notices')
  BY <1>1, <1>3, Typed, NotifyKeeps DEF Base
<1>5. /\ ToSet(view.tabs) \cup known \cup ({focused} \ {None}) \subseteq used
      /\ ToSet(view.tabs) \cap ToSet(server.tabs) \subseteq known
      /\ \A r \in ToSet(replies) :
            r.op = "sync" =>
                /\ ToSet(r.list.tabs) \subseteq used
                /\ known \cap ToSet(server.tabs) \subseteq ToSet(r.list.tabs)
      /\ \A n \in ToSet(notices) :
            n.kind = "removed" => n.tab \in used \ ToSet(server.tabs)
  BY DEF Touch, NoneForgotten
<1>6. NoneForgotten'
  <2>1. /\ ToSet(view'.tabs) \cup known' \cup ({focused'} \ {None})
               \subseteq used'
        /\ ToSet(view'.tabs) \cap ToSet(server'.tabs) \subseteq known'
    BY <1>1, <1>2, <1>5 DEF focusVars
  <2>2. \A r \in ToSet(replies') :
            r.op = "sync" =>
                /\ ToSet(r.list.tabs) \subseteq used'
                /\ known' \cap ToSet(server'.tabs) \subseteq ToSet(r.list.tabs)
    BY <1>1, <1>2, <1>5
  <2>3. \A n \in ToSet(notices') :
            n.kind = "removed" => n.tab \in used' \ ToSet(server'.tabs)
    BY <1>1, <1>2, <1>3, <1>4, <1>5
  <2>4. QED
    BY <2>1, <2>2, <2>3 DEF NoneForgotten
<1>7. AllComing'
  <2>1. (Coming(t))'
    BY <1>3, <1>4 DEF Coming
  <2>2. ASSUME NEW u \in ToSet(server.tabs), u \notin known \cap ToSet(view.tabs)
        PROVE  (Coming(u))'
    <3>1. Coming(u)
      BY <2>2 DEF Touch, AllComing
    <3>2. QED
      BY <1>1, <1>4, <3>1 DEF Coming, syncVars
  <2>3. QED
    BY <1>1, <1>2, <2>1, <2>2 DEF AllComing
<1>8. None \notin used /\ (focused \in ToSet(server'.tabs) =>
                              focused \in ToSet(server.tabs))
  BY <1>1, <1>2, <1>5, Typed, ClientAssumption DEF Base
<1>9. QED
  BY <1>1, <1>2, <1>6, <1>7, <1>8, StillInTouch DEF syncVars

\* Tabs go at the server, and the client is told of them.
LEMMA ForgetsNone ==
    ASSUME Touch, ToSet(server'.tabs) \subseteq ToSet(server.tabs),
           UNCHANGED <<used, known, focused>>,
           ToSet(view'.tabs) \subseteq ToSet(view.tabs),
           \A r \in ToSet(replies') :
               \/ r \in ToSet(replies) \/ r.op # "sync"
               \/ ToSet(r.list.tabs) = ToSet(server.tabs),
           \A n \in ToSet(notices') :
               \/ n \in ToSet(notices) \/ n.kind # "removed"
               \/ n.tab \in ToSet(server.tabs) \ ToSet(server'.tabs),
           ToSet(server.tabs) \subseteq used
    PROVE  NoneForgotten'
PROOF
<1>1. /\ ToSet(view.tabs) \cup known \cup ({focused} \ {None}) \subseteq used
      /\ ToSet(view.tabs) \cap ToSet(server.tabs) \subseteq known
      /\ \A r \in ToSet(replies) :
            r.op = "sync" =>
                /\ ToSet(r.list.tabs) \subseteq used
                /\ known \cap ToSet(server.tabs) \subseteq ToSet(r.list.tabs)
      /\ \A n \in ToSet(notices) :
            n.kind = "removed" => n.tab \in used \ ToSet(server.tabs)
  BY DEF Touch, NoneForgotten
<1>2. /\ ToSet(view'.tabs) \cup known' \cup ({focused'} \ {None})
             \subseteq used'
      /\ ToSet(view'.tabs) \cap ToSet(server'.tabs) \subseteq known'
  BY <1>1
<1>3. ASSUME NEW r \in ToSet(replies'), r.op = "sync"
      PROVE  /\ ToSet(r.list.tabs) \subseteq used'
             /\ known' \cap ToSet(server'.tabs) \subseteq ToSet(r.list.tabs)
  <2>1. CASE r \in ToSet(replies)
    BY <1>1, <1>3, <2>1
  <2>2. CASE ToSet(r.list.tabs) = ToSet(server.tabs)
    BY <2>2
  <2>3. QED
    BY <1>3, <2>1, <2>2
<1>4. \A n \in ToSet(notices') :
          n.kind = "removed" => n.tab \in used' \ ToSet(server'.tabs)
  BY <1>1
<1>5. QED
  BY <1>2, <1>3, <1>4 DEF NoneForgotten

LEMMA CloseTabTouch ==
    ASSUME Base, Touch, identified, NEW t \in Tabs, CloseTab(t), link' = "up"
    PROVE  Touch'
PROOF
<1>1. /\ t \in ToSet(server.tabs) /\ RemovePane(t)
      /\ UNCHANGED <<used, identified, requests, replies, view, known,
                     focusVars, order, syncVars>>
  BY DEF CloseTab
<1>2. Notify(Removed(t)) /\ choice' = IF choice = t THEN None ELSE choice
  BY <1>1 DEF RemovePane
<1>3. /\ server'.active = server.active
      /\ ToSet(server'.tabs) = ToSet(server.tabs) \ {t}
  BY CloseTabBase
<1>4. Removed(t) \in NoticeSet /\ Removed(t).kind = "removed" /\ Removed(t).tab = t
  BY NoticeTypes
<1>5. /\ ToSet(notices') \subseteq ToSet(notices) \cup {Removed(t)}
      /\ \A m \in ToSet(notices) : m.kind # "order" => m \in ToSet(notices')
  BY <1>2, <1>4, Typed, NotifyKeeps DEF Base
<1>6. \A n \in ToSet(notices') :
         \/ n \in ToSet(notices) \/ n.kind # "removed"
         \/ n.tab \in ToSet(server.tabs) \ ToSet(server'.tabs)
  BY <1>1, <1>3, <1>4, <1>5
<1>7. NoneForgotten'
  BY <1>1, <1>3, <1>6, Typed, ForgetsNone DEF Base, focusVars
<1>8. AllComing'
  <2>1. ASSUME NEW u \in ToSet(server.tabs), u \notin known \cap ToSet(view.tabs)
        PROVE  (Coming(u))'
    <3>1. Coming(u)
      BY <2>1 DEF Touch, AllComing
    <3>2. QED
      BY <1>1, <1>5, <3>1 DEF Coming, syncVars
  <2>2. QED
    BY <1>1, <1>3, <2>1 DEF AllComing
<1>9. QED
  BY <1>1, <1>2, <1>3, <1>7, <1>8, StillInTouch DEF syncVars

LEMMA OtherMovesTouch ==
    ASSUME Base, Touch, identified, OtherMoves, link' = "up"
    PROVE  Touch'
PROOF
<1> DEFINE tabs == Append(Tail(server.tabs), Head(server.tabs))
<1>1. /\ Notify(Reordered(tabs, FALSE)) /\ Len(server.tabs) > 1
      /\ UNCHANGED <<used, identified, requests, replies, view, known,
                     focusVars, order, syncVars, choice>>
  BY DEF OtherMoves
<1>2. /\ server'.active = server.active
      /\ ToSet(server'.tabs) = ToSet(server.tabs)
  BY OtherMovesBase
<1>3. Reordered(tabs, FALSE) \in NoticeSet /\ Reordered(tabs, FALSE).kind = "order"
  <2>1. tabs \in Orders
    BY Typed, ViewFacts, Rotated DEF Base
  <2>2. QED
    BY <2>1, NoticeTypes
<1> HIDE DEF tabs
<1>4. /\ ToSet(notices') \subseteq ToSet(notices) \cup {Reordered(tabs, FALSE)}
      /\ \A m \in ToSet(notices) : m.kind # "order" => m \in ToSet(notices')
  BY <1>1, <1>3, Typed, NotifyKeeps DEF Base
<1>5. \A n \in ToSet(notices') : n \in ToSet(notices) \/ n.kind # "removed"
  BY <1>3, <1>4
<1>6. NoneForgotten'
  BY <1>1, <1>2, <1>5, Typed, ForgetsNone DEF Base, focusVars
<1>7. AllComing'
  <2>1. ASSUME NEW u \in ToSet(server.tabs), u \notin known \cap ToSet(view.tabs)
        PROVE  (Coming(u))'
    <3>1. Coming(u)
      BY <2>1 DEF Touch, AllComing
    <3>2. QED
      BY <1>1, <1>4, <3>1 DEF Coming, syncVars
  <2>2. QED
    BY <1>1, <1>2, <2>1 DEF AllComing
<1>8. QED
  BY <1>1, <1>2, <1>6, <1>7, StillInTouch DEF syncVars

LEMMA PollDeadTouch ==
    ASSUME Base, Touch, PollDead
    PROVE  Touch'
PROOF
<1>1. /\ ShownTab \notin ToSet(server.tabs) /\ view' = PruneTab(view, ShownTab)
      /\ UNCHANGED <<serverVars, notices, wireVars, known, focusVars, order,
                     syncVars, choice, events>>
  BY DEF PollDead
<1>2. ToSet(view'.tabs) = ToSet(view.tabs) \ {ShownTab}
  BY <1>1, Typed, PruneTabKeeps DEF Base
<1>3. server' = server /\ used' = used /\ requests' = requests
      /\ replies' = replies
  BY <1>1 DEF serverVars, wireVars
<1>4. NoneForgotten'
  BY <1>1, <1>2, <1>3, Typed, ForgetsNone DEF Base, focusVars
<1>5. AllComing'
  BY <1>1, <1>2, <1>3 DEF Touch, AllComing, Coming, syncVars
<1>6. QED
  BY <1>1, <1>3, <1>4, <1>5, StillInTouch DEF syncVars

\* Another request is sent, and what changes besides leaves the tabs that the
\* client lacks on their way.
LEMMA SentInTouch ==
    ASSUME Base, Touch, NEW x \in RequestSet, x.op \in {"order", "kill"},
           \/ requests' = requests
           \/ requests' = Append(requests, x),
           UNCHANGED <<serverVars, notices, replies, known, focusVars, syncVars>>,
           choice' \in {choice, None},
           ToSet(view'.tabs) \subseteq ToSet(view.tabs),
           \A t \in ToSet(view.tabs) \ ToSet(view'.tabs) :
               \E r \in ToSet(requests') : r.op = "kill" /\ r.arg = t
    PROVE  Touch'
PROOF
<1>1. /\ Sending' /\ (Activations(Line) = {} => (Activations(Line) = {})')
      /\ ToSet(requests) \subseteq ToSet(requests')
      /\ requests' = Append(requests, x) => Pushed(Line, Line', InLine(x))
  BY SentOther DEF Base, Touch, serverVars, focusVars
<1>2. OneResync(Line', replies', sync'.stage)
  <2>1. CASE requests' = Append(requests, x)
    <3>1. InLine(x).op \notin {"sync", "attach"}
      BY DEF InLine
    <3>2. QED
      BY <1>1, <2>1, <3>1, ResyncPushed DEF Touch, syncVars
  <2>2. CASE requests' = requests
    BY <2>2 DEF Touch, syncVars, Line
  <2>3. QED
    BY <2>1, <2>2
<1>3. NoneForgotten'
  BY Typed, ForgetsNone DEF Base, serverVars, focusVars
<1>4. AllComing'
  BY <1>1 DEF Touch, AllComing, Coming, serverVars, syncVars
<1>5. FocusHolds'
  BY <1>1, FocusSame DEF Touch, serverVars, focusVars
<1>6. QED
  BY <1>1, <1>2, <1>3, <1>4, <1>5 DEF Touch, focusVars

LEMMA MoveTabTouch ==
    ASSUME Base, Touch, MoveTab
    PROVE  Touch'
PROOF
<1>1. /\ ToSet(view'.tabs) = ToSet(view.tabs)
      /\ \/ requests' = requests
         \/ \E tabs \in Orders :
               requests' = Append(requests, Request("order", 0, tabs))
  BY MoveTabBase
<1>2. UNCHANGED <<serverVars, notices, identified, link, replies,
                  known, focusVars, syncVars, choice>>
  BY DEF MoveTab
<1>3. PICK x \in RequestSet : /\ x.op = "order"
                              /\ \/ requests' = requests
                                 \/ requests' = Append(requests, x)
  <2>1. \A tabs \in Orders : /\ Request("order", 0, tabs) \in RequestSet
                             /\ Request("order", 0, tabs).op = "order"
    BY RequestTypes, RequestIs
  <2>2. <<>> \in Orders
    BY NoTabs
  <2>3. QED
    BY <1>1, <2>1, <2>2
<1>4. QED
  BY <1>1, <1>2, <1>3, SentInTouch

LEMMA CloseOwnTabTouch ==
    ASSUME Base, Touch, NEW t \in Tabs, CloseOwnTab(t)
    PROVE  Touch'
PROOF
<1> DEFINE sent == Request("kill", 0, t)
<1>1. /\ t \in ToSet(view.tabs) /\ view' = RemoveTab(view, t)
      /\ requests' = Append(requests, sent)
      /\ choice' = IF choice = t THEN None ELSE choice
      /\ UNCHANGED <<serverVars, notices, identified, link, replies,
                     known, focusVars, order, syncVars>>
  BY DEF CloseOwnTab
<1>2. ToSet(view'.tabs) = ToSet(view.tabs) \ {t}
  BY <1>1, Typed, RemoveTabKeeps DEF Base
<1>3. sent \in RequestSet /\ sent.arg = t /\ sent.op = "kill"
  BY RequestTypes, RequestIs
<1> HIDE DEF sent
<1>4. sent \in ToSet(requests')
  BY <1>1, <1>3, Appended DEF Base, WireOK
<1>5. \A u \in ToSet(view.tabs) \ ToSet(view'.tabs) :
          \E r \in ToSet(requests') : r.op = "kill" /\ r.arg = u
  BY <1>2, <1>3, <1>4
<1>6. QED
  BY <1>1, <1>2, <1>3, <1>5, SentInTouch

\* A snapshot is asked for: it stands for everything that was on its way.
LEMMA SyncInTouch ==
    ASSUME Base, Touch, sync.stage # "list",
           requests' = Append(requests, Request("sync", 0, None)),
           sync'.stage = "list",
           UNCHANGED <<serverVars, replies, view, known, focusVars, choice>>,
           ToSet(notices') \subseteq ToSet(notices)
    PROVE  Touch'
PROOF
<1> DEFINE x == Request("sync", 0, None)
<1>1. x \in RequestSet /\ x.op = "sync"
  BY RequestTypes, RequestIs
<1> HIDE DEF x
<1>2. requests' = Append(requests, x)
  BY DEF x
<1>3. /\ Sending' /\ (Activations(Line) = {} => (Activations(Line) = {})')
      /\ ToSet(requests') = ToSet(requests) \cup {x}
      /\ Pushed(Line, Line', InLine(x))
  BY <1>1, <1>2, SentOther DEF Base, Touch, serverVars, focusVars
<1>4. OneResync(Line', replies', sync'.stage)
  <2>1. InLine(x).op = "sync"
    BY <1>1 DEF InLine
  <2>2. QED
    BY <1>3, <2>1, ResyncPushed DEF Touch
<1>5. NoneForgotten'
  BY Typed, ForgetsNone DEF Base, serverVars, focusVars
<1>6. AllComing'
  BY <1>1, <1>3 DEF AllComing, Coming
<1>7. FocusHolds'
  BY <1>3, FocusSame DEF Touch, serverVars, focusVars
<1>8. QED
  BY <1>3, <1>4, <1>5, <1>6, <1>7 DEF Touch, focusVars

\* The same when the resync that runs is asked to run again.
LEMMA ResyncInTouch ==
    ASSUME Base, Touch, ResyncStep(requests),
           UNCHANGED <<serverVars, replies, view, known, focusVars, choice>>,
           ToSet(notices') \subseteq ToSet(notices)
    PROVE  Touch'
PROOF
<1>1. sync \in Syncs /\ requests \in Seq(RequestSet)
  BY Typed DEF Base, WireOK
<1>2. /\ sync.stage # "idle" =>
            /\ requests' = requests
            /\ sync'.stage = sync.stage /\ sync'.pending
      /\ sync.stage = "idle" =>
            /\ requests' = Append(requests, Request("sync", 0, None))
            /\ sync'.stage = "list"
  BY <1>1, Resyncs
<1>3. CASE sync.stage = "idle"
  BY <1>2, <1>3, SyncInTouch
<1>4. CASE sync.stage # "idle"
  <2>1. requests' = requests /\ sync'.stage = sync.stage /\ sync'.pending
    BY <1>2, <1>4
  <2>2. Sending' /\ Line' = Line
    BY <2>1, StillSending DEF Touch, serverVars, focusVars
  <2>3. NoneForgotten'
    BY Typed, ForgetsNone DEF Base, serverVars, focusVars
  <2>4. AllComing'
    BY <1>4, <2>1 DEF AllComing, Coming
  <2>5. FocusHolds'
    BY <2>2, FocusSame DEF Touch, serverVars, focusVars
  <2>6. QED
    BY <2>1, <2>2, <2>3, <2>4, <2>5 DEF Touch, focusVars
<1>5. QED
  BY <1>3, <1>4

LEMMA RunScheduledTouch ==
    ASSUME Base, Touch, RunScheduled
    PROVE  Touch'
BY ResyncInTouch DEF RunScheduled

LEMMA FinishResyncTouch ==
    ASSUME Base, Touch, FinishResync
    PROVE  Touch'
PROOF
<1>1. /\ sync.stage = "status"
      /\ UNCHANGED <<serverVars, notices, identified, link, replies,
                     view, known, focusVars, order, scheduled, choice, events>>
  BY DEF FinishResync
<1>2. CASE sync.pending
  <2>1. /\ sync' = [stage |-> "list", pending |-> FALSE]
        /\ requests' = Append(requests, Request("sync", 0, None))
    BY <1>2 DEF FinishResync
  <2>2. sync'.stage = "list"
    BY <2>1
  <2>3. QED
    BY <1>1, <2>1, <2>2, SyncInTouch
<1>3. CASE ~sync.pending
  <2>1. /\ sync' = [stage |-> "idle", pending |-> FALSE]
        /\ requests' = requests
    BY <1>3 DEF FinishResync
  <2>2. Sending' /\ Line' = Line
    BY <1>1, <2>1, StillSending DEF Touch, serverVars, focusVars
  <2>3. NoneForgotten'
    BY <1>1, Typed, ForgetsNone DEF Base, serverVars, focusVars
  <2>4. AllComing'
    BY <1>1, <1>3, <2>1 DEF Touch, AllComing, Coming, serverVars
  <2>5. FocusHolds'
    BY <1>1, <2>2, FocusSame DEF Touch, serverVars, focusVars
  <2>6. OneResync(Line', replies', sync'.stage)
    BY <1>1, <2>1, <2>2 DEF Touch, OneResync
  <2>7. QED
    BY <1>1, <2>2, <2>3, <2>4, <2>5, <2>6 DEF Touch, focusVars
<1>4. QED
  BY <1>2, <1>3

LEMMA TakeNoticeTouch ==
    ASSUME Base, Touch, TakeNotice
    PROVE  Touch'
PROOF
<1> DEFINE n == Head(notices)
<1>1. /\ notices # <<>> /\ notices' = Tail(notices)
      /\ UNCHANGED <<serverVars, identified, link, replies, focusVars,
                     order, scheduled, choice, events>>
      /\ \/ /\ ResyncStep(requests)
            /\ UNCHANGED <<view, known>>
         \/ /\ n.kind = "removed"
            /\ ToSet(view'.tabs) = ToSet(view.tabs) \ {n.tab}
            /\ known' = known \cap ToSet(view'.tabs)
            /\ UNCHANGED <<sync, requests>>
         \/ /\ n.kind = "order"
            /\ ToSet(view'.tabs) = ToSet(view.tabs)
            /\ UNCHANGED <<known, sync, requests>>
  BY TakeNoticeIs
<1>2. ToSet(notices) = {n} \cup ToSet(notices')
  BY <1>1, Taken DEF Base, WireOK
<1> HIDE DEF n
<1>3. CASE ResyncStep(requests) /\ UNCHANGED <<view, known>>
  BY <1>1, <1>2, <1>3, ResyncInTouch
<1>4. CASE /\ n.kind = "removed"
           /\ ToSet(view'.tabs) = ToSet(view.tabs) \ {n.tab}
           /\ known' = known \cap ToSet(view'.tabs)
           /\ UNCHANGED <<sync, requests>>
  <2>1. n.tab \notin ToSet(server.tabs)
    BY <1>2, <1>4 DEF Touch, NoneForgotten
  <2>2. NoneForgotten'
    BY <1>1, <1>2, <1>4 DEF Touch, NoneForgotten, serverVars, focusVars
  <2>3. AllComing'
    BY <1>1, <1>2, <1>4, <2>1 DEF Touch, AllComing, Coming, serverVars
  <2>4. QED
    BY <1>1, <1>4, <2>2, <2>3, StillInTouch DEF serverVars
<1>5. CASE /\ n.kind = "order"
           /\ ToSet(view'.tabs) = ToSet(view.tabs)
           /\ UNCHANGED <<known, sync, requests>>
  <2>1. NoneForgotten'
    BY <1>1, <1>2, <1>5, Typed, ForgetsNone DEF Base, serverVars, focusVars
  <2>2. AllComing'
    BY <1>1, <1>2, <1>5 DEF Touch, AllComing, Coming, serverVars
  <2>3. QED
    BY <1>1, <1>5, <2>1, <2>2, StillInTouch DEF serverVars
<1>6. QED
  BY <1>1, <1>3, <1>4, <1>5

\* A choice is queued.
LEMMA QueueSending ==
    ASSUME Base, Sending, NEW t \in Tabs, generation < MaxChoices,
           QueueActive(t), UNCHANGED replies
    PROVE  /\ Sending'
           /\ outbox'.desired # None /\ outbox'.desired.tab = t
           /\ ToSet(requests) \subseteq ToSet(requests')
           /\ \A stage : OneResync(Line, replies, stage) =>
                 OneResync(Line', replies, stage)
PROOF
<1> DEFINE new == generation + 1
           intent == [generation |-> new, tab |-> t, acknowledged |-> FALSE]
<1>1. /\ generation' = new /\ new \in Generations /\ intent \in Intents
      /\ outbox' \in Boxes /\ outbox'.inFlight /\ outbox'.desired = intent
      /\ outbox.inFlight =>
            /\ outbox'.pending = intent
            /\ flush' = flush /\ requests' = requests
      /\ ~outbox.inFlight =>
            /\ outbox'.pending = None
            /\ flush' = [flush EXCEPT ![new] = intent]
            /\ requests' = Append(requests, Request("tab", new, t))
  BY QueueActiveKeeps DEF Base
<1>2. generation \in Nat /\ flush \in Flushes
  BY Typed, ClientAssumption DEF Base, Flushes
<1>3. /\ intent # None /\ intent.tab = t /\ intent.generation = new
      /\ ~intent.acknowledged
  BY <1>1, IntentFacts
<1> HIDE DEF intent
<1>4. Chase(Line, flush, outbox, generation)
  BY DEF Sending
<1>5. ASSUME NEW r \in ToSet(replies) \cup ToSet(requests),
             r.op \in {"tab", "pane"}
      PROVE  /\ r.by \in Generations /\ r.by # new
             /\ flush[r.by].generation # new
  <2>1. r.by \in Generations /\ flush[r.by] # None
    BY <1>5, TaskOf DEF Base
  <2>2. /\ r.by <= generation /\ flush[r.by].generation <= generation
        /\ flush[r.by] \in Intents
    BY <1>2, <1>4, <2>1 DEF Chase, Tasks, Flushes
  <2>3. r.by \in Nat /\ flush[r.by].generation \in Nat
    BY <2>1, <2>2, IntentFacts DEF Generations
  <2>4. QED
    BY <1>2, <2>1, <2>2, <2>3
<1>6. CASE outbox.inFlight
  <2>1. Chase(Line, flush, outbox', new)
    BY <1>1, <1>2, <1>3, <1>4, <1>6, ChaseQueued
  <2>2. Line' = Line /\ flush' = flush /\ requests' = requests
    BY <1>1, <1>6 DEF Line
  <2>3. Shows(replies, flush, outbox', server'.active)
    BY <1>1, <1>3, <1>5 DEF Shows
  <2>4. Sending'
    BY <1>1, <2>1, <2>2, <2>3 DEF Sending
  <2>5. QED
    BY <1>1, <1>3, <2>2, <2>4
<1>7. CASE ~outbox.inFlight
  <2> DEFINE x == Request("tab", new, t)
             F == [flush EXCEPT ![new] = intent]
  <2>1. x \in RequestSet /\ x.op = "tab" /\ x.by = new /\ x.arg = t
    BY <1>1, RequestTypes, RequestIs
  <2>2. /\ requests' = Append(requests, x) /\ flush' = F
        /\ outbox'.pending = None
    BY <1>1, <1>7
  <2> HIDE DEF x
  <2>3. Pushed(Line, Line', InLine(x))
    <3>1. Pushed(LineOf(replies, requests),
                 LineOf(replies, Append(requests, x)), InLine(x))
      BY <2>1, LineSent DEF Base, WireOK
    <3>2. QED
      BY <2>2, <3>1 DEF Line
  <2>4. InLine(x).op = "tab" /\ InLine(x).by = new
    BY <2>1 DEF InLine
  <2>5. Chase(Line', F, outbox', new)
    BY <1>1, <1>2, <1>3, <1>4, <2>2, <2>3, <2>4, ChaseStarted
  <2>6. F[new] = intent /\ \A h \in Generations : h # new => F[h] = flush[h]
    BY <1>1, <1>2 DEF Flushes
  <2>7. ToSet(requests') = ToSet(requests) \cup {x}
    BY <2>1, <2>2, Appended DEF Base, WireOK
  <2> HIDE DEF F
  <2>8. Shows(replies, F, outbox', server'.active)
    BY <1>1, <1>3, <1>5, <2>6 DEF Shows
  <2>9. AskedFor(requests', F)
    <3>1. ASSUME NEW r \in ToSet(requests'), r.op \in {"tab", "pane"}
          PROVE  r.arg = F[r.by].tab
      <4>1. CASE r = x
        BY <1>3, <2>1, <2>6, <4>1
      <4>2. CASE r \in ToSet(requests)
        <5>1. F[r.by] = flush[r.by]
          BY <1>5, <2>6, <3>1, <4>2
        <5>2. QED
          BY <3>1, <4>2, <5>1 DEF Sending, AskedFor
      <4>3. QED
        BY <2>7, <4>1, <4>2
    <3>2. QED
      BY <3>1 DEF AskedFor
  <2>10. Sending'
    BY <1>1, <2>2, <2>5, <2>8, <2>9 DEF Sending
  <2>11. \A stage : OneResync(Line, replies, stage) =>
             OneResync(Line', replies, stage)
    BY <2>3, <2>4, ResyncPushed
  <2>12. QED
    BY <1>1, <1>3, <2>7, <2>10, <2>11
<1>8. QED
  BY <1>6, <1>7

LEMMA ChooseTabTouch ==
    ASSUME Base, Touch, NEW t \in Tabs, ChooseTab(t)
    PROVE  Touch'
PROOF
<1>1. /\ t \in ToSet(view.tabs)
      /\ generation < MaxChoices /\ view' = SetActive(view, t) /\ focused' = t
      /\ choice' = IF t \in ToSet(server.tabs) THEN t ELSE None
      /\ IF focused # t /\ t \in known
         THEN QueueActive(t)
         ELSE UNCHANGED <<outbox, generation, flush, requests>>
      /\ UNCHANGED <<serverVars, notices, identified, link, replies,
                     known, order, syncVars, events>>
  BY DEF ChooseTab
<1>2. view'.tabs = view.tabs
  BY <1>1, Typed, SetActiveKeeps DEF Base
<1>3. NoneForgotten'
  BY <1>1, <1>2 DEF Touch, NoneForgotten, serverVars
<1>4. t \in ToSet(server.tabs) => t \in known
  BY <1>1 DEF Touch, NoneForgotten
<1>5. CASE focused # t /\ t \in known
  <2>1. QueueActive(t)
    BY <1>1, <1>5
  <2>2. /\ Sending' /\ outbox'.desired # None /\ outbox'.desired.tab = t
        /\ ToSet(requests) \subseteq ToSet(requests')
        /\ \A stage : OneResync(Line, replies, stage) =>
              OneResync(Line', replies, stage)
    BY <1>1, <2>1, QueueSending DEF Touch
  <2>3. AllComing'
    BY <1>1, <1>2, <2>2 DEF Touch, AllComing, Coming, serverVars, syncVars
  <2>4. FocusHolds'
    BY <1>1, <2>2 DEF FocusHolds
  <2>5. QED
    BY <1>1, <1>3, <2>2, <2>3, <2>4 DEF Touch, syncVars
<1>6. CASE ~(focused # t /\ t \in known)
  <2>1. UNCHANGED <<outbox, generation, flush, requests>>
    BY <1>1, <1>6
  <2>2. Sending' /\ Line' = Line
    BY <1>1, <2>1, StillSending DEF Touch, serverVars
  <2>3. AllComing'
    BY <1>1, <1>2, <2>1 DEF Touch, AllComing, Coming, serverVars, syncVars
  <2>4. FocusHolds'
    BY <1>1, <1>4, <1>6, <2>1, <2>2
       DEF Touch, FocusHolds, Settled, serverVars
  <2>5. QED
    BY <1>1, <1>3, <2>2, <2>3, <2>4 DEF Touch, syncVars
<1>7. QED
  BY <1>5, <1>6

LEMMA ServeTouch ==
    ASSUME Base, Touch, identified, Serve, link' = "up"
    PROVE  Touch'
PROOF
<1> USE DEF Base
<1> DEFINE r == Head(requests)
<1>1. /\ requests # <<>>
      /\ UNCHANGED <<used, identified, view, known, focusVars, order,
                     syncVars, events>>
  BY ServeIs
<1>2. PICK a \in ReplySet : Handled(r, a)
  BY ServeIs
<1>3. /\ ToSet(requests) = {r} \cup ToSet(requests') /\ r = requests[1]
      /\ Len(requests) \in Nat \ {0}
  BY <1>1, <1>2, Taken DEF Handled, WireOK
<1>4. ToSet(replies') = ToSet(replies) \cup {a} /\ a.op = r.op /\ a.by = r.by
  BY <1>2, Appended DEF Handled, WireOK
<1>5. Line' = Line
  <2>1. LineOf(Append(replies, a), Tail(requests)) = LineOf(replies, requests)
    BY <1>1, <1>2, LineServed DEF Handled, WireOK
  <2>2. QED
    BY <1>2, <2>1 DEF Handled, Line
<1>6. /\ Len(replies) \in Nat /\ Len(replies) + 1 \in DOMAIN Line
      /\ Line[Len(replies) + 1] = InLine(r)
      /\ \A p \in ToSet(replies) : \E i \in DOMAIN Line :
            i <= Len(replies) /\ Line[i] = InLine(p)
      /\ IsLine(Line)
  <2>1. /\ Len(replies) \in Nat
        /\ DOMAIN Line = 1..(Len(replies) + Len(requests))
        /\ \A i \in 1..Len(requests) :
              Line[Len(replies) + i] = InLine(requests[i])
        /\ \A p \in ToSet(replies) : \E i \in DOMAIN Line :
              i <= Len(replies) /\ Line[i] = InLine(p)
    BY LineIs DEF WireOK, Line
  <2>2. 1 \in 1..Len(requests) /\ Len(replies) + 1 \in DOMAIN Line
    BY <1>3, <2>1
  <2>3. IsLine(Line)
    BY LineHas DEF WireOK, Line
  <2>4. QED
    BY <1>3, <2>1, <2>2, <2>3
<1>7. /\ Chase(Line, flush, outbox, generation)
      /\ Shows(replies, flush, outbox, server.active)
      /\ AskedFor(requests, flush)
  BY DEF Touch, Sending
<1> HIDE DEF r
<1>8. r.op \in {"tab", "pane"} =>
         /\ Activations(Line) # {}
         /\ Len(replies) + 1 \in Activations(Line)
         /\ r.arg = flush[r.by].tab
  BY <1>3, <1>6, <1>7 DEF Activations, InLine, AskedFor
<1>9. ASSUME outbox.desired # None
      PROVE  /\ outbox.desired.acknowledged =>
                    server'.active = outbox.desired.tab
             /\ \A p \in ToSet(replies') :
                   p.op = "pane" /\ p.ok
                       /\ flush[p.by].generation = outbox.desired.generation
                       => server'.active = outbox.desired.tab
  <2>1. CASE outbox.desired.acknowledged
    <3>1. Activations(Line) = {}
      BY <1>7, <1>9, <2>1 DEF Chase, Chased, Waiting
    <3>2. server'.active = server.active
      BY <1>2, <1>8, <3>1 DEF Handled
    <3>3. QED
      BY <1>7, <1>9, <2>1, <3>2 DEF Shows
  <2>2. CASE ~outbox.desired.acknowledged
    <3>1. ASSUME NEW p \in ToSet(replies'), p.op = "pane", p.ok,
                 flush[p.by].generation = outbox.desired.generation
          PROVE  server'.active = outbox.desired.tab
      <4>1. CASE p \in ToSet(replies)
        <5>1. server.active = outbox.desired.tab
          BY <1>7, <1>9, <3>1, <4>1 DEF Shows
        <5>2. PICK i \in DOMAIN Line : i <= Len(replies) /\ Line[i] = InLine(p)
          BY <1>6, <4>1
        <5>3. i \in Activations(Line) /\ Line[i].op = "pane" /\ Line[i].by = p.by
          BY <3>1, <5>2 DEF Activations, InLine
        <5>4. Newest(Line, flush, outbox, i)
          BY <1>6, <1>7, <1>9, <2>2, <3>1, <5>3, NewestIs
        <5>5. i \in Nat
          BY <1>6, <5>2 DEF IsLine
        <5>6. Len(replies) + 1 > i
          BY <1>6, <5>2, <5>5
        <5>7. r.op \notin {"tab", "pane"}
          BY <1>8, <5>3, <5>4, <5>6 DEF Newest
        <5>8. QED
          BY <1>2, <5>1, <5>7 DEF Handled
      <4>2. CASE p = a
        <5>1. r.op = "pane" /\ a.ok /\ r.by = p.by
          BY <1>4, <3>1, <4>2
        <5>2. server'.active = r.arg /\ r.arg = flush[r.by].tab
          BY <1>2, <1>8, <5>1 DEF Handled
        <5>3. Line[Len(replies) + 1].by = r.by
          BY <1>6 DEF InLine
        <5>4. Newest(Line, flush, outbox, Len(replies) + 1)
          BY <1>6, <1>7, <1>8, <1>9, <2>2, <3>1, <5>1, <5>3, NewestIs
        <5>5. QED
          BY <5>2, <5>3, <5>4 DEF Newest
      <4>3. QED
        BY <1>4, <4>1, <4>2
    <3>2. QED
      BY <2>2, <3>1
  <2>3. QED
    BY <2>1, <2>2
<1>10. Sending'
  <2>1. Shows(replies', flush', outbox', server'.active)
    BY <1>1, <1>9 DEF Shows, focusVars
  <2>2. AskedFor(requests', flush')
    BY <1>1, <1>3, <1>7 DEF AskedFor, focusVars
  <2>3. QED
    BY <1>1, <1>5, <1>7, <2>1, <2>2 DEF Sending, focusVars
<1>11. OneResync(Line', replies', sync'.stage)
  BY <1>1, <1>2, <1>4, <1>5 DEF Touch, OneResync, Handled, syncVars
<1>12. NoneForgotten'
  <2>1. ToSet(server'.tabs) \subseteq ToSet(server.tabs)
    BY <1>2 DEF Handled
  <2>2. \A p \in ToSet(replies') :
            \/ p \in ToSet(replies) \/ p.op # "sync"
            \/ ToSet(p.list.tabs) = ToSet(server.tabs)
    BY <1>2, <1>4 DEF Handled
  <2>3. \A n \in ToSet(notices') :
            \/ n \in ToSet(notices) \/ n.kind # "removed"
            \/ n.tab \in ToSet(server.tabs) \ ToSet(server'.tabs)
    BY <1>2 DEF Handled
  <2>4. QED
    BY <1>1, <2>1, <2>2, <2>3, Typed, ForgetsNone DEF focusVars
<1>13. AllComing'
  <2>1. ASSUME NEW u \in ToSet(server'.tabs), u \notin known \cap ToSet(view.tabs)
        PROVE  (Coming(u))'
    <3>1. u \in ToSet(server.tabs) /\ (r.op = "kill" => r.arg # u)
      BY <1>2, <2>1 DEF Handled
    <3>2. Coming(u)
      BY <2>1, <3>1 DEF Touch, AllComing
    <3>3. CASE r.op = "sync"
      <4>1. a \in ToSet(replies') /\ a.op = "sync" /\ u \in ToSet(a.list.tabs)
        BY <1>2, <1>4, <3>1, <3>3 DEF Handled
      <4>2. QED
        BY <4>1 DEF Coming
    <3>4. CASE r.op # "sync"
      <4>1. \A n \in ToSet(notices) : n.kind = "added" => n \in ToSet(notices')
        BY <1>2 DEF Handled
      <4>2. \A q \in ToSet(requests) :
                q.op = "sync" \/ (q.op = "kill" /\ q.arg = u)
                    => q \in ToSet(requests')
        BY <1>3, <3>1, <3>4
      <4>3. QED
        BY <1>1, <1>4, <3>2, <4>1, <4>2 DEF Coming, syncVars
    <3>5. QED
      BY <3>3, <3>4
  <2>2. QED
    BY <1>1, <2>1 DEF AllComing
<1>14. FocusHolds'
  <2>1. ASSUME focused \in ToSet(server'.tabs), outbox.desired = None
        PROVE  (Settled(focused))'
    <3>1. Settled(focused)
      BY <1>2, <2>1 DEF Touch, FocusHolds, Handled
    <3>2. server'.active = server.active
      BY <1>2, <1>8, <3>1 DEF Handled, Settled
    <3>3. \A p \in ToSet(replies') : p.op = "sync" => p.list.active = focused
      BY <1>2, <1>4, <3>1 DEF Handled, Settled
    <3>4. QED
      BY <1>1, <1>5, <3>1, <3>2, <3>3 DEF Settled, focusVars
  <2>2. ToSet(server'.tabs) \subseteq ToSet(server.tabs)
    BY <1>2 DEF Handled
  <2>3. QED
    BY <1>1, <2>1, <2>2 DEF Touch, FocusHolds, focusVars
<1>15. choice' \in {choice, None} /\ focused' = focused
  BY <1>1, <1>2 DEF Handled, focusVars
<1>16. QED
  BY <1>10, <1>11, <1>12, <1>13, <1>14, <1>15 DEF Touch

\* The line once the oldest answer is taken.
NextLine == LineOf(Tail(replies), requests)

LEMMA Heads ==
    ASSUME WireOK, replies # <<>>
    PROVE  LET r == Head(replies)
           IN  /\ Popped(Line, NextLine) /\ IsLine(Line) /\ 1 \in DOMAIN Line
               /\ Line[1].op = r.op /\ Line[1].by = r.by
               /\ r.op \in {"tab", "pane"} => 1 \in Activations(Line)
               /\ r \in ReplySet /\ r \in ToSet(replies)
               /\ ToSet(replies) = {r} \cup ToSet(Tail(replies))
PROOF
<1> DEFINE r == Head(replies)
<1>1. /\ Popped(Line, NextLine) /\ 1 \in DOMAIN Line /\ Line[1] = InLine(r)
  BY LineTaken DEF WireOK, Line, NextLine
<1>2. IsLine(Line)
  BY LineHas DEF WireOK, Line
<1>3. /\ r \in ReplySet /\ r \in ToSet(replies)
      /\ ToSet(replies) = {r} \cup ToSet(Tail(replies))
  BY Taken DEF WireOK
<1>4. Line[1].op = r.op /\ Line[1].by = r.by
  BY <1>1 DEF InLine
<1>5. r.op \in {"tab", "pane"} => 1 \in Activations(Line)
  BY <1>1, <1>4 DEF Activations
<1>6. QED
  BY <1>1, <1>2, <1>3, <1>4, <1>5

\* A request follows the answer that is taken.
LEMMA NextSent ==
    ASSUME WireOK, replies # <<>>, replies' = Tail(replies),
           NEW x \in RequestSet, requests' = Append(requests, x)
    PROVE  /\ Pushed(NextLine, Line', InLine(x))
           /\ InLine(x).op = x.op /\ InLine(x).by = x.by
           /\ ToSet(requests') = ToSet(requests) \cup {x}
PROOF
<1>1. Tail(replies) \in Seq(ReplySet)
  BY Taken DEF WireOK
<1>2. Pushed(LineOf(Tail(replies), requests),
             LineOf(Tail(replies), Append(requests, x)), InLine(x))
  BY <1>1, LineSent DEF WireOK
<1>3. ToSet(requests') = ToSet(requests) \cup {x}
  BY Appended DEF WireOK
<1>4. QED
  BY <1>2, <1>3 DEF NextLine, Line, InLine

\* An answer that is no snapshot is taken.
LEMMA TabsStay ==
    ASSUME Base, Touch, replies # <<>>, Head(replies).op # "sync",
           replies' = Tail(replies),
           ToSet(requests) \subseteq ToSet(requests'),
           UNCHANGED <<serverVars, notices, view, known, sync>>,
           focused' \in {focused, None}, scheduled > 0 => scheduled' > 0
    PROVE  NoneForgotten' /\ AllComing'
PROOF
<1>1. ToSet(replies) = {Head(replies)} \cup ToSet(replies')
  BY Heads DEF Base
<1>2. NoneForgotten'
  BY <1>1 DEF Touch, NoneForgotten, serverVars
<1>3. ASSUME NEW t, Coming(t) PROVE (Coming(t))'
  <2>1. \A r \in ToSet(replies) : r.op = "sync" => r \in ToSet(replies')
    BY <1>1
  <2>2. QED
    BY <1>3, <2>1 DEF Coming
<1>4. AllComing'
  BY <1>3 DEF Touch, AllComing, serverVars
<1>5. QED
  BY <1>2, <1>4

\* The one resync there is goes on.
LEMMA ResyncStays ==
    ASSUME Base, Touch, replies # <<>>, Head(replies).op # "sync",
           replies' = Tail(replies), sync' = sync,
           \/ requests' = requests
           \/ \E x \in RequestSet : /\ x.op \notin {"sync", "attach"}
                                    /\ requests' = Append(requests, x)
    PROVE  OneResync(Line', replies', sync'.stage)
PROOF
<1>1. /\ Popped(Line, NextLine) /\ 1 \in DOMAIN Line
      /\ Line[1].op = Head(replies).op
      /\ ToSet(replies') \subseteq ToSet(replies)
  BY Heads DEF Base
<1>2. OneResync(NextLine, replies', sync.stage)
  BY <1>1, ResyncPopped DEF Touch
<1>3. CASE requests' = requests
  <2>1. Line' = NextLine
    BY <1>3 DEF Line, NextLine
  <2>2. QED
    BY <1>2, <2>1
<1>4. ASSUME NEW x \in RequestSet, x.op \notin {"sync", "attach"},
             requests' = Append(requests, x)
      PROVE  OneResync(Line', replies', sync'.stage)
  <2>1. Pushed(NextLine, Line', InLine(x)) /\ InLine(x).op = x.op
    BY <1>4, NextSent DEF Base
  <2>2. QED
    BY <1>2, <1>4, <2>1, ResyncPushed
<1>5. QED
  BY <1>3, <1>4

\* The answer to KillPane or SetTabOrder is taken.
LEMMA TakeOtherTouch ==
    ASSUME Base, Touch, replies # <<>>, Head(replies).op \in {"kill", "order"},
           replies' = Tail(replies),
           \/ requests' = requests
           \/ \E x \in RequestSet : /\ x.op = "order"
                                    /\ requests' = Append(requests, x),
           UNCHANGED <<serverVars, notices, view, known, focusVars, sync, choice>>,
           scheduled > 0 => scheduled' > 0
    PROVE  Touch'
PROOF
<1>1. /\ Popped(Line, NextLine) /\ Line[1].op = Head(replies).op
      /\ ToSet(replies') \subseteq ToSet(replies)
  BY Heads DEF Base
<1>2. /\ Chase(NextLine, flush, outbox, generation)
      /\ Activations(Line) = {} => Activations(NextLine) = {}
  BY <1>1, ChasePopped DEF Touch, Sending
<1>3. /\ Chase(Line', flush, outbox, generation)
      /\ Activations(Line) = {} => Activations(Line') = {}
      /\ ToSet(requests) \subseteq ToSet(requests')
      /\ AskedFor(requests', flush)
  <2>1. CASE requests' = requests
    <3>1. Line' = NextLine
      BY <2>1 DEF Line, NextLine
    <3>2. QED
      BY <1>2, <2>1, <3>1 DEF Touch, Sending
  <2>2. ASSUME NEW x \in RequestSet, x.op = "order",
               requests' = Append(requests, x)
        PROVE  /\ Chase(Line', flush, outbox, generation)
               /\ Activations(Line) = {} => Activations(Line') = {}
               /\ ToSet(requests) \subseteq ToSet(requests')
               /\ AskedFor(requests', flush)
    <3>1. /\ Pushed(NextLine, Line', InLine(x)) /\ InLine(x).op = x.op
          /\ ToSet(requests') = ToSet(requests) \cup {x}
      BY <2>2, NextSent DEF Base
    <3>2. InLine(x).op \notin {"tab", "pane"}
      BY <2>2, <3>1
    <3>3. Chase(Line', flush, outbox, generation)
      BY <1>2, <3>1, <3>2, ChasePushed
    <3>4. PICK e \in Nat : AddedAt(NextLine, Line', InLine(x), e)
      BY <3>1, PushedPlaces
    <3>5. Activations(Line') = Activations(NextLine)
      BY <3>2, <3>4 DEF AddedAt
    <3>6. AskedFor(requests', flush)
      BY <2>2, <3>1 DEF Touch, Sending, AskedFor
    <3>7. QED
      BY <1>2, <3>1, <3>3, <3>5, <3>6
  <2>3. QED
    BY <2>1, <2>2
<1>4. Shows(replies', flush, outbox, server.active)
  BY <1>1 DEF Touch, Sending, Shows
<1>5. Sending'
  BY <1>3, <1>4 DEF Sending, serverVars, focusVars
<1>6. OneResync(Line', replies', sync'.stage)
  BY ResyncStays
<1>7. NoneForgotten' /\ AllComing'
  BY <1>3, TabsStay DEF focusVars
<1>8. FocusHolds'
  BY <1>1, <1>3, FocusSame DEF Touch, serverVars, focusVars
<1>9. QED
  BY <1>5, <1>6, <1>7, <1>8 DEF Touch, focusVars

LEMMA TakeTabSetTouch ==
    ASSUME Base, Touch, replies # <<>>, replies' = Tail(replies),
           TakeTabSet(Head(replies)),
           UNCHANGED <<serverVars, notices>>
    PROVE  Touch'
PROOF
<1> DEFINE r == Head(replies)
           x == Request("pane", r.by, flush[r.by].tab)
<1>1. /\ r.op = "tab" /\ requests' = Append(requests, x)
      /\ UNCHANGED <<view, known, focusVars, order, syncVars, choice>>
  BY DEF TakeTabSet
<1>2. /\ Popped(Line, NextLine) /\ IsLine(Line)
      /\ Line[1].op = r.op /\ Line[1].by = r.by
      /\ r.op \in {"tab", "pane"} => 1 \in Activations(Line)
      /\ r \in ToSet(replies)
      /\ ToSet(replies') \subseteq ToSet(replies)
  BY Heads DEF Base
<1>3. r.by \in Generations /\ flush[r.by] \in Intents
  <2>1. r.by \in Generations /\ flush[r.by] # None
    BY <1>1, <1>2, TaskOf DEF Base, Touch
  <2>2. QED
    BY <2>1, Typed DEF Base
<1>4. /\ x \in RequestSet /\ x.op = "pane" /\ x.by = r.by
      /\ x.arg = flush[r.by].tab
  BY <1>3, IntentFacts, RequestTypes, RequestIs
<1> HIDE DEF x, r
<1>5. /\ Pushed(NextLine, Line', InLine(x))
      /\ InLine(x).op = x.op /\ InLine(x).by = x.by
      /\ ToSet(requests') = ToSet(requests) \cup {x}
  BY <1>1, <1>4, NextSent DEF Base
<1>6. flush \in Flushes
  BY Typed DEF Base, Flushes
<1>7. Chase(Line', flush, outbox, generation)
  BY <1>1, <1>2, <1>4, <1>5, <1>6, ChaseTab DEF Touch, Sending
<1>8. Shows(replies', flush, outbox, server.active)
  BY <1>2 DEF Touch, Sending, Shows
<1>9. AskedFor(requests', flush)
  BY <1>4, <1>5 DEF Touch, Sending, AskedFor
<1>10. Sending'
  BY <1>1, <1>7, <1>8, <1>9 DEF Sending, serverVars, focusVars
<1>11. OneResync(Line', replies', sync'.stage)
  BY <1>1, <1>4, ResyncStays DEF r, syncVars
<1>12. NoneForgotten' /\ AllComing'
  BY <1>1, <1>5, TabsStay DEF r, focusVars, syncVars
<1>13. FocusHolds'
  <2>1. Activations(Line) # {}
    BY <1>1, <1>2
  <2>2. QED
    BY <1>1, <1>2, <2>1, FocusSame DEF Touch, serverVars, focusVars
<1>14. QED
  BY <1>1, <1>10, <1>11, <1>12, <1>13 DEF Touch, focusVars

LEMMA TakeActivateFailedTouch ==
    ASSUME Base, Touch, replies # <<>>, replies' = Tail(replies),
           TakeActivateFailed(Head(replies)),
           UNCHANGED <<serverVars, notices>>
    PROVE  Touch'
PROOF
<1> DEFINE r == Head(replies)
           F == [flush EXCEPT ![r.by] = None]
<1>1. /\ r.op \in {"tab", "pane"} /\ AbortIntent(outbox) /\ flush' = F
      /\ scheduled' = scheduled + 1 /\ choice' = None
      /\ UNCHANGED <<requests, view, known, generation, order, sync>>
  BY DEF TakeActivateFailed
<1>2. /\ Popped(Line, NextLine) /\ IsLine(Line) /\ Line[1].by = r.by
      /\ 1 \in Activations(Line) /\ r \in ToSet(replies)
      /\ ToSet(replies') \subseteq ToSet(replies)
  BY <1>1, Heads DEF Base
<1>3. flush \in Flushes /\ Tasks(Line, flush, generation)
  BY Typed DEF Base, Flushes, Touch, Sending, Chase
<1>4. /\ Tasks(NextLine, F, generation)
      /\ \A i \in Activations(NextLine) : NextLine[i].by # r.by
      /\ r.by \in Generations
  <2>1. /\ Tasks(NextLine, [flush EXCEPT ![Line[1].by] = None], generation)
        /\ \A i \in Activations(NextLine) : NextLine[i].by # Line[1].by
        /\ Line[1].by \in Generations
    BY <1>2, <1>3, TasksPopped
  <2>2. QED
    BY <1>2, <2>1
<1>5. Line' = NextLine
  BY <1>1 DEF Line, NextLine
<1> HIDE DEF r
<1>6. /\ outbox' = NoEntry
      /\ focused' = IF outbox.desired # None /\ outbox.desired.tab = focused
                    THEN None ELSE focused
  BY <1>1 DEF AbortIntent
<1>7. Sending'
  <2>1. Chase(NextLine, F, NoEntry, generation)
    BY <1>4, ChaseAborted
  <2>2. Shows(replies', F, NoEntry, server'.active)
    BY NoEntryIs DEF Shows
  <2>3. AskedFor(requests, F)
    <3>1. ASSUME NEW q \in ToSet(requests), q.op \in {"tab", "pane"}
          PROVE  F[q.by] = flush[q.by]
      <4>1. q.by \in Generations
        BY <3>1, TaskOf DEF Base, Touch
      <4>2. \E i \in DOMAIN NextLine : NextLine[i] = InLine(q)
        <5>1. replies' \in Seq(ReplySet) /\ requests \in Seq(RequestSet)
          BY Taken DEF Base, WireOK
        <5>2. QED
          BY <5>1, LineHas DEF NextLine
      <4>3. q.by # r.by
        BY <1>4, <3>1, <4>2 DEF Activations, InLine
      <4>4. QED
        BY <1>3, <1>4, <4>1, <4>3 DEF Flushes
    <3>2. QED
      BY <3>1 DEF Touch, Sending, AskedFor
  <2> HIDE DEF F
  <2>4. QED
    BY <1>1, <1>5, <1>6, <2>1, <2>2, <2>3 DEF Sending
<1>8. OneResync(Line', replies', sync'.stage)
  BY <1>1, ResyncStays DEF r
<1>9. NoneForgotten' /\ AllComing'
  <2>1. scheduled > 0 => scheduled' > 0
    BY <1>1, Typed DEF Base
  <2>2. QED
    BY <1>1, <1>6, <2>1, TabsStay DEF r
<1>10. FocusHolds'
  <2>1. focused \in ToSet(server.tabs) => focused' = None
    BY <1>2, <1>6 DEF Touch, FocusHolds, Settled
  <2>2. None \notin ToSet(server.tabs)
    BY Typed, ClientAssumption DEF Base
  <2>3. QED
    BY <1>6, <2>1, <2>2 DEF FocusHolds, serverVars
<1>11. QED
  BY <1>1, <1>7, <1>8, <1>9, <1>10 DEF Touch

\* What is left of the line belongs to other tasks than the answer taken.
LEMMA OtherTasks ==
    ASSUME Base, Touch, replies # <<>>, Head(replies).op \in {"tab", "pane"},
           NEW q \in ToSet(Tail(replies)) \cup ToSet(requests),
           q.op \in {"tab", "pane"}
    PROVE  q.by \in Generations /\ q.by # Head(replies).by
PROOF
<1>1. /\ Popped(Line, NextLine) /\ IsLine(Line)
      /\ Line[1].by = Head(replies).by /\ 1 \in Activations(Line)
      /\ ToSet(Tail(replies)) \subseteq ToSet(replies)
  BY Heads DEF Base
<1>2. flush \in Flushes /\ Tasks(Line, flush, generation)
  BY Typed DEF Base, Flushes, Touch, Sending, Chase
<1>3. \A i \in Activations(NextLine) : NextLine[i].by # Line[1].by
  BY <1>1, <1>2, TasksPopped
<1>4. Tail(replies) \in Seq(ReplySet) /\ requests \in Seq(RequestSet)
  BY Taken DEF Base, WireOK
<1>5. \E i \in DOMAIN NextLine : NextLine[i] = InLine(q)
  BY <1>4, LineHas DEF NextLine
<1>6. q.by \in Generations
  BY <1>1, TaskOf DEF Base, Touch
<1>7. QED
  BY <1>1, <1>3, <1>5, <1>6 DEF Activations, InLine

LEMMA TakePaneSetTouch ==
    ASSUME Base, Touch, replies # <<>>, replies' = Tail(replies),
           TakePaneSet(Head(replies)),
           UNCHANGED <<serverVars, notices>>
    PROVE  Touch'
PROOF
<1> DEFINE r == Head(replies)
           acked == Acknowledges(outbox, flush[r.by])
           box == IF acked
                  THEN [outbox EXCEPT !.desired.acknowledged = TRUE]
                  ELSE outbox
<1>1. /\ r.op = "pane" /\ r.ok /\ TakeNext(r.by, box)
      /\ scheduled' = IF acked THEN scheduled + 1 ELSE scheduled
      /\ UNCHANGED <<view, known, focused, generation, order, sync, choice>>
  BY DEF TakePaneSet
<1>2. /\ box \in Boxes
      /\ box.pending = outbox.pending /\ box.inFlight = outbox.inFlight
      /\ acked => /\ outbox.desired # None /\ box.desired # None
                  /\ outbox.desired.generation = flush[r.by].generation
                  /\ box.desired.generation = flush[r.by].generation
                  /\ box.desired.tab = outbox.desired.tab
                  /\ box.desired.acknowledged
      /\ ~acked => /\ box = outbox
                   /\ outbox.desired # None =>
                         outbox.desired.generation # flush[r.by].generation
  BY AckedIs DEF Base
<1> HIDE DEF acked, box
<1>3. /\ Popped(Line, NextLine) /\ IsLine(Line)
      /\ Line[1].op = r.op /\ Line[1].by = r.by
      /\ r.op \in {"tab", "pane"} => 1 \in Activations(Line)
      /\ r \in ToSet(replies)
      /\ ToSet(replies) = {r} \cup ToSet(replies')
  BY Heads DEF Base
<1>4. 1 \in Activations(Line)
  BY <1>1, <1>3
<1>5. r.by \in Generations /\ flush[r.by] # None
  BY <1>1, <1>3, TaskOf DEF Base, Touch
<1>6. /\ flush \in Flushes /\ outbox \in Boxes
      /\ Chase(Line, flush, outbox, generation)
      /\ Shows(replies, flush, outbox, server.active)
      /\ AskedFor(requests, flush)
  BY Typed DEF Base, Flushes, Touch, Sending
<1>7. /\ outbox' \in Boxes
      /\ outbox'.desired = box.desired /\ outbox'.pending = None
      /\ box.pending # None =>
            /\ flush' = [flush EXCEPT ![r.by] = box.pending]
            /\ requests' = Append(requests, Request("tab", r.by, box.pending.tab))
      /\ box.pending = None =>
            /\ outbox'.inFlight = FALSE
            /\ flush' = [flush EXCEPT ![r.by] = None]
            /\ requests' = requests
  BY <1>1, <1>2, <1>5, TakeNextKeeps DEF Base
<1>8. \A q \in ToSet(replies') \cup ToSet(requests) :
          q.op \in {"tab", "pane"} => q.by \in Generations /\ q.by # r.by
  BY <1>1, OtherTasks
<1> HIDE DEF r
<1>9. \A h \in Generations : h # r.by => flush'[h] = flush[h]
  BY <1>5, <1>6, <1>7 DEF Flushes
<1>10. Shows(replies', flush', outbox', server'.active)
  <2>1. CASE acked
    <3>1. server.active = outbox.desired.tab
      BY <1>1, <1>2, <1>3, <1>6, <2>1 DEF Shows
    <3>2. QED
      BY <1>2, <1>7, <2>1, <3>1 DEF Shows, serverVars
  <2>2. CASE ~acked
    <3>1. outbox'.desired = outbox.desired
      BY <1>2, <1>7, <2>2
    <3>2. ASSUME outbox.desired # None, NEW p \in ToSet(replies'),
                 p.op = "pane", p.ok,
                 flush'[p.by].generation = outbox.desired.generation
          PROVE  server.active = outbox.desired.tab
      <4>1. flush'[p.by] = flush[p.by] /\ p \in ToSet(replies)
        BY <1>3, <1>8, <1>9, <3>2
      <4>2. QED
        BY <1>6, <3>2, <4>1 DEF Shows
    <3>3. outbox.desired # None /\ outbox.desired.acknowledged =>
              server.active = outbox.desired.tab
      BY <1>6 DEF Shows
    <3>4. QED
      BY <3>1, <3>2, <3>3 DEF Shows, serverVars
  <2>3. QED
    BY <2>1, <2>2
<1>11. \A q \in ToSet(requests) :
           q.op \in {"tab", "pane"} => q.arg = flush'[q.by].tab
  BY <1>6, <1>8, <1>9 DEF AskedFor
<1>12. /\ Chase(Line', flush', outbox', generation)
       /\ AskedFor(requests', flush')
       /\ ToSet(requests) \subseteq ToSet(requests')
       /\ OneResync(Line', replies', sync'.stage)
  <2>1. CASE box.pending # None
    <3> DEFINE x == Request("tab", r.by, box.pending.tab)
    <3>1. outbox.pending # None /\ box.pending = outbox.pending
      BY <1>2, <2>1
    <3>2. ~acked
      BY <1>2, <1>5, <1>6, <3>1 DEF Chase, Waiting
    <3>3. box.pending \in Intents
      BY <1>2, <2>1, BoxFacts
    <3>4. /\ x \in RequestSet /\ x.op = "tab" /\ x.by = r.by
          /\ x.arg = box.pending.tab
      BY <1>5, <3>3, IntentFacts, RequestTypes, RequestIs
    <3>5. /\ requests' = Append(requests, x)
          /\ flush' = [flush EXCEPT ![r.by] = outbox.pending]
      BY <1>2, <1>7, <2>1
    <3> HIDE DEF x
    <3>6. /\ Pushed(NextLine, Line', InLine(x))
          /\ InLine(x).op = x.op /\ InLine(x).by = x.by
          /\ ToSet(requests') = ToSet(requests) \cup {x}
      BY <3>4, <3>5, NextSent DEF Base
    <3>7. outbox'.desired = outbox.desired
      BY <1>2, <1>7, <3>2
    <3>8. Chase(Line', [flush EXCEPT ![Line[1].by] = outbox.pending],
                outbox', generation)
      BY <1>3, <1>4, <1>6, <1>7, <3>1, <3>4, <3>6, <3>7, ChaseNext
    <3>9. flush'[r.by] = box.pending
      BY <1>5, <1>6, <3>1, <3>5 DEF Flushes
    <3>10. AskedFor(requests', flush')
      BY <1>11, <3>4, <3>6, <3>9 DEF AskedFor
    <3>11. OneResync(Line', replies', sync'.stage)
      BY <1>1, <3>4, <3>5, ResyncStays DEF r
    <3>12. QED
      BY <1>3, <3>5, <3>6, <3>8, <3>10, <3>11
  <2>2. CASE box.pending = None
    <3>1. /\ outbox.pending = None /\ outbox'.inFlight = FALSE
          /\ flush' = [flush EXCEPT ![r.by] = None] /\ requests' = requests
      BY <1>2, <1>7, <2>2
    <3>2. Line' = NextLine
      BY <3>1 DEF Line, NextLine
    <3>3. \/ /\ outbox.desired # None /\ outbox'.desired # None
             /\ flush[Line[1].by].generation = outbox.desired.generation
             /\ outbox'.desired.generation = outbox.desired.generation
             /\ outbox'.desired.acknowledged
          \/ /\ outbox'.desired = outbox.desired
             /\ outbox.desired # None =>
                   outbox.desired.generation # flush[Line[1].by].generation
      BY <1>2, <1>3, <1>7
    <3>4. Chase(NextLine, [flush EXCEPT ![Line[1].by] = None],
                outbox', generation)
      BY <1>1, <1>3, <1>4, <1>6, <1>7, <3>1, <3>3, ChaseFinish
    <3>5. AskedFor(requests', flush')
      BY <1>11, <3>1 DEF AskedFor
    <3>6. OneResync(Line', replies', sync'.stage)
      BY <1>1, <3>1, ResyncStays DEF r
    <3>7. QED
      BY <1>3, <3>1, <3>2, <3>4, <3>5, <3>6
  <2>3. QED
    BY <2>1, <2>2
<1>13. Sending'
  BY <1>1, <1>10, <1>12 DEF Sending
<1>14. NoneForgotten' /\ AllComing'
  <2>1. scheduled > 0 => scheduled' > 0
    BY <1>1, Typed DEF Base
  <2>2. QED
    BY <1>1, <1>12, <2>1, TabsStay DEF r
<1>15. FocusHolds'
  <2>1. focused \in ToSet(server.tabs) => outbox.desired # None
    BY <1>4 DEF Touch, FocusHolds, Settled
  <2>2. outbox.desired # None => /\ outbox'.desired # None
                                 /\ outbox'.desired.tab = outbox.desired.tab
    BY <1>2, <1>7
  <2>3. QED
    BY <1>1, <2>1, <2>2 DEF Touch, FocusHolds, serverVars
<1>16. QED
  BY <1>1, <1>12, <1>13, <1>14, <1>15 DEF Touch

\* A snapshot arrives.  If the tab the server was told of last is there it
\* stays the one that is wanted, and what is shown is that or stays.
LEMMA SnapshotIs ==
    ASSUME Base, Touch, replies # <<>>, Head(replies).op = "sync",
           TakeSync(Head(replies))
    PROVE  LET list == Head(replies).list
               listed == ToSet(list.tabs)
               box == AfterReconcile(outbox, list.active)
           IN  /\ list \in Lists /\ list.active \in Tabs
               /\ known' = listed /\ listed \subseteq used
               /\ known \cap ToSet(server.tabs) \subseteq listed
               /\ ToSet(view'.tabs) = ToSet(view.tabs) \cup listed
               /\ sync'.stage = "status" /\ sync'.pending = sync.pending
               /\ focused' \in {focused, None}
               /\ outbox' \in {box, NoEntry}
               /\ focused \in ToSet(server.tabs) =>
                     /\ focused' = focused /\ outbox' = box
                     /\ view'.active \in {view.active, focused}
PROOF
<1> DEFINE r == Head(replies)
           list == r.list
           listed == ToSet(list.tabs)
           box == AfterReconcile(outbox, list.active)
           wanted == Reconciled(box, list.active)
<1>1. r \in ReplySet /\ r \in ToSet(replies)
  BY Heads DEF Base
<1>2. r.op = "sync" /\ r.ok
  BY <1>1 DEF Touch, OneResync
<1>3. /\ ProcessPaneList(list) /\ sync' = [sync EXCEPT !.stage = "status"]
  BY <1>2 DEF TakeSync
<1>4. list \in Lists
  BY <1>1, <1>2, ReplyFacts
<1>5. list.active \in Tabs
  BY <1>4 DEF Lists
<1>6. sync'.stage = "status" /\ sync'.pending = sync.pending
  <2>1. sync \in Syncs
    BY Typed DEF Base
  <2>2. QED
    BY <1>3, <2>1 DEF Syncs
<1>7. listed \subseteq used /\ known \cap ToSet(server.tabs) \subseteq listed
  BY <1>1, <1>2 DEF Touch, NoneForgotten
<1>8. view \in Views /\ outbox \in Boxes /\ focused \in Tabs \cup {None}
  BY Typed DEF Base
<1>9. /\ known' = listed /\ ToSet(view'.tabs) = ToSet(view.tabs) \cup listed
      /\ focused' \in {focused, None}
      /\ wanted \notin known \ listed =>
            /\ outbox' = box /\ focused' = focused
            /\ view'.active \in {view.active, wanted}
      /\ wanted \in known \ listed => outbox' = NoEntry
  BY <1>3, <1>4, <1>8, ProcessKeeps
<1>10. wanted = IF outbox.desired = None THEN list.active
                ELSE outbox.desired.tab
  BY <1>5, <1>8, ReconcileIs
<1>11. focused \in ToSet(server.tabs) => wanted = focused
  BY <1>1, <1>2, <1>10 DEF Touch, FocusHolds, Settled
<1> HIDE DEF r, list, listed, box, wanted
<1>12. focused \in ToSet(server.tabs) => wanted \notin known \ listed
  BY <1>7, <1>11
<1>13. QED
  BY <1>4, <1>5, <1>6, <1>7, <1>9, <1>11, <1>12 DEF r, list, listed, box

LEMMA TakeSyncTouch ==
    ASSUME Base, Touch, ChoiceHeld, identified,
           replies # <<>>, replies' = Tail(replies),
           Head(replies).op = "sync", TakeSync(Head(replies)),
           UNCHANGED <<serverVars, notices>>
    PROVE  Touch'
PROOF
<1> DEFINE r == Head(replies)
           list == r.list
           listed == ToSet(list.tabs)
           box == AfterReconcile(outbox, list.active)
<1>1. UNCHANGED <<requests, generation, flush, order, scheduled, choice>>
  BY DEF TakeSync
<1>2. /\ list.active \in Tabs
      /\ known' = listed /\ listed \subseteq used
      /\ known \cap ToSet(server.tabs) \subseteq listed
      /\ ToSet(view'.tabs) = ToSet(view.tabs) \cup listed
      /\ sync'.stage = "status" /\ sync'.pending = sync.pending
      /\ focused' \in {focused, None} /\ outbox' \in {box, NoEntry}
      /\ focused \in ToSet(server.tabs) => focused' = focused /\ outbox' = box
  BY SnapshotIs
<1>3. /\ Popped(Line, NextLine) /\ IsLine(Line) /\ 1 \in DOMAIN Line
      /\ Line[1].op = r.op
      /\ ToSet(replies) = {r} \cup ToSet(replies')
  BY Heads DEF Base
<1>4. Line' = NextLine
  BY <1>1 DEF Line, NextLine
<1>5. /\ outbox \in Boxes /\ Chase(Line, flush, outbox, generation)
      /\ Shows(replies, flush, outbox, server.active)
      /\ AskedFor(requests, flush)
  BY Typed DEF Base, Touch, Sending
<1>6. /\ Chase(NextLine, flush, outbox, generation)
      /\ Activations(Line) = {} => Activations(NextLine) = {}
  BY <1>3, <1>5, ChasePopped
<1>7. /\ box \in Boxes
      /\ \/ box = outbox
         \/ /\ outbox.desired # None /\ outbox.desired.acknowledged
            /\ outbox.desired.tab = list.active /\ box.desired = None
            /\ box.pending = outbox.pending
            /\ box.inFlight = outbox.inFlight
  BY <1>2, <1>5, ReconcileIs
<1>8. /\ OneResync(NextLine, replies', "status")
      /\ \A i \in DOMAIN NextLine : NextLine[i].op # "sync"
  BY <1>3, ResyncPopped DEF Touch
<1>9. \A q \in ToSet(replies') \cup ToSet(requests) : q.op # "sync"
  <2>1. replies' \in Seq(ReplySet) /\ requests \in Seq(RequestSet)
    BY Taken DEF Base, WireOK
  <2>2. \A q \in ToSet(replies') \cup ToSet(requests) :
            \E i \in DOMAIN NextLine : NextLine[i] = InLine(q)
    BY <2>1, LineHas DEF NextLine
  <2>3. QED
    BY <1>8, <2>2 DEF InLine
<1> HIDE DEF box, r
<1>10. \/ outbox' = outbox
       \/ outbox' \in Boxes /\ outbox'.desired = None
  BY <1>2, <1>7, NoEntryIs
<1>11. Chase(NextLine, flush, outbox', generation)
  <2>1. CASE outbox' = outbox
    BY <1>6, <2>1
  <2>2. CASE outbox' = NoEntry
    BY <1>6, <2>2, ChaseAborted DEF Chase
  <2>3. CASE outbox' = box /\ box # outbox
    BY <1>5, <1>6, <1>7, <2>3, ChaseReconciled
  <2>4. QED
    BY <1>2, <2>1, <2>2, <2>3
<1>12. Shows(replies', flush, outbox', server.active)
  BY <1>3, <1>5, <1>10 DEF Shows
<1>13. Sending'
  BY <1>1, <1>4, <1>5, <1>11, <1>12 DEF Sending, serverVars
<1>14. OneResync(Line', replies', sync'.stage)
  BY <1>2, <1>4, <1>8
<1>15. NoneForgotten'
  <2>1. /\ ToSet(view'.tabs) \cup known' \cup ({focused'} \ {None})
               \subseteq used
        /\ ToSet(view'.tabs) \cap ToSet(server.tabs) \subseteq known'
    BY <1>2 DEF Touch, NoneForgotten
  <2>2. \A n \in ToSet(notices) :
            n.kind = "removed" => n.tab \in used \ ToSet(server.tabs)
    BY DEF Touch, NoneForgotten
  <2>3. QED
    BY <1>9, <2>1, <2>2 DEF NoneForgotten, serverVars
<1>16. AllComing'
  <2>1. ASSUME NEW t \in ToSet(server.tabs), t \notin listed
        PROVE  (Coming(t))'
    <3>1. t \notin known
      BY <1>2, <2>1
    <3>2. Coming(t)
      BY <3>1 DEF Touch, AllComing
    <3>3. \A q \in ToSet(replies) : q.op = "sync" => q = r
      BY <1>3, <1>9
    <3>4. ~\E q \in ToSet(replies) : q.op = "sync" /\ t \in ToSet(q.list.tabs)
      BY <2>1, <3>3
    <3>5. sync.stage # "idle" /\ sync.pending => sync'.stage # "idle" /\ sync'.pending
      BY <1>2
    <3>6. QED
      BY <1>1, <1>9, <3>2, <3>4, <3>5 DEF Coming
  <2>2. QED
    BY <1>2, <2>1 DEF AllComing, serverVars
<1>17. FocusHolds'
  <2>1. ASSUME focused' \in ToSet(server.tabs)
        PROVE  IF outbox'.desired = None THEN (Settled(focused))'
               ELSE outbox'.desired.tab = focused
    <3>1. None \notin ToSet(server.tabs)
      BY Typed, ClientAssumption DEF Base
    <3>2. focused' = focused /\ focused \in ToSet(server.tabs) /\ outbox' = box
      BY <1>2, <2>1, <3>1
    <3>3. CASE box = outbox
      <4>1. CASE outbox.desired = None
        <5>1. Settled(focused)
          BY <3>2, <4>1 DEF Touch, FocusHolds
        <5>2. (Settled(focused))'
          BY <1>4, <1>6, <1>9, <3>2, <5>1 DEF Settled, serverVars
        <5>3. QED
          BY <3>2, <3>3, <4>1, <5>2
      <4>2. CASE outbox.desired # None
        BY <3>2, <3>3, <4>2 DEF Touch, FocusHolds
      <4>3. QED
        BY <4>1, <4>2
    <3>4. CASE /\ outbox.desired # None /\ outbox.desired.acknowledged
               /\ outbox.desired.tab = list.active /\ box.desired = None
               /\ box.pending = outbox.pending
               /\ box.inFlight = outbox.inFlight
      <4>1. Activations(NextLine) = {}
        BY <1>5, <1>6, <1>7, <3>4, ChaseReconciled
      <4>2. server.active = outbox.desired.tab
        BY <1>5, <3>4 DEF Shows
      <4>3. outbox.desired.tab = focused
        BY <3>2, <3>4 DEF Touch, FocusHolds
      <4>4. (Settled(focused))'
        BY <1>4, <1>9, <3>2, <4>1, <4>2, <4>3 DEF Settled, serverVars
      <4>5. QED
        BY <3>2, <3>4, <4>4
    <3>5. QED
      BY <1>7, <3>3, <3>4
  <2>2. server' = server /\ (focused' \in ToSet(server.tabs) => focused' = focused)
    <3>1. None \notin ToSet(server.tabs)
      BY Typed, ClientAssumption DEF Base
    <3>2. QED
      BY <1>2, <3>1 DEF serverVars
  <2>3. QED
    BY <2>1, <2>2 DEF FocusHolds, Settled
<1>18. choice' # None => choice' = focused'
  <2>1. choice # None => choice = focused /\ focused \in ToSet(server.tabs)
    BY DEF Touch, ChoiceHeld
  <2>2. QED
    BY <1>1, <1>2, <2>1
<1>19. QED
  BY <1>13, <1>14, <1>15, <1>16, <1>17, <1>18 DEF Touch

LEMMA TakeReplyTouch ==
    ASSUME Base, Touch, ChoiceHeld, identified, TakeReply
    PROVE  Touch'
PROOF
<1> DEFINE r == Head(replies)
<1>1. /\ replies # <<>> /\ replies' = Tail(replies)
      /\ UNCHANGED <<serverVars, notices, identified, link, events>>
      /\ \/ TakeSync(r) \/ TakeAttach(r) \/ TakeOrder(r) \/ TakeTabSet(r)
         \/ TakePaneSet(r) \/ TakeActivateFailed(r) \/ TakeKilled(r)
  BY DEF TakeReply
<1>2. CASE TakeSync(r)
  BY <1>1, <1>2, TakeSyncTouch DEF TakeSync
<1>3. CASE TakeAttach(r)
  <2>1. 1 \in DOMAIN Line /\ Line[1].op = "attach"
    BY <1>1, <1>3, Heads DEF Base, TakeAttach
  <2>2. QED
    BY <2>1 DEF Touch, OneResync
<1>4. CASE TakeOrder(r)
  <2>1. /\ r.op = "order" /\ scheduled' = IF r.ok THEN scheduled ELSE scheduled + 1
        /\ UNCHANGED <<view, known, focusVars, sync, choice>>
    BY <1>4 DEF TakeOrder
  <2>2. scheduled > 0 => scheduled' > 0
    BY <2>1, Typed DEF Base
  <2>3. \/ requests' = requests
        \/ \E x \in RequestSet : /\ x.op = "order"
                                 /\ requests' = Append(requests, x)
    <3>1. CASE r.ok /\ order.pending # None
      <4> DEFINE x == Request("order", 0, order.pending)
      <4>1. requests' = Append(requests, x)
        BY <1>4, <3>1 DEF TakeOrder
      <4>2. order.pending \in Orders
        BY <3>1, Typed DEF Base
      <4>3. x \in RequestSet /\ x.op = "order"
        BY <4>2, RequestTypes, RequestIs
      <4> HIDE DEF x
      <4>4. QED
        BY <4>1, <4>3
    <3>2. CASE ~(r.ok /\ order.pending # None)
      BY <1>4, <3>2 DEF TakeOrder
    <3>3. QED
      BY <3>1, <3>2
  <2>4. QED
    BY <1>1, <2>1, <2>2, <2>3, TakeOtherTouch
<1>5. CASE TakeTabSet(r)
  BY <1>1, <1>5, TakeTabSetTouch
<1>6. CASE TakePaneSet(r)
  BY <1>1, <1>6, TakePaneSetTouch
<1>7. CASE TakeActivateFailed(r)
  BY <1>1, <1>7, TakeActivateFailedTouch
<1>8. CASE TakeKilled(r)
  <2>1. /\ r.op = "kill"
        /\ UNCHANGED <<requests, view, known, focusVars, order, syncVars, choice>>
    BY <1>8 DEF TakeKilled
  <2>2. QED
    BY <1>1, <2>1, TakeOtherTouch DEF syncVars
<1>9. QED
  BY <1>1, <1>2, <1>3, <1>4, <1>5, <1>6, <1>7, <1>8

-----------------------------------------------------------------------------
(* The inductive invariant.                                                *)

LEMMA Parts ==
    IInv <=> Base /\ ChoiceHeld /\ AllFail /\ (Live => Touch)
BY TouchIs DEF IInv, Base

LEMMA PartsNext ==
    IInv' <=> Base' /\ ChoiceHeld' /\ AllFail' /\ (Live' => Touch')
BY TouchNext DEF IInv, Base

\* A step on the connection there is, which may also be closed: no answer is
\* new, and a choice that is held and not given up stays shown and stays on
\* both sides.
LEMMA Step ==
    ASSUME IInv, Base', identified' = identified, link' \in {link, "gone"},
           ToSet(replies') \subseteq ToSet(replies),
           choice' \in {choice, None},
           identified /\ choice # None /\ choice' # None
               /\ view.active = choice
               /\ choice \in ToSet(view.tabs) \cap ToSet(server.tabs)
           => /\ view'.active = choice
              /\ choice \in ToSet(view'.tabs) \cap ToSet(server'.tabs),
           Live /\ Touch /\ link' = "up" => Touch'
    PROVE  IInv'
PROOF
<1>1. Base /\ ChoiceHeld /\ AllFail /\ (Live => Touch)
  BY Parts
<1>2. ChoiceHeld'
  BY <1>1 DEF ChoiceHeld
<1>3. AllFail'
  BY <1>1 DEF AllFail
<1>4. Live' => Touch'
  BY <1>1 DEF Live
<1>5. QED
  BY <1>2, <1>3, <1>4, PartsNext

LEMMA NotifyLink ==
    ASSUME NEW n, Notify(n)
    PROVE  link' \in {link, "gone"}
BY DEF Notify

LEMMA OpenTabKeeps ==
    ASSUME IInv, NEW t \in Tabs, OpenTab(t)
    PROVE  IInv'
PROOF
<1>1. /\ Notify(Added(t))
      /\ UNCHANGED <<identified, requests, replies, view, known,
                     focusVars, order, syncVars, choice>>
  BY DEF OpenTab
<1>2. Base' /\ ToSet(server'.tabs) = ToSet(server.tabs) \cup {t}
  BY Parts, OpenTabBase
<1>3. Live /\ Touch /\ link' = "up" => Touch'
  BY Parts, OpenTabTouch DEF Live
<1>4. link' \in {link, "gone"}
  BY <1>1, NotifyLink
<1>5. QED
  BY <1>1, <1>2, <1>3, <1>4, Step

LEMMA CloseTabKeeps ==
    ASSUME IInv, NEW t \in Tabs, CloseTab(t)
    PROVE  IInv'
PROOF
<1>1. /\ Notify(Removed(t)) /\ choice' = IF choice = t THEN None ELSE choice
      /\ UNCHANGED <<used, identified, requests, replies, view, known,
                     focusVars, order, syncVars>>
  BY DEF CloseTab, RemovePane
<1>2. Base' /\ ToSet(server'.tabs) = ToSet(server.tabs) \ {t}
  BY Parts, CloseTabBase
<1>3. Live /\ Touch /\ link' = "up" => Touch'
  BY Parts, CloseTabTouch DEF Live
<1>4. link' \in {link, "gone"}
  BY <1>1, NotifyLink
<1>5. QED
  BY <1>1, <1>2, <1>3, <1>4, Step

LEMMA OtherMovesKeeps ==
    ASSUME IInv, OtherMoves
    PROVE  IInv'
PROOF
<1>1. /\ \E n : Notify(n)
      /\ UNCHANGED <<used, identified, requests, replies, view, known,
                     focusVars, order, syncVars, choice>>
  BY DEF OtherMoves
<1>2. Base' /\ ToSet(server'.tabs) = ToSet(server.tabs)
  BY Parts, OtherMovesBase
<1>3. Live /\ Touch /\ link' = "up" => Touch'
  BY Parts, OtherMovesTouch DEF Live
<1>4. link' \in {link, "gone"}
  BY <1>1, NotifyLink
<1>5. QED
  BY <1>1, <1>2, <1>3, <1>4, Step

LEMMA MoveTabKeeps ==
    ASSUME IInv, MoveTab
    PROVE  IInv'
PROOF
<1>1. UNCHANGED <<serverVars, notices, identified, link, replies,
                  known, focusVars, syncVars, choice>>
  BY DEF MoveTab
<1>2. Base' /\ ToSet(view'.tabs) = ToSet(view.tabs) /\ view'.active = view.active
  BY Parts, MoveTabBase
<1>3. Live /\ Touch /\ link' = "up" => Touch'
  BY Parts, MoveTabTouch
<1>4. QED
  BY <1>1, <1>2, <1>3, Step DEF serverVars

LEMMA CloseOwnTabKeeps ==
    ASSUME IInv, NEW t \in Tabs, CloseOwnTab(t)
    PROVE  IInv'
PROOF
<1>1. /\ t \in ToSet(view.tabs) /\ view' = RemoveTab(view, t)
      /\ choice' = IF choice = t THEN None ELSE choice
      /\ UNCHANGED <<serverVars, notices, identified, link, replies,
                     known, focusVars, order, syncVars>>
  BY DEF CloseOwnTab
<1>2. Base' /\ view \in Views
  BY Parts, CloseOwnTabBase, Typed DEF Base
<1>3. /\ ToSet(view'.tabs) = ToSet(view.tabs) \ {t}
      /\ view.active \in ToSet(view.tabs) \ {t} => view'.active = view.active
  BY <1>1, <1>2, RemoveTabKeeps
<1>4. Live /\ Touch /\ link' = "up" => Touch'
  BY Parts, CloseOwnTabTouch
<1>5. QED
  BY <1>1, <1>2, <1>3, <1>4, Step DEF serverVars

LEMMA ChooseTabKeeps ==
    ASSUME IInv, NEW t \in Tabs, ChooseTab(t)
    PROVE  IInv'
PROOF
<1>1. /\ t \in ToSet(view.tabs) /\ view' = SetActive(view, t)
      /\ choice' = IF t \in ToSet(server.tabs) THEN t ELSE None
      /\ UNCHANGED <<serverVars, notices, identified, link, replies,
                     known, order, syncVars, events>>
  BY DEF ChooseTab
<1>2. Base' /\ view \in Views /\ AllFail
  BY Parts, ChooseTabBase, Typed DEF Base
<1>3. view'.tabs = view.tabs /\ view'.active = t
  BY <1>1, <1>2, SetActiveKeeps
<1>4. ChoiceHeld'
  BY <1>1, <1>3 DEF ChoiceHeld, serverVars
<1>5. AllFail'
  BY <1>1, <1>2 DEF AllFail
<1>6. Live' => Touch'
  BY <1>1, Parts, ChooseTabTouch DEF Live
<1>7. QED
  BY <1>2, <1>4, <1>5, <1>6, PartsNext

LEMMA ResyncKeeps ==
    ASSUME IInv, RunScheduled \/ FinishResync
    PROVE  IInv'
PROOF
<1>1. UNCHANGED <<serverVars, identified, link, replies, view, choice>>
  BY DEF RunScheduled, FinishResync
<1>2. Base'
  BY Parts, RunScheduledBase, FinishResyncBase
<1>3. Live /\ Touch /\ link' = "up" => Touch'
  BY Parts, RunScheduledTouch, FinishResyncTouch
<1>4. QED
  BY <1>1, <1>2, <1>3, Step DEF serverVars

\* What the server answers while it does not know the client activates
\* nothing, and a tab that it closes is no longer the one to be shown.
LEMMA ServeKeeps ==
    ASSUME IInv, Serve
    PROVE  IInv'
PROOF
<1> DEFINE r == Head(requests)
<1>1. Base /\ ChoiceHeld /\ AllFail /\ (Live => Touch)
  BY Parts
<1>2. /\ link = "up" /\ UNCHANGED <<identified, view>>
      /\ \E a \in ReplySet : Handled(r, a)
  BY <1>1, ServeIs
<1>3. PICK a \in ReplySet : Handled(r, a)
  BY <1>2
<1>4. Base'
  BY <1>1, ServeBase
<1>5. Live' => Touch'
  BY <1>1, <1>2, ServeTouch DEF Live
<1> HIDE DEF r
<1>6. ChoiceHeld'
  <2>1. /\ choice' \in {choice, None}
        /\ choice' # None /\ choice \in ToSet(server.tabs) =>
              choice \in ToSet(server'.tabs)
    BY <1>3 DEF Handled
  <2>2. QED
    BY <1>1, <1>2, <2>1 DEF ChoiceHeld
<1>7. AllFail'
  <2>1. /\ ToSet(replies') = ToSet(replies) \cup {a} /\ link' # "down"
        /\ a.op \in {"tab", "pane"} /\ a.ok => identified
    BY <1>1, <1>3, Appended DEF Handled, Base, WireOK
  <2>2. a.ok \in BOOLEAN
    BY ReplyFacts
  <2>3. QED
    BY <1>1, <1>2, <2>1, <2>2 DEF AllFail
<1>8. QED
  BY <1>4, <1>5, <1>6, <1>7, PartsNext

LEMMA TakeNoticeKeeps ==
    ASSUME IInv, TakeNotice
    PROVE  IInv'
PROOF
<1> DEFINE n == Head(notices)
<1>1. Base /\ (Live => Touch)
  BY Parts
<1>2. /\ link = "up" /\ notices # <<>>
      /\ UNCHANGED <<serverVars, identified, link, replies, choice>>
      /\ n \in NoticeSet
      /\ \/ UNCHANGED view
         \/ /\ n.kind = "removed"
            /\ ToSet(view'.tabs) = ToSet(view.tabs) \ {n.tab}
            /\ ToSet(view.tabs) \ {n.tab} # {} => view'.active = view.active
         \/ ToSet(view'.tabs) = ToSet(view.tabs) /\ view'.active = view.active
  BY <1>1, TakeNoticeIs
<1>3. n \in ToSet(notices)
  BY <1>1, <1>2, Taken DEF Base, WireOK
<1> HIDE DEF n
<1>4. identified /\ n.kind = "removed" => n.tab \notin ToSet(server.tabs)
  BY <1>1, <1>2, <1>3 DEF Live, Touch, NoneForgotten
<1>5. Base'
  BY <1>1, TakeNoticeBase
<1>6. Live /\ Touch /\ link' = "up" => Touch'
  BY <1>1, TakeNoticeTouch
<1>7. ASSUME identified, choice # None, view.active = choice,
             choice \in ToSet(view.tabs) \cap ToSet(server.tabs)
      PROVE  /\ view'.active = choice
             /\ choice \in ToSet(view'.tabs) \cap ToSet(server'.tabs)
  BY <1>2, <1>4, <1>7 DEF serverVars
<1>8. QED
  BY <1>2, <1>5, <1>6, <1>7, Step

LEMMA PollDeadKeeps ==
    ASSUME IInv, PollDead
    PROVE  IInv'
PROOF
<1>1. /\ ShownTab \notin ToSet(server.tabs)
      /\ UNCHANGED <<serverVars, notices, wireVars, known, focusVars, order,
                     syncVars, choice, events>>
  BY DEF PollDead
<1>2. Base'
  BY Parts, PollDeadBase
<1>3. Live /\ Touch /\ link' = "up" => Touch'
  BY Parts, PollDeadTouch
<1>4. ~(view.active \in ToSet(view.tabs) \cap ToSet(server.tabs))
  BY <1>1 DEF ShownTab
<1>5. QED
  BY <1>1, <1>2, <1>3, <1>4, Step DEF wireVars

LEMMA DropKeeps ==
    ASSUME IInv, Drop
    PROVE  IInv'
PROOF
<1>1. UNCHANGED <<serverVars, identified, view, choice>>
  BY DEF Drop
<1>2. Base' /\ link' = "down" /\ \A r \in ToSet(replies') : ~r.ok
  BY Parts, DropBase
<1>3. ChoiceHeld'
  BY <1>1, Parts DEF ChoiceHeld, serverVars
<1>4. AllFail'
  BY <1>2 DEF AllFail
<1>5. ~Live'
  BY <1>2 DEF Live
<1>6. QED
  BY <1>2, <1>3, <1>4, <1>5, PartsNext

LEMMA ReconnectKeeps ==
    ASSUME IInv, Reconnect
    PROVE  IInv'
PROOF
<1>1. link = "down" /\ identified' = FALSE /\ UNCHANGED replies
  BY DEF Reconnect
<1>2. Base' /\ AllFail
  BY Parts, ReconnectBase
<1>3. AllFail'
  BY <1>1, <1>2 DEF AllFail
<1>4. ChoiceHeld' /\ ~Live'
  BY <1>1 DEF ChoiceHeld, Live
<1>5. QED
  BY <1>2, <1>3, <1>4, PartsNext

\* The client takes an answer.  A task that goes on has its intent, and a
\* snapshot that arrives while a choice is to last leaves it shown.
LEMMA TakeReplyKeeps ==
    ASSUME IInv, TakeReply
    PROVE  IInv'
PROOF
<1> DEFINE r == Head(replies)
<1>1. Base /\ ChoiceHeld /\ AllFail /\ (Live => Touch)
  BY Parts
<1>2. /\ link # "gone" /\ replies # <<>> /\ replies' = Tail(replies)
      /\ UNCHANGED <<serverVars, identified, link>>
      /\ \/ TakeSync(r) \/ TakeAttach(r) \/ TakeOrder(r) \/ TakeTabSet(r)
         \/ TakePaneSet(r) \/ TakeActivateFailed(r) \/ TakeKilled(r)
  BY DEF TakeReply
<1>3. /\ r \in ToSet(replies) /\ ToSet(replies') \subseteq ToSet(replies)
      /\ 1 \in DOMAIN Line /\ Line[1].op = r.op
  BY <1>1, <1>2, Heads DEF Base
<1>4. identified \in BOOLEAN /\ link \in {"up", "down", "gone"}
  BY <1>1, Typed DEF Base
<1>5. ~Live => (identified \/ r.op \in {"tab", "pane"} => ~r.ok)
  BY <1>1, <1>2, <1>3, <1>4 DEF AllFail, Live
<1>6. HasTask
  <2>1. ASSUME Live, r.op = "tab" PROVE flush[r.by] # None
    BY <1>1, <1>3, <2>1, TaskOf DEF Base, Touch
  <2>2. QED
    BY <1>5, <2>1 DEF HasTask
<1>7. Base'
  BY <1>1, <1>6, TakeReplyBase
<1>8. Live /\ Touch /\ link' = "up" => Touch'
  BY <1>1, TakeReplyTouch DEF Live
<1>9. choice' \in {choice, None}
  BY <1>2 DEF TakeSync, TakeAttach, TakeOrder, TakeTabSet, TakePaneSet,
              TakeActivateFailed, TakeKilled
<1>10. ASSUME identified, choice # None, view.active = choice,
              choice \in ToSet(view.tabs) \cap ToSet(server.tabs)
       PROVE  /\ view'.active = choice
              /\ choice \in ToSet(view'.tabs) \cap ToSet(server'.tabs)
  <2>1. CASE Live /\ TakeSync(r)
    <3>1. focused = choice /\ focused \in ToSet(server.tabs)
      BY <1>1, <1>10, <2>1 DEF Touch
    <3>2. r.op = "sync"
      BY <2>1 DEF TakeSync
    <3>3. /\ ToSet(view'.tabs) = ToSet(view.tabs) \cup ToSet(r.list.tabs)
          /\ view'.active \in {view.active, focused}
      BY <1>1, <1>2, <2>1, <3>1, <3>2, SnapshotIs
    <3>4. QED
      BY <1>2, <1>10, <3>1, <3>3 DEF serverVars
  <2>2. CASE Live /\ TakeAttach(r)
    BY <1>1, <1>3, <2>2 DEF Touch, OneResync, TakeAttach
  <2>3. CASE ~Live \/ ~(TakeSync(r) \/ TakeAttach(r))
    <3>1. UNCHANGED view
      BY <1>2, <1>5, <1>10, <2>3
         DEF TakeSync, TakeAttach, TakeOrder, TakeTabSet, TakePaneSet,
             TakeActivateFailed, TakeKilled
    <3>2. QED
      BY <1>2, <1>10, <3>1 DEF serverVars
  <2>4. QED
    BY <2>1, <2>2, <2>3
<1>11. QED
  BY <1>2, <1>3, <1>7, <1>8, <1>9, <1>10, Step

LEMMA NoLine == DOMAIN LineOf(<<>>, <<>>) = {}
BY DEF LineOf

LEMMA Starts == Init => IInv
PROOF
<1> SUFFICES ASSUME Init PROVE IInv
  OBVIOUS
<1>1. /\ First \in Orders /\ First # <<>> /\ Head(First) \in ToSet(First)
      /\ ToSet(First) \subseteq Tabs /\ ToSet(First) # {}
  BY ClientAssumption, OrdersAre, OrderFacts
<1>2. /\ server = [tabs |-> First, active |-> Head(First), last |-> None]
      /\ view = server /\ used = ToSet(First) /\ known = ToSet(First)
      /\ identified = TRUE /\ link = "up" /\ focused = None /\ choice = None
      /\ notices = <<>> /\ requests = <<>> /\ replies = <<>>
      /\ outbox = NoEntry /\ generation = 0
      /\ flush = [g \in Generations |-> None]
      /\ order = [inFlight |-> FALSE, pending |-> None]
      /\ sync = [stage |-> "idle", pending |-> FALSE]
      /\ scheduled = 0 /\ events = 0
  BY DEF Init
<1>3. ToSet(<<>>) = {} /\ DOMAIN Line = {} /\ Activations(Line) = {}
  BY <1>2, NoTabs, NoLine DEF Line, Activations
<1>4. /\ server \in Views /\ server.tabs = First
      /\ server.active = Head(First)
  BY <1>1, <1>2 DEF Views
<1>5. TypeOK
  <2>1. Len(notices) <= Capacity
    BY <1>2, ClientAssumption
  <2>2. generation \in 0..MaxChoices /\ events \in 0..MaxEvents
    BY <1>2, ClientAssumption
  <2>3. outbox \in Boxes
    BY <1>2, NoEntryIs
  <2>4. sync \in Syncs
    BY <1>2 DEF Syncs
  <2>5. QED
    BY <1>1, <1>2, <1>4, <2>1, <2>2, <2>3, <2>4, Typed
<1>6. WireOK
  BY <1>2, EmptySeq DEF WireOK
<1>7. OneIsLeft
  BY <1>1, <1>2, <1>3, <1>4 DEF OneIsLeft
<1>8. ChoiceHeld /\ AllFail
  BY <1>2 DEF ChoiceHeld, AllFail
<1>9. Touch
  <2>1. Sending
    BY <1>2, <1>3, NoEntryIs
       DEF Sending, Chase, Tasks, Waiting, Chased, Shows, AskedFor
  <2>2. OneResync(Line, replies, sync.stage)
    BY <1>2, <1>3 DEF OneResync
  <2>3. NoneForgotten /\ AllComing
    BY <1>2, <1>3, <1>4 DEF NoneForgotten, AllComing
  <2>4. FocusHolds
    BY <1>1, <1>2, <1>4, ClientAssumption DEF FocusHolds
  <2>5. QED
    BY <1>2, <2>1, <2>2, <2>3, <2>4 DEF Touch
<1>10. QED
  BY <1>5, <1>6, <1>7, <1>8, <1>9, Parts DEF Base

LEMMA Keeps == IInv /\ [Next]_vars => IInv'
PROOF
<1> SUFFICES ASSUME IInv, [Next]_vars PROVE IInv'
  OBVIOUS
<1>1. CASE UNCHANGED vars
  <2>1. UNCHANGED <<server, used, notices, identified, link, requests, replies,
                    view, known, focused, outbox, generation, flush, order,
                    sync, scheduled, choice, events>>
    BY <1>1 DEF vars, serverVars, wireVars, focusVars, syncVars
  <2>2. Base'
    BY <2>1, Parts, Typed, TypedNext DEF Base, WireOK, OneIsLeft
  <2>3. Touch => Touch'
    BY <2>1 DEF Touch, Sending, Chase, Line, NoneForgotten, AllComing, Coming,
                FocusHolds, Settled
  <2>4. QED
    BY <2>1, <2>2, <2>3, Step
<1>2. CASE \E t \in Tabs : OpenTab(t) \/ CloseTab(t)
  BY <1>2, OpenTabKeeps, CloseTabKeeps
<1>3. CASE \E t \in Tabs : ChooseTab(t) \/ CloseOwnTab(t)
  BY <1>3, ChooseTabKeeps, CloseOwnTabKeeps
<1>4. CASE OtherMoves \/ MoveTab
  BY <1>4, OtherMovesKeeps, MoveTabKeeps
<1>5. CASE Serve
  BY <1>5, ServeKeeps
<1>6. CASE RunScheduled \/ FinishResync
  BY <1>6, ResyncKeeps
<1>7. CASE TakeReply \/ TakeNotice \/ PollDead
  BY <1>7, TakeReplyKeeps, TakeNoticeKeeps, PollDeadKeeps
<1>8. CASE Drop \/ Reconnect
  BY <1>8, DropKeeps, ReconnectKeeps
<1>9. QED
  BY <1>1, <1>2, <1>3, <1>4, <1>5, <1>6, <1>7, <1>8 DEF Next

LEMMA AlwaysIInv == Spec => []IInv
PROOF
<1>1. QED
  BY Starts, Keeps, PTL DEF Spec

\* Nothing stands in the line when nothing is under way.
LEMMA QuietIs ==
    ASSUME IInv, Quiet, identified
    PROVE  Touch /\ ToSet(<<>>) = {} /\ Activations(Line) = {}
PROOF
<1>1. Live
  BY DEF Quiet, Live
<1>2. Activations(Line) = {}
  BY NoLine DEF Quiet, Line, Activations
<1>3. QED
  BY <1>1, <1>2, Parts, NoTabs

-----------------------------------------------------------------------------
(* Theorems, for any tabs, bounds and capacity.                            *)

\* The outboxes, the local window and the server's window keep their types,
\* the server's window never loses its last tab, and a session's
\* NotificationQueue never holds more than its capacity.
THEOREM ClientTypes == Spec => []TypeOK
PROOF
<1>1. IInv => TypeOK
  BY DEF IInv
<1>2. QED
  BY <1>1, AlwaysIInv, PTL

\* The tab the user activated last stays the one shown, whatever snapshots,
\* notifications, moves and closed tabs come between (reconcile prefers the
\* newest intent to what an older ListPanes says), until its tab closes, a
\* request to activate a tab fails, or the session does not know the client.
THEOREM ChoiceStays == Spec => []ChoiceKept
PROOF
<1>1. IInv => ChoiceKept
  BY DEF IInv, ChoiceHeld, ChoiceKept
<1>2. QED
  BY <1>1, AlwaysIInv, PTL

\* When nothing is under way the server shows this client the tab its user
\* activated last: take_next_or_finish leaves no newer intent behind, and no
\* SetClientActiveTab or SetFocusedPane of an older one comes after it.
THEOREM ChoiceReachesServer == Spec => []ChoiceArrives
PROOF
<1>1. IInv => ChoiceArrives
  <2> SUFFICES ASSUME IInv, Quiet, identified, choice # None
               PROVE  server.active = choice
    BY DEF ChoiceArrives
  <2>1. Touch /\ Activations(Line) = {}
    BY QuietIs
  <2>2. choice = focused /\ focused \in ToSet(server.tabs)
    BY <2>1, Parts DEF Touch, ChoiceHeld
  <2>3. CASE outbox.desired = None
    BY <2>1, <2>2, <2>3 DEF Touch, FocusHolds, Settled
  <2>4. CASE outbox.desired # None
    <3>1. outbox.desired.tab = choice
      BY <2>1, <2>2, <2>4 DEF Touch, FocusHolds
    <3>2. outbox.pending = None
      BY <2>1 DEF Touch, Sending, Chase, Waiting
    <3>3. outbox.desired.acknowledged
      BY <2>1, <2>4, <3>2 DEF Touch, Sending, Chase, Chased
    <3>4. QED
      BY <2>1, <2>4, <3>1, <3>3 DEF Touch, Sending, Shows
  <2>5. QED
    BY <2>3, <2>4
<1>2. QED
  BY <1>1, AlwaysIInv, PTL

\* When nothing is under way the client has every tab of the server's window:
\* resync_coalesced loses no request to run again, no snapshot it applies is
\* older than what the client knows, and NotificationQueue drops no tab.
THEOREM NoTabMissed == Spec => []NothingMissed
PROOF
<1>1. IInv => NothingMissed
  <2> SUFFICES ASSUME IInv, Quiet, identified, NEW t \in ToSet(server.tabs)
               PROVE  t \in known \cap ToSet(view.tabs)
    BY DEF NothingMissed
  <2>1. Touch /\ ToSet(<<>>) = {}
    BY QuietIs
  <2>2. ~Coming(t)
    BY <2>1 DEF Quiet, Coming
  <2>3. QED
    BY <2>1, <2>2 DEF Touch, AllComing
<1>2. QED
  BY <1>1, AlwaysIInv, PTL

=============================================================================
