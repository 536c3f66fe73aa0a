-------------------------- MODULE SearchPassProofs --------------------------
(***************************************************************************)
(* Theorems of SearchPass, for every grid, TTL, page cap and budget, and   *)
(* whatever the engines find.                                              *)
(*                                                                         *)
(*   - The adaptive TTL suppresses no phrase that was not really silent    *)
(*     (SuppressionCorrect).                                               *)
(*   - The state file and the pass keep their types (TypeCorrect).         *)
(*   - A cached result is marked harvested only when all of it was         *)
(*     examined (NothingOrphaned), as long as DuckDuckGo is asked before   *)
(*     the other providers.                                                *)
(*                                                                         *)
(* Between them stand the lemmas about sequences that the last two need:   *)
(* where the elements of a flattened and of a filtered sequence come from, *)
(* and in which order.                                                     *)
(***************************************************************************)
EXTENDS SearchPass, WellFoundedInduction, TLAPS

-----------------------------------------------------------------------------
(* Suppression.  SuppressedOnlyBySilence is not inductive: it says nothing *)
(* of a phrase that is not suppressed yet.  The strengthening compares the *)
(* dry streak of the state file with the answers that were really silent   *)
(* all the way up to ColdTries; both change in EndSearch only.             *)

Statistics == [tries : Nat, warm : BOOLEAN, streak : Nat]

\* The streak is never ahead of the silence, as far as either counts.
StreakIsSilence ==
    \A p \in Phrases : AtMost(stats[p].streak, ColdTries) <= silence[p]

SilenceInv ==
    /\ stats \in [Phrases -> Statistics]
    /\ silence \in [Phrases -> Nat]
    /\ StreakIsSilence

\* A new crawler has searched nothing (Init).
LEMMA SilenceInit == Init => SilenceInv
<1>1. 0 \in Nat /\ ColdTries \in Nat
  BY SizesAssumption
<1> QED
  BY <1>1 DEF Init, SilenceInv, Statistics, StreakIsSilence, AtMost

\* The two counters stay together through record_yields: one phrase.
LEMMA AccountedTogether ==
    ASSUME NEW old \in Statistics, NEW quiet \in Nat, NEW new \in BOOLEAN, NEW stays \in BOOLEAN,
           AtMost(old.streak, ColdTries) <= quiet
    PROVE  /\ StatsAfter(old, new, stays) \in Statistics
           /\ ~ new => AtMost(StatsAfter(old, new, stays).streak, ColdTries)
                         <= AtMost(quiet + 1, ColdTries)
           /\ new => AtMost(StatsAfter(old, new, stays).streak, ColdTries) <= 0
<1>1. ColdTries \in Nat /\ StreakBound \in Nat
  BY SizesAssumption, StreakAssumption
<1>2. old.tries \in Nat /\ old.warm \in BOOLEAN /\ old.streak \in Nat
  BY DEF Statistics
<1>3. /\ AtMost(old.tries + 1, ColdTries) \in Nat
      /\ AtMost(old.streak + 1, StreakBound) \in Nat
  BY <1>1, <1>2 DEF AtMost
<1>4. StatsAfter(old, new, stays) \in Statistics
  <2>1. (new \/ (old.warm /\ stays)) \in BOOLEAN
    OBVIOUS
  <2>2. (IF new THEN 0 ELSE AtMost(old.streak + 1, StreakBound)) \in Nat
    BY <1>3
  <2> QED
    BY <1>3, <2>1, <2>2 DEF StatsAfter, Statistics
<1>5. StatsAfter(old, new, stays).streak
        = IF new THEN 0 ELSE AtMost(old.streak + 1, StreakBound)
  BY DEF StatsAfter
<1> QED
  BY <1>1, <1>2, <1>4, <1>5 DEF AtMost

LEMMA SilenceNext == SilenceInv /\ [Next]_vars => SilenceInv'
<1> SUFFICES ASSUME SilenceInv, [Next]_vars PROVE SilenceInv'
  OBVIOUS
<1>1. ASSUME UNCHANGED <<stats, silence>> PROVE SilenceInv'
  BY <1>1 DEF SilenceInv, StreakIsSilence
<1>2. CASE EndSearch
  <2>1. CASE ~ Succeeded
    BY <2>1, <1>2, <1>1 DEF EndSearch
  <2>2. CASE Succeeded
    <3>1. PICK stays \in [Phrases -> BOOLEAN] :
            stats' = [p \in Phrases |->
                IF p \in Accounted THEN StatsAfter(stats[p], Productive(p), stays[p])
                                   ELSE stats[p]]
      BY <2>2, <1>2 DEF EndSearch
    <3>2. silence' = [p \in Phrases |->
            IF p \notin ToSet(pass.batch) \/ p \notin pass.served THEN silence[p]
            ELSE IF Productive(p) THEN 0 ELSE AtMost(silence[p] + 1, ColdTries)]
      BY <2>2, <1>2 DEF EndSearch
    <3>3. ASSUME NEW p \in Phrases
          PROVE  /\ stats'[p] \in Statistics /\ silence'[p] \in Nat
                 /\ AtMost(stats'[p].streak, ColdTries) <= silence'[p]
      <4>1. /\ stats[p] \in Statistics /\ silence[p] \in Nat /\ stays[p] \in BOOLEAN
            /\ AtMost(stats[p].streak, ColdTries) <= silence[p]
        BY <3>1, <3>3 DEF SilenceInv, StreakIsSilence
      <4>2. CASE p \notin Accounted
        <5>1. stats'[p] = stats[p]
          BY <3>1, <4>2
        <5>2. silence'[p] = silence[p]
          BY <3>2, <4>2 DEF Accounted
        <5> QED
          BY <4>1, <5>1, <5>2
      <4>3. CASE p \in Accounted
        <5>1. stats'[p] = StatsAfter(stats[p], Productive(p), stays[p])
          BY <3>1, <4>3
        <5>2. silence'[p] = IF Productive(p) THEN 0 ELSE AtMost(silence[p] + 1, ColdTries)
          BY <3>2, <4>3 DEF Accounted
        <5>3. Productive(p) \in BOOLEAN
          BY DEF Productive
        <5>4. silence'[p] \in Nat
          BY <4>1, <5>2, SizesAssumption DEF AtMost
        <5> QED
          BY <4>1, <5>1, <5>2, <5>3, <5>4, AccountedTogether
      <4> QED
        BY <4>2, <4>3
    <3>4. stats' = [p \in Phrases |-> stats'[p]] /\ silence' = [p \in Phrases |-> silence'[p]]
      BY <3>1, <3>2
    <3> QED
      BY <3>3, <3>4 DEF SilenceInv, StreakIsSilence
  <2> QED
    BY <2>1, <2>2
<1>3. CASE Start
  BY <1>3, <1>1 DEF Start, StartDrain, StartSearch
<1>4. CASE Ask
  BY <1>4, <1>1 DEF Ask, DdgResults, DdgDegraded, DdgBackedOff, Searxng
<1>5. CASE HarvestSome
  BY <1>5, <1>1 DEF HarvestSome, Harvest
<1>6. CASE PassFails
  BY <1>6, <1>1 DEF PassFails
<1>7. CASE Tick
  BY <1>7, <1>1 DEF Tick
<1>8. CASE UNCHANGED vars
  BY <1>8, <1>1 DEF vars
<1> QED
  BY <1>2, <1>3, <1>4, <1>5, <1>6, <1>7, <1>8 DEF Next

\* The adaptive TTL grows only for a phrase that nobody protects, whose last
\* ColdTries answers brought nothing new (record_yields, effective_ttl).
THEOREM SuppressionCorrect == Spec => []SuppressedOnlyBySilence
<1>1. SilenceInv => SuppressedOnlyBySilence
  <2> SUFFICES ASSUME SilenceInv, NEW p \in Phrases, Backoff(p) > 1
               PROVE  silence[p] >= ColdTries /\ p \notin Protected
    BY DEF SuppressedOnlyBySilence
  <2>1. stats[p].streak \in Nat /\ silence[p] \in Nat /\ ColdTries \in Nat
    BY SizesAssumption DEF SilenceInv, Statistics
  <2>2. p \notin Protected /\ ~ (stats[p].streak < ColdTries)
    BY DEF Backoff
  <2>3. AtMost(stats[p].streak, ColdTries) <= silence[p]
    BY DEF SilenceInv, StreakIsSilence
  <2> QED
    BY <2>1, <2>2, <2>3 DEF AtMost
<1> QED
  BY SilenceInit, SilenceNext, <1>1, PTL DEF Spec
-----------------------------------------------------------------------------
(* What FlattenSeq and the operators built on it return.                   *)

\* A set of natural numbers has a least element.
LEMMA NatLeast ==
    ASSUME NEW S, S \subseteq Nat, S # {}
    PROVE  \E x \in S : \A y \in S : x <= y
<1> DEFINE R == OpToRel(<, Nat)
<1>1. \A y, x \in Nat : y < x => <<y, x>> \in R
  BY DEF OpToRel
<1>2. IsWellFoundedOn(R, Nat)
  BY NatLessThanWellFounded DEF OpToRel
<1> HIDE DEF R
<1>3. PICK x \in S : \A y \in S : ~ (<<y, x>> \in R)
  BY <1>2, WFMin
<1>4. \A y \in S : ~ (y < x)
  BY <1>1, <1>3
<1> QED
  BY <1>4

\* Induction over the natural numbers, for a set of them.
LEMMA NatInduct ==
    ASSUME NEW S, 0 \in S, \A n \in Nat : n \in S => n + 1 \in S
    PROVE  \A n \in Nat : n \in S
<1> SUFFICES ASSUME NEW m \in Nat, m \notin S PROVE FALSE
  OBVIOUS
<1> DEFINE T == {n \in Nat : n \notin S}
<1>1. T \subseteq Nat /\ T # {}
  OBVIOUS
<1>2. \E x \in T : \A y \in T : x <= y
  <2> HIDE DEF T
  <2> QED
    BY <1>1, NatLeast
<1>3. PICK x \in T : \A y \in T : x <= y
  BY <1>2
<1>4. x \in Nat /\ x \notin S /\ x # 0
  OBVIOUS
<1>5. x - 1 \in Nat /\ x - 1 < x
  BY <1>4
<1>6. x - 1 \notin T
  <2> HIDE DEF T
  <2> QED
    BY <1>1, <1>3, <1>5
<1> QED
  BY <1>4, <1>5, <1>6

\* The recursive function in FlattenSeq exists: it joins ever more sequences.
LEMMA FlattenRecursion ==
    ASSUME NEW E, NEW ss \in Seq(Seq(E)), Len(ss) # 0
    PROVE  \E f \in [1 .. Len(ss) -> Seq(E)] :
             /\ FlattenSeq(ss) = f[Len(ss)]
             /\ f[1] = ss[1]
             /\ \A i \in 1 .. Len(ss) - 1 : f[i + 1] = f[i] \o ss[i + 1]
<1> DEFINE Body(f) == [i \in 1 .. Len(ss) |-> IF i = 1 THEN ss[i] ELSE f[i - 1] \o ss[i]]
           Upto(n, f) == \A i \in 1 .. n : f[i] = IF i = 1 THEN ss[i] ELSE f[i - 1] \o ss[i]
           Joined == {n \in Nat : n <= Len(ss) => \E f \in [1 .. n -> Seq(E)] : Upto(n, f)}
<1>1. Len(ss) \in Nat \ {0} /\ \A i \in 1 .. Len(ss) : ss[i] \in Seq(E)
  OBVIOUS
<1>2. 0 \in Joined
  <2>1. [i \in 1 .. 0 |-> ss[i]] \in [1 .. 0 -> Seq(E)]
    OBVIOUS
  <2>2. Upto(0, [i \in 1 .. 0 |-> ss[i]])
    OBVIOUS
  <2> HIDE DEF Upto
  <2> QED
    BY <2>1, <2>2
<1>3. ASSUME NEW n \in Nat, n \in Joined PROVE n + 1 \in Joined
  <2> SUFFICES ASSUME n + 1 <= Len(ss)
               PROVE  \E f \in [1 .. n + 1 -> Seq(E)] : Upto(n + 1, f)
    OBVIOUS
  <2>1. PICK g \in [1 .. n -> Seq(E)] : Upto(n, g)
    BY <1>3, <1>1
  <2> DEFINE s == IF n = 0 THEN ss[1] ELSE g[n] \o ss[n + 1]
             f == [i \in 1 .. n + 1 |-> IF i = n + 1 THEN s ELSE g[i]]
  <2>2. s \in Seq(E)
    <3>1. CASE n = 0
      BY <3>1, <1>1
    <3>2. CASE n # 0
      <4>1. n \in 1 .. n /\ n + 1 \in 1 .. Len(ss)
        BY <3>2
      <4>2. g[n] \in Seq(E) /\ ss[n + 1] \in Seq(E)
        BY <4>1, <1>1, <2>1
      <4> QED
        BY <4>2, <3>2
    <3> QED
      BY <3>1, <3>2
  <2> HIDE DEF s
  <2>3. f \in [1 .. n + 1 -> Seq(E)]
    BY <2>1, <2>2
  <2>4. ASSUME NEW i \in 1 .. n + 1
        PROVE  f[i] = IF i = 1 THEN ss[i] ELSE f[i - 1] \o ss[i]
    <3>1. CASE i = n + 1
      <4>1. n # 0 => i - 1 = n /\ f[n] = g[n]
        BY <3>1
      <4> QED
        BY <3>1, <4>1 DEF s
    <3>2. CASE i # n + 1
      <4>1. i \in 1 .. n /\ (i # 1 => i - 1 \in 1 .. n)
        BY <3>2
      <4>2. f[i] = g[i] /\ (i # 1 => f[i - 1] = g[i - 1])
        BY <4>1
      <4> QED
        BY <4>1, <4>2, <2>1
    <3> QED
      BY <3>1, <3>2
  <2> HIDE DEF f
  <2> QED
    BY <2>3, <2>4
<1>4. \A n \in Nat : n \in Joined
  <2> HIDE DEF Joined
  <2> QED
    BY <1>2, <1>3, NatInduct
<1>5. PICK g \in [1 .. Len(ss) -> Seq(E)] : Upto(Len(ss), g)
  <2>1. Len(ss) \in Joined
    <3> HIDE DEF Joined
    <3> QED
      BY <1>1, <1>4
  <2> HIDE DEF Upto
  <2> QED
    BY <2>1, <1>1
<1>6. g = Body(g)
  BY <1>5
<1>7. PICK f : f = Body(f) /\ FlattenSeq(ss) = f[Len(ss)]
  <2> DEFINE h == CHOOSE f : f = Body(f)
  <2> HIDE DEF Upto, Joined
  <2>1. h = Body(h)
    <3> HIDE DEF Body
    <3> QED
      BY <1>6, Zenon
  <2>2. FlattenSeq(ss) = h[Len(ss)]
    BY Zenon DEF FlattenSeq
  <2> QED
    BY <2>1, <2>2
<1>8. /\ DOMAIN f = 1 .. Len(ss) /\ f[1] = ss[1]
      /\ \A i \in 1 .. Len(ss) - 1 : f[i + 1] = f[i] \o ss[i + 1]
  <2> HIDE DEF Upto, Joined
  <2>1. \A i \in 1 .. Len(ss) : f[i] = IF i = 1 THEN ss[i] ELSE f[i - 1] \o ss[i]
    BY <1>7, Zenon
  <2>2. DOMAIN f = 1 .. Len(ss)
    BY <1>7, Zenon
  <2>3. 1 \in 1 .. Len(ss)
    BY <1>1
  <2>4. ASSUME NEW i \in 1 .. Len(ss) - 1, NEW x, x = i + 1 PROVE f[x] = f[i] \o ss[x]
    <3>1. x \in 1 .. Len(ss) /\ x # 1 /\ x - 1 = i
      BY <1>1, <2>4
    <3>2. f[x] = f[x - 1] \o ss[x]
      BY <2>1, <3>1, Zenon
    <3> QED
      BY <3>1, <3>2, Zenon
  <2> QED
    BY <2>1, <2>2, <2>3, <2>4
<1> DEFINE Typed == {n \in Nat : n + 1 <= Len(ss) => f[n + 1] \in Seq(E)}
<1>9. \A n \in Nat : n \in Typed
  <2>1. 0 \in Typed
    BY <1>1, <1>8
  <2>2. ASSUME NEW n \in Nat, n \in Typed PROVE n + 1 \in Typed
    <3> SUFFICES ASSUME n + 2 <= Len(ss) PROVE f[n + 2] \in Seq(E)
      OBVIOUS
    <3>1. n + 1 \in 1 .. Len(ss) - 1 /\ n + 2 \in 1 .. Len(ss) /\ n + 2 = n + 1 + 1
      BY <1>1
    <3>2. f[n + 1] \in Seq(E) /\ ss[n + 2] \in Seq(E)
      BY <1>1, <2>2, <3>1
    <3>3. f[n + 2] = f[n + 1] \o ss[n + 2]
      BY <1>8, <3>1
    <3> QED
      BY <3>2, <3>3
  <2> HIDE DEF Typed
  <2> QED
    BY <2>1, <2>2, NatInduct
<1>10. ASSUME NEW i \in 1 .. Len(ss) PROVE f[i] \in Seq(E)
  <2>1. i - 1 \in Nat /\ i - 1 + 1 = i /\ i <= Len(ss)
    BY <1>1
  <2> QED
    BY <1>9, <2>1
<1>11. f \in [1 .. Len(ss) -> Seq(E)]
  <2>1. f = [i \in 1 .. Len(ss) |-> f[i]]
    BY <1>7, <1>8, Zenon
  <2> QED
    BY <2>1, <1>10
<1> QED
  BY <1>7, <1>8, <1>11

\* F is made of the first n sequences of ss: its x-th element is the one at
\* pos[x] in the sequence blk[x], nothing is lost, and the order is kept.
PlacedIn(F, ss, n, blk, pos) ==
    /\ blk \in [1 .. Len(F) -> 1 .. n] /\ pos \in [1 .. Len(F) -> Nat]
    /\ \A x \in 1 .. Len(F) : pos[x] \in 1 .. Len(ss[blk[x]]) /\ F[x] = ss[blk[x]][pos[x]]
    /\ \A i \in 1 .. n : \A j \in 1 .. Len(ss[i]) :
          \E x \in 1 .. Len(F) : blk[x] = i /\ pos[x] = j
    /\ \A x, y \in 1 .. Len(F) :
          x < y => blk[x] < blk[y] \/ (blk[x] = blk[y] /\ pos[x] < pos[y])

\* One more sequence at the end.
LEMMA PlacedInNext ==
    ASSUME NEW E, NEW ss \in Seq(Seq(E)), NEW n \in Nat, n < Len(ss),
           NEW F \in Seq(E), NEW blk, NEW pos, PlacedIn(F, ss, n, blk, pos)
    PROVE  \E b, p : PlacedIn(F \o ss[n + 1], ss, n + 1, b, p)
<1> DEFINE G == F \o ss[n + 1]
           l == Len(F)
           b == [x \in 1 .. Len(G) |-> IF x <= l THEN blk[x] ELSE n + 1]
           p == [x \in 1 .. Len(G) |-> IF x <= l THEN pos[x] ELSE x - l]
<1>1. n + 1 \in 1 .. Len(ss) /\ ss[n + 1] \in Seq(E)
  OBVIOUS
<1>2. /\ l \in Nat /\ Len(ss[n + 1]) \in Nat /\ Len(G) = l + Len(ss[n + 1])
      /\ \A x \in 1 .. l : G[x] = F[x]
      /\ \A x \in l + 1 .. Len(G) : G[x] = ss[n + 1][x - l]
  BY <1>1
<1>3. /\ \A x \in 1 .. l : x \in 1 .. Len(G) /\ b[x] = blk[x] /\ p[x] = pos[x]
      /\ \A x \in l + 1 .. Len(G) : x \in 1 .. Len(G) /\ b[x] = n + 1 /\ p[x] = x - l
      /\ \A x \in 1 .. Len(G) : x \in 1 .. l \/ x \in l + 1 .. Len(G)
  <2> HIDE DEF G, l
  <2> QED
    BY <1>2 DEF b, p
<1>4. /\ blk \in [1 .. l -> 1 .. n] /\ pos \in [1 .. l -> Nat]
      /\ \A x \in 1 .. l : pos[x] \in 1 .. Len(ss[blk[x]]) /\ F[x] = ss[blk[x]][pos[x]]
      /\ \A i \in 1 .. n : \A j \in 1 .. Len(ss[i]) : \E x \in 1 .. l : blk[x] = i /\ pos[x] = j
      /\ \A x, y \in 1 .. l :
            x < y => blk[x] < blk[y] \/ (blk[x] = blk[y] /\ pos[x] < pos[y])
  BY DEF PlacedIn
<1>5. b \in [1 .. Len(G) -> 1 .. n + 1] /\ p \in [1 .. Len(G) -> Nat]
  <2>1. ASSUME NEW x \in 1 .. Len(G) PROVE b[x] \in 1 .. n + 1 /\ p[x] \in Nat
    <3> HIDE DEF G, l, b, p
    <3>1. CASE x \in 1 .. l
      BY <3>1, <1>3, <1>4
    <3>2. CASE x \in l + 1 .. Len(G)
      BY <3>2, <1>2, <1>3
    <3> QED
      BY <3>1, <3>2, <1>3
  <2>2. b = [x \in 1 .. Len(G) |-> b[x]] /\ p = [x \in 1 .. Len(G) |-> p[x]]
    OBVIOUS
  <2> HIDE DEF G, l, b, p
  <2> QED
    BY <2>1, <2>2
<1> HIDE DEF G, l, b, p
<1>6. ASSUME NEW x \in 1 .. Len(G)
      PROVE  p[x] \in 1 .. Len(ss[b[x]]) /\ G[x] = ss[b[x]][p[x]]
  <2>1. CASE x \in 1 .. l
    BY <2>1, <1>2, <1>3, <1>4
  <2>2. CASE x \in l + 1 .. Len(G)
    <3>1. x - l \in 1 .. Len(ss[n + 1])
      BY <2>2, <1>2
    <3> QED
      BY <2>2, <3>1, <1>2, <1>3
  <2> QED
    BY <2>1, <2>2, <1>3
<1>7. ASSUME NEW i \in 1 .. n + 1, NEW j \in 1 .. Len(ss[i])
      PROVE  \E x \in 1 .. Len(G) : b[x] = i /\ p[x] = j
  <2>1. CASE i \in 1 .. n
    <3>1. PICK x \in 1 .. l : blk[x] = i /\ pos[x] = j
      BY <2>1, <1>4
    <3> QED
      BY <3>1, <1>3
  <2>2. CASE i = n + 1
    <3> DEFINE x == l + j
    <3>1. x \in l + 1 .. Len(G) /\ x - l = j
      BY <2>2, <1>2
    <3> HIDE DEF x
    <3>2. x \in 1 .. Len(G) /\ b[x] = i /\ p[x] = j
      BY <2>2, <3>1, <1>3, Zenon
    <3> QED
      BY <3>2
  <2> QED
    BY <2>1, <2>2
<1>8. ASSUME NEW x \in 1 .. Len(G), NEW y \in 1 .. Len(G), x < y
      PROVE  b[x] < b[y] \/ (b[x] = b[y] /\ p[x] < p[y])
  <2>1. CASE y \in 1 .. l
    <3>1. x \in 1 .. l
      BY <2>1, <1>2, <1>8
    <3> QED
      BY <2>1, <3>1, <1>3, <1>4, <1>8
  <2>2. CASE y \in l + 1 .. Len(G)
    <3>1. CASE x \in 1 .. l
      <4>1. b[x] = blk[x] /\ blk[x] \in 1 .. n /\ b[y] = n + 1
        BY <2>2, <3>1, <1>3, <1>4
      <4> QED
        BY <4>1
    <3>2. CASE x \in l + 1 .. Len(G)
      BY <2>2, <3>2, <1>2, <1>3, <1>8
    <3> QED
      BY <3>1, <3>2, <1>3
  <2> QED
    BY <2>1, <2>2, <1>3
<1>9. PlacedIn(G, ss, n + 1, b, p)
  BY <1>5, <1>6, <1>7, <1>8 DEF PlacedIn
<1> QED
  BY <1>9 DEF G

\* FlattenSeq keeps every element of every sequence, in the order they come.
LEMMA FlattenPlaces ==
    ASSUME NEW E, NEW ss \in Seq(Seq(E))
    PROVE  /\ FlattenSeq(ss) \in Seq(E)
           /\ \E blk, pos : PlacedIn(FlattenSeq(ss), ss, Len(ss), blk, pos)
<1>1. Len(ss) \in Nat /\ \A i \in 1 .. Len(ss) : ss[i] \in Seq(E)
  OBVIOUS
<1>2. CASE Len(ss) = 0
  <2>1. FlattenSeq(ss) = ss
    BY <1>2, Zenon DEF FlattenSeq
  <2>2. ss = <<>>
    BY <1>2
  <2>3. <<>> \in Seq(E) /\ Len(<<>>) = 0
    OBVIOUS
  <2>4. PlacedIn(<<>>, <<>>, 0, [x \in 1 .. 0 |-> 0], [x \in 1 .. 0 |-> 0])
    BY <2>3 DEF PlacedIn
  <2> QED
    BY <2>1, <2>2, <2>3, <2>4, Zenon
<1>3. CASE Len(ss) # 0
  <2>1. PICK f \in [1 .. Len(ss) -> Seq(E)] :
          /\ FlattenSeq(ss) = f[Len(ss)]
          /\ f[1] = ss[1]
          /\ \A i \in 1 .. Len(ss) - 1 : f[i + 1] = f[i] \o ss[i + 1]
    BY <1>3, FlattenRecursion
  <2> DEFINE Placed == {n \in Nat : n + 1 <= Len(ss) =>
                          \E blk, pos : PlacedIn(f[n + 1], ss, n + 1, blk, pos)}
  <2>2. 0 \in Placed
    <3>1. ss[1] \in Seq(E) /\ f[1] = ss[1]
      BY <1>1, <1>3, <2>1
    <3>2. PlacedIn(<<>>, ss, 0, [x \in 1 .. 0 |-> 0], [x \in 1 .. 0 |-> 0])
      BY DEF PlacedIn
    <3>3. \E b, p : PlacedIn(<<>> \o ss[0 + 1], ss, 0 + 1, b, p)
      <4>1. <<>> \in Seq(E) /\ 0 \in Nat /\ 0 < Len(ss)
        BY <1>1, <1>3
      <4> QED
        BY <3>2, <4>1, PlacedInNext
    <3>4. <<>> \o ss[0 + 1] = f[0 + 1]
      BY <3>1
    <3> QED
      BY <3>3, <3>4
  <2>3. ASSUME NEW n \in Nat, n \in Placed PROVE n + 1 \in Placed
    <3> SUFFICES ASSUME n + 1 + 1 <= Len(ss)
                 PROVE  \E blk, pos : PlacedIn(f[n + 1 + 1], ss, n + 1 + 1, blk, pos)
      BY <2>3
    <3>1. n + 1 \in 1 .. Len(ss) - 1 /\ n + 1 \in 1 .. Len(ss) /\ n + 1 \in Nat /\ n + 1 < Len(ss)
      BY <1>1
    <3>2. PICK blk, pos : PlacedIn(f[n + 1], ss, n + 1, blk, pos)
      BY <2>3, <3>1
    <3>3. f[n + 1] \in Seq(E)
      BY <2>1, <3>1
    <3>4. f[n + 1 + 1] = f[n + 1] \o ss[n + 1 + 1]
      BY <2>1, <3>1
    <3>5. \E b, p : PlacedIn(f[n + 1] \o ss[n + 1 + 1], ss, n + 1 + 1, b, p)
      BY <3>1, <3>2, <3>3, PlacedInNext
    <3> QED
      BY <3>4, <3>5
  <2>4. Len(ss) - 1 \in Placed
    <3> HIDE DEF Placed
    <3>1. Len(ss) - 1 \in Nat
      BY <1>1, <1>3
    <3> QED
      BY <2>2, <2>3, <3>1, NatInduct
  <2>5. Len(ss) - 1 + 1 = Len(ss) /\ Len(ss) \in 1 .. Len(ss)
    BY <1>1, <1>3
  <2>6. \E blk, pos : PlacedIn(f[Len(ss)], ss, Len(ss), blk, pos)
    BY <2>4, <2>5
  <2> QED
    BY <2>1, <2>5, <2>6
<1> QED
  BY <1>2, <1>3

\* SelectIn keeps the elements in S, in their order.
LEMMA SelectInPlaces ==
    ASSUME NEW E, NEW s \in Seq(E), NEW S
    PROVE  /\ SelectIn(s, S) \in Seq(E)
           /\ ToSet(SelectIn(s, S)) = ToSet(s) \cap S
           /\ \E at \in [1 .. Len(SelectIn(s, S)) -> 1 .. Len(s)] :
                /\ \A x \in 1 .. Len(SelectIn(s, S)) : SelectIn(s, S)[x] = s[at[x]]
                /\ \A x, y \in 1 .. Len(SelectIn(s, S)) : x < y => at[x] < at[y]
<1> DEFINE ss == [i \in DOMAIN s |-> IF s[i] \in S THEN <<s[i]>> ELSE <<>>]
           F == SelectIn(s, S)
<1>1. /\ ss \in Seq(Seq(E)) /\ Len(ss) = Len(s) /\ DOMAIN s = 1 .. Len(s) /\ Len(s) \in Nat
      /\ \A i \in 1 .. Len(s) : s[i] \in E
      /\ \A i \in 1 .. Len(s) : /\ s[i] \in S => Len(ss[i]) = 1 /\ ss[i][1] = s[i]
                                /\ s[i] \notin S => Len(ss[i]) = 0
  <2>1. DOMAIN s = 1 .. Len(s) /\ Len(s) \in Nat /\ \A i \in 1 .. Len(s) : s[i] \in E
    OBVIOUS
  <2>2. ASSUME NEW i \in 1 .. Len(s)
        PROVE  /\ ss[i] \in Seq(E)
               /\ s[i] \in S => Len(ss[i]) = 1 /\ ss[i][1] = s[i]
               /\ s[i] \notin S => Len(ss[i]) = 0
    <3>1. ss[i] = IF s[i] \in S THEN <<s[i]>> ELSE <<>>
      BY <2>1
    <3>2. s[i] \in E
      BY <2>1
    <3> HIDE DEF ss
    <3> QED
      BY <3>1, <3>2
  <2>3. ss = [i \in 1 .. Len(s) |-> ss[i]]
    BY <2>1
  <2> HIDE DEF ss
  <2>4. ss \in Seq(Seq(E)) /\ Len(ss) = Len(s)
    BY <2>1, <2>2, <2>3
  <2> QED
    BY <2>1, <2>2, <2>4
<1>2. F = FlattenSeq(ss)
  BY DEF SelectIn
<1> HIDE DEF ss, F
<1>3. F \in Seq(E) /\ \E blk, pos : PlacedIn(F, ss, Len(s), blk, pos)
  BY <1>1, <1>2, FlattenPlaces
<1>4. PICK blk, pos : PlacedIn(F, ss, Len(s), blk, pos)
  BY <1>3
<1>5. Len(F) \in Nat /\ DOMAIN F = 1 .. Len(F)
  BY <1>3
<1>6. blk \in [1 .. Len(F) -> 1 .. Len(s)] /\ pos \in [1 .. Len(F) -> Nat]
  BY <1>4 DEF PlacedIn
<1>7. ASSUME NEW x \in 1 .. Len(F)
      PROVE  s[blk[x]] \in S /\ pos[x] = 1 /\ F[x] = s[blk[x]]
  <2>1. pos[x] \in 1 .. Len(ss[blk[x]]) /\ F[x] = ss[blk[x]][pos[x]] /\ blk[x] \in 1 .. Len(s)
    BY <1>4, <1>6 DEF PlacedIn
  <2>2. s[blk[x]] \in S
    BY <2>1, <1>1
  <2>3. Len(ss[blk[x]]) = 1 /\ ss[blk[x]][1] = s[blk[x]]
    BY <2>1, <2>2, <1>1
  <2>4. pos[x] = 1
    BY <2>1, <2>3
  <2> QED
    BY <2>1, <2>2, <2>3, <2>4
<1>8. ASSUME NEW i \in 1 .. Len(s), s[i] \in S
      PROVE  \E x \in 1 .. Len(F) : F[x] = s[i]
  <2>1. 1 \in 1 .. Len(ss[i])
    BY <1>1, <1>8
  <2>2. PICK x \in 1 .. Len(F) : blk[x] = i
    BY <1>4, <2>1 DEF PlacedIn
  <2> QED
    BY <1>7, <2>2
<1>9. ToSet(F) = ToSet(s) \cap S
  <2>1. ToSet(F) = {F[x] : x \in 1 .. Len(F)} /\ ToSet(s) = {s[i] : i \in 1 .. Len(s)}
    BY <1>1, <1>5 DEF ToSet
  <2>2. ASSUME NEW x \in 1 .. Len(F) PROVE F[x] \in ToSet(s) \cap S
    <3>1. blk[x] \in 1 .. Len(s)
      BY <1>6
    <3> QED
      BY <2>1, <3>1, <1>7
  <2>3. ASSUME NEW e \in ToSet(s) \cap S PROVE \E x \in 1 .. Len(F) : F[x] = e
    <3>1. PICK i \in 1 .. Len(s) : e = s[i]
      BY <2>1, <2>3
    <3> QED
      BY <1>8, <2>3, <3>1
  <2>4. ToSet(F) \subseteq ToSet(s) \cap S
    BY <2>1, <2>2
  <2>5. ToSet(s) \cap S \subseteq ToSet(F)
    BY <2>1, <2>3
  <2> QED
    BY <2>4, <2>5
<1>10. \A x, y \in 1 .. Len(F) : x < y => blk[x] < blk[y]
  <2> SUFFICES ASSUME NEW x \in 1 .. Len(F), NEW y \in 1 .. Len(F), x < y
               PROVE  blk[x] < blk[y]
    OBVIOUS
  <2>1. blk[x] < blk[y] \/ (blk[x] = blk[y] /\ pos[x] < pos[y])
    BY <1>4 DEF PlacedIn
  <2>2. pos[x] = 1 /\ pos[y] = 1
    BY <1>7
  <2> QED
    BY <2>1, <2>2
<1>11. /\ F \in Seq(E)
       /\ ToSet(F) = ToSet(s) \cap S
       /\ \E at \in [1 .. Len(F) -> 1 .. Len(s)] :
            /\ \A x \in 1 .. Len(F) : F[x] = s[at[x]]
            /\ \A x, y \in 1 .. Len(F) : x < y => at[x] < at[y]
  BY <1>3, <1>6, <1>7, <1>9, <1>10
<1> QED
  BY <1>11 DEF F

\* What is selected from a sequence without repetitions has none either.
LEMMA SelectInInjective ==
    ASSUME NEW E, NEW s \in Seq(E), NEW S, IsInjective(s)
    PROVE  IsInjective(SelectIn(s, S))
<1> DEFINE F == SelectIn(s, S)
<1> HIDE DEF F
<1>1. /\ F \in Seq(E)
      /\ \E at \in [1 .. Len(F) -> 1 .. Len(s)] :
           /\ \A x \in 1 .. Len(F) : F[x] = s[at[x]]
           /\ \A x, y \in 1 .. Len(F) : x < y => at[x] < at[y]
  BY SelectInPlaces DEF F
<1>2. PICK at \in [1 .. Len(F) -> 1 .. Len(s)] :
           /\ \A x \in 1 .. Len(F) : F[x] = s[at[x]]
           /\ \A x, y \in 1 .. Len(F) : x < y => at[x] < at[y]
  BY <1>1
<1>3. DOMAIN F = 1 .. Len(F) /\ DOMAIN s = 1 .. Len(s) /\ Len(F) \in Nat /\ Len(s) \in Nat
  BY <1>1
<1>4. ASSUME NEW x \in 1 .. Len(F), NEW y \in 1 .. Len(F), F[x] = F[y] PROVE x = y
  <2>1. s[at[x]] = s[at[y]] /\ at[x] \in 1 .. Len(s) /\ at[y] \in 1 .. Len(s)
    BY <1>2, <1>4
  <2>2. at[x] = at[y]
    BY <2>1, <1>3 DEF IsInjective
  <2> QED
    BY <1>2, <1>3, <2>2
<1> QED
  BY <1>3, <1>4 DEF IsInjective, F

\* Doubled is defined everywhere, and a factor.
LEMMA DoubledPositive == \A n \in 0 .. StreakBound + 1 : Doubled[n] \in Nat \ {0}
<1> DEFINE Top == StreakBound + 1
           Body(f) == [n \in 0 .. Top |-> IF n = 0 THEN 1 ELSE 2 * f[n - 1]]
           Upto(m, f) == \A n \in 0 .. m : f[n] = IF n = 0 THEN 1 ELSE 2 * f[n - 1]
           Built == {m \in Nat : \E f \in [0 .. m -> Nat \ {0}] : Upto(m, f)}
<1>1. Top \in Nat
  BY StreakAssumption
<1> HIDE DEF Top
<1>2. 0 \in Built
  <2> DEFINE f == [n \in 0 .. 0 |-> 1]
  <2>1. f \in [0 .. 0 -> Nat \ {0}] /\ Upto(0, f)
    OBVIOUS
  <2> HIDE DEF f, Upto
  <2> QED
    BY <2>1
<1>3. ASSUME NEW m \in Nat, m \in Built PROVE m + 1 \in Built
  <2>1. PICK g \in [0 .. m -> Nat \ {0}] : Upto(m, g)
    BY <1>3
  <2> DEFINE f == [n \in 0 .. m + 1 |-> IF n = m + 1 THEN 2 * g[m] ELSE g[n]]
  <2>2. g[m] \in Nat \ {0} /\ 2 * g[m] \in Nat \ {0}
    BY <2>1
  <2>3. f \in [0 .. m + 1 -> Nat \ {0}]
    BY <2>1, <2>2
  <2>4. ASSUME NEW n \in 0 .. m + 1 PROVE f[n] = IF n = 0 THEN 1 ELSE 2 * f[n - 1]
    <3>1. CASE n = m + 1
      BY <3>1
    <3>2. CASE n # m + 1
      <4>1. n \in 0 .. m /\ (n # 0 => n - 1 \in 0 .. m)
        BY <3>2
      <4>2. f[n] = g[n] /\ (n # 0 => f[n - 1] = g[n - 1])
        BY <4>1
      <4> QED
        BY <4>1, <4>2, <2>1
    <3> QED
      BY <3>1, <3>2
  <2>5. Upto(m + 1, f)
    <3> HIDE DEF f
    <3> QED
      BY <2>4
  <2> HIDE DEF f, Upto
  <2> QED
    BY <2>3, <2>5
<1>4. Top \in Built
  <2> HIDE DEF Built
  <2> QED
    BY <1>1, <1>2, <1>3, NatInduct
<1>5. PICK g \in [0 .. Top -> Nat \ {0}] : Upto(Top, g)
  <2> HIDE DEF Upto
  <2> QED
    BY <1>1, <1>4
<1>6. g = Body(g)
  BY <1>5
<1> HIDE DEF Upto, Built
<1>7. Doubled = Body(Doubled)
  <2> DEFINE h == CHOOSE f : f = Body(f)
  <2>1. h = Body(h)
    <3> HIDE DEF Body
    <3> QED
      BY <1>6, Zenon
  <2>2. Doubled = h
    BY Zenon DEF Doubled, Top
  <2> QED
    BY <2>1, <2>2
<1>8. /\ Doubled[0] = 1
      /\ \A n \in 0 .. Top : n # 0 => Doubled[n] = 2 * Doubled[n - 1]
  <2>1. \A n \in 0 .. Top : Doubled[n] = IF n = 0 THEN 1 ELSE 2 * Doubled[n - 1]
    BY <1>7, Zenon
  <2> QED
    BY <1>1, <2>1
<1> DEFINE Positive == {n \in Nat : n <= Top => Doubled[n] \in Nat \ {0}}
<1>9. 0 \in Positive
  BY <1>8
<1>10. ASSUME NEW n \in Nat, n \in Positive PROVE n + 1 \in Positive
  <2> SUFFICES ASSUME n + 1 <= Top PROVE Doubled[n + 1] \in Nat \ {0}
    OBVIOUS
  <2> DEFINE x == n + 1
  <2>1. x \in 0 .. Top /\ x # 0 /\ x - 1 = n /\ n <= Top
    BY <1>1
  <2> HIDE DEF x
  <2>2. Doubled[x] = 2 * Doubled[n]
    BY <1>8, <2>1, Zenon
  <2>3. Doubled[n] \in Nat \ {0}
    BY <1>10, <2>1
  <2>4. Doubled[x] \in Nat \ {0}
    BY <2>2, <2>3
  <2> QED
    BY <2>4 DEF x
<1>11. \A n \in Nat : n \in Positive
  <2> HIDE DEF Positive
  <2> QED
    BY <1>9, <1>10, NatInduct
<1> QED
  BY <1>1, <1>11 DEF Top

-----------------------------------------------------------------------------
(* Types.  TypeOK is inductive together with the shape of the pass: what   *)
(* it still has to ask for belongs to its batch.                           *)

Entry == [age : 0 .. Horizon, harvested : BOOLEAN, found : Seq(Candidates)]

Call == [by : Engines, phrase : Phrases]

Pass == [at : {"idle", "search", "harvest", "failed"}, batch : Seq(Phrases), next : Phrases,
         open : SUBSET Engines, calls : Seq(Call), served : SUBSET Phrases,
         sliceOk : BOOLEAN, finds : Seq(Finds), covered : BOOLEAN]

CacheTyped ==
    /\ cache \in [Keys -> Entry]
    /\ \A k \in Keys : cache[k].found \in {Serp["ddg"][k], <<>>}
    /\ line \in Seq(Keys) /\ IsInjective(line)
    /\ examined \in [Keys -> SUBSET Candidates]

PhrasesTyped ==
    /\ pages \in [Phrases -> [page : Pages, dry : {0, 1}]]
    /\ stats \in [Phrases -> [tries : 0 .. ColdTries, warm : BOOLEAN,
                              streak : 0 .. StreakBound]]
    /\ silence \in [Phrases -> 0 .. ColdTries]
    /\ gridCursor \in Phrases /\ backoff \in BOOLEAN /\ visited \subseteq Websites

PassTyped ==
    /\ pass \in Pass
    /\ pass.served \subseteq ToSet(pass.batch)
    /\ \A x \in DOMAIN pass.calls : pass.calls[x].phrase \in ToSet(pass.batch)
    /\ pass.at # "search" => pass.calls = <<>>

TypeInv == CacheTyped /\ PhrasesTyped /\ PassTyped

LEMMA TypeInvTypeOK == TypeInv => TypeOK
<1> SUFFICES ASSUME TypeInv PROVE TypeOK
  OBVIOUS
<1>1. ASSUME NEW k \in Keys
      PROVE  /\ cache[k].age \in 0 .. Horizon /\ cache[k].harvested \in BOOLEAN
             /\ cache[k].found \in {Serp["ddg"][k], <<>>}
  BY DEF TypeInv, CacheTyped, Entry
<1>2. ToSet(line) \subseteq Keys /\ IsInjective(line)
  BY DEF TypeInv, CacheTyped, ToSet
<1>3. /\ pass.at \in {"idle", "search", "harvest", "failed"}
      /\ pass.served \subseteq ToSet(pass.batch) /\ ToSet(pass.batch) \subseteq Phrases
      /\ ToSet(pass.finds) \subseteq Finds
  BY DEF TypeInv, PassTyped, Pass, ToSet
<1> QED
  BY <1>1, <1>2, <1>3 DEF TypeOK, TypeInv, CacheTyped, PhrasesTyped

LEMMA HorizonPositive == Horizon \in Nat \ {0}
  BY SizesAssumption DEF Horizon

LEMMA KeyTyped ==
    ASSUME TypeInv, NEW p \in Phrases
    PROVE  Key(p) \in Keys
  BY DEF TypeInv, PhrasesTyped, Key, Keys

\* The adaptive TTL is never shorter than the TTL.
LEMMA BackoffPositive ==
    ASSUME TypeInv, NEW p \in Phrases
    PROVE  Backoff(p) \in Nat \ {0}
<1>1. /\ stats[p].streak \in 0 .. StreakBound /\ ColdTries \in Nat
      /\ MultCap \in Nat \ {0} /\ StreakBound \in Nat
  BY SizesAssumption, StreakAssumption DEF TypeInv, PhrasesTyped
<1>2. CASE p \in Protected \/ stats[p].tries < ColdTries \/ stats[p].warm
             \/ stats[p].streak < ColdTries
  BY <1>2 DEF Backoff
<1>3. CASE ~ (p \in Protected \/ stats[p].tries < ColdTries \/ stats[p].warm
                \/ stats[p].streak < ColdTries)
  <2> DEFINE n == stats[p].streak - ColdTries + 1
  <2>1. n \in 0 .. StreakBound + 1
    BY <1>1, <1>3
  <2>2. Doubled[n] \in Nat \ {0}
    <3> HIDE DEF n
    <3> QED
      BY <2>1, DoubledPositive
  <2>3. Backoff(p) = AtMost(MultCap, Doubled[n])
    BY <1>3 DEF Backoff
  <2> HIDE DEF n
  <2> QED
    BY <1>1, <2>2, <2>3 DEF AtMost
<1> QED
  BY <1>2, <1>3

\* The walk once around the grid: each phrase at most once.
LEMMA WalkTyped ==
    ASSUME gridCursor \in Phrases
    PROVE  /\ Walk \in Seq(Phrases) /\ IsInjective(Walk)
           /\ \A x \in 1 .. Len(Walk) : Due(Walk[x])
<1> DEFINE s == [i \in 1 .. GridSize |-> (gridCursor + i - 1) % GridSize]
           D == {p \in Phrases : Due(p)}
<1>1. GridSize \in Nat \ {0} /\ gridCursor \in 0 .. GridSize - 1
  BY SizesAssumption DEF Phrases
<1>2. ASSUME NEW i \in 1 .. GridSize
      PROVE  /\ s[i] \in Phrases
             /\ s[i] = IF gridCursor + i - 1 < GridSize THEN gridCursor + i - 1
                       ELSE (gridCursor + i - 1) - GridSize
  <2> DEFINE a == gridCursor + i - 1
  <2>1. a \in Nat /\ a < 2 * GridSize
    BY <1>1
  <2>2. s[i] = a % GridSize
    OBVIOUS
  <2> HIDE DEF a, s
  <2>3. /\ a % GridSize \in 0 .. GridSize - 1
        /\ a % GridSize = IF a < GridSize THEN a ELSE a - GridSize
    BY <1>1, <2>1
  <2>4. /\ s[i] \in 0 .. GridSize - 1
        /\ s[i] = IF a < GridSize THEN a ELSE a - GridSize
    BY <2>2, <2>3, Zenon
  <2>5. s[i] \in Phrases
    BY <2>4 DEF Phrases
  <2>6. s[i] = IF gridCursor + i - 1 < GridSize THEN gridCursor + i - 1
               ELSE (gridCursor + i - 1) - GridSize
    BY <2>4, Zenon DEF a
  <2> QED
    BY <2>5, <2>6
<1>3. s \in Seq(Phrases) /\ DOMAIN s = 1 .. GridSize
  <2>1. s = [i \in 1 .. GridSize |-> s[i]]
    OBVIOUS
  <2> HIDE DEF s
  <2>2. s \in [1 .. GridSize -> Phrases]
    BY <1>2, <2>1
  <2> QED
    BY <1>1, <2>2
<1>4. IsInjective(s)
  <2> HIDE DEF s
  <2> SUFFICES ASSUME NEW i \in 1 .. GridSize, NEW j \in 1 .. GridSize, s[i] = s[j]
               PROVE  i = j
    BY <1>3 DEF IsInjective
  <2> QED
    BY <1>1, <1>2
<1>5. Walk = SelectIn(s, D)
  BY DEF Walk
<1> HIDE DEF s, D
<1>6. Walk \in Seq(Phrases) /\ ToSet(Walk) = ToSet(s) \cap D /\ IsInjective(Walk)
  BY <1>3, <1>4, <1>5, SelectInPlaces, SelectInInjective
<1>7. ASSUME NEW x \in 1 .. Len(Walk) PROVE Due(Walk[x])
  <2>1. Walk[x] \in ToSet(Walk)
    BY <1>6 DEF ToSet
  <2> QED
    BY <1>6, <2>1 DEF D
<1> QED
  BY <1>6, <1>7

\* The batch: due phrases, each once; the walk goes on at a phrase.
LEMMA BatchTyped ==
    ASSUME gridCursor \in Phrases
    PROVE  /\ Batch \in Seq(Phrases) /\ IsInjective(Batch)
           /\ \A x \in 1 .. Len(Batch) : Due(Batch[x])
           /\ After(Batch) \in Phrases
<1> DEFINE m == AtMost(BlockSize, Len(Walk))
<1>1. GridSize \in Nat \ {0} /\ BlockSize \in 1 .. GridSize
  BY SizesAssumption
<1>2. /\ Walk \in Seq(Phrases) /\ IsInjective(Walk) /\ Len(Walk) \in Nat
      /\ DOMAIN Walk = 1 .. Len(Walk)
      /\ \A x \in 1 .. Len(Walk) : Due(Walk[x]) /\ Walk[x] \in Phrases
  BY WalkTyped
<1>3. m \in 0 .. Len(Walk) /\ m \in 0 .. BlockSize
  BY <1>1, <1>2 DEF AtMost
<1>4. Batch = SubSeq(Walk, 1, m)
  BY DEF Batch
<1> HIDE DEF m
<1>5. /\ Batch \in Seq(Phrases) /\ Len(Batch) = m /\ DOMAIN Batch = 1 .. m
      /\ \A x \in 1 .. m : Batch[x] = Walk[x] /\ x \in 1 .. Len(Walk)
  BY <1>2, <1>3, <1>4
<1>6. IsInjective(Batch)
  BY <1>2, <1>5 DEF IsInjective
<1>7. After(Batch) \in Phrases
  <2>1. CASE Len(Batch) < BlockSize
    BY <2>1 DEF After
  <2>2. CASE ~ (Len(Batch) < BlockSize)
    <3>1. m = BlockSize /\ m \in 1 .. m
      BY <1>1, <1>3, <1>5, <2>2
    <3>2. Last(Batch) = Batch[m]
      BY <1>5 DEF Last
    <3>3. Batch[m] \in Phrases
      BY <1>2, <1>5, <3>1
    <3>4. Last(Batch) + 1 \in Nat
      BY <1>1, <3>2, <3>3 DEF Phrases
    <3>5. (Last(Batch) + 1) % GridSize \in 0 .. GridSize - 1
      <4> DEFINE a == Last(Batch) + 1
      <4> HIDE DEF a
      <4>1. a \in Nat
        BY <3>4 DEF a
      <4>2. a % GridSize \in 0 .. GridSize - 1
        BY <4>1, <1>1
      <4> QED
        BY <4>2 DEF a
    <3> QED
      BY <2>2, <3>5 DEF After, Phrases
  <2> QED
    BY <2>1, <2>2
<1> QED
  BY <1>2, <1>5, <1>6, <1>7

\* What is drained: all of the results that were not harvested, nothing else.
LEMMA DrainedPlaces ==
    ASSUME TypeInv
    PROVE  /\ Drained \in Seq(Finds)
           /\ \A x \in 1 .. Len(Drained) : Unharvested(Drained[x].key)
           /\ \A k \in Keys : Unharvested(k) =>
                \A c \in ToSet(cache[k].found) : \E x \in 1 .. Len(Drained) :
                   Drained[x].cand = c /\ Drained[x].key = k
<1> DEFINE Of(k) == [i \in 1 .. Len(cache[k].found) |->
                       [cand |-> cache[k].found[i], key |-> k, by |-> "cache"]]
           ss == [i \in DOMAIN line |-> IF Unharvested(line[i]) THEN Of(line[i]) ELSE <<>>]
           n == Len(line)
<1>1. /\ n \in Nat /\ DOMAIN line = 1 .. n /\ \A i \in 1 .. n : line[i] \in Keys
      /\ \A k \in Keys : cache[k].found \in Seq(Candidates)
  BY DEF TypeInv, CacheTyped, Entry
<1>2. ASSUME NEW k \in Keys
      PROVE  /\ Of(k) \in Seq(Finds) /\ Len(Of(k)) = Len(cache[k].found)
             /\ \A i \in 1 .. Len(Of(k)) : Of(k)[i].cand = cache[k].found[i] /\ Of(k)[i].key = k
  <2>1. Len(cache[k].found) \in Nat
    BY <1>1
  <2>2. ASSUME NEW i \in 1 .. Len(cache[k].found)
        PROVE  /\ Of(k)[i] = [cand |-> cache[k].found[i], key |-> k, by |-> "cache"]
               /\ Of(k)[i] \in Finds
    <3>1. cache[k].found[i] \in Candidates
      BY <1>1
    <3> QED
      BY <3>1 DEF Finds
  <2>3. Of(k) = [i \in 1 .. Len(cache[k].found) |-> Of(k)[i]]
    OBVIOUS
  <2> HIDE DEF Of
  <2>4. Of(k) \in [1 .. Len(cache[k].found) -> Finds]
    BY <2>2, <2>3
  <2>5. Of(k) \in Seq(Finds) /\ Len(Of(k)) = Len(cache[k].found)
    BY <2>1, <2>4
  <2>6. ASSUME NEW i \in 1 .. Len(Of(k))
        PROVE  Of(k)[i].cand = cache[k].found[i] /\ Of(k)[i].key = k
    <3>1. Of(k)[i] = [cand |-> cache[k].found[i], key |-> k, by |-> "cache"]
      BY <2>2, <2>5
    <3> QED
      BY <3>1
  <2> QED
    BY <2>5, <2>6
<1>3. ASSUME NEW i \in 1 .. n
      PROVE  /\ ss[i] \in Seq(Finds)
             /\ Unharvested(line[i]) => ss[i] = Of(line[i])
             /\ ~ Unharvested(line[i]) => Len(ss[i]) = 0
  <2>1. ss[i] = IF Unharvested(line[i]) THEN Of(line[i]) ELSE <<>>
    BY <1>1
  <2> HIDE DEF ss, Of
  <2> QED
    BY <1>1, <1>2, <2>1
<1>4. ss \in Seq(Seq(Finds)) /\ Len(ss) = n
  <2>1. ss = [i \in 1 .. n |-> ss[i]]
    BY <1>1
  <2> HIDE DEF ss, n
  <2>2. ss \in [1 .. n -> Seq(Finds)]
    BY <1>3, <2>1
  <2> QED
    BY <1>1, <2>2
<1>5. Drained = FlattenSeq(ss)
  BY DEF Drained
<1> HIDE DEF Of, ss, n
<1>6. Drained \in Seq(Finds) /\ \E blk, pos : PlacedIn(Drained, ss, n, blk, pos)
  BY <1>4, <1>5, FlattenPlaces
<1>7. PICK blk, pos : PlacedIn(Drained, ss, n, blk, pos)
  BY <1>6
<1>8. ASSUME NEW x \in 1 .. Len(Drained) PROVE Unharvested(Drained[x].key)
  <2>1. /\ blk[x] \in 1 .. n /\ pos[x] \in 1 .. Len(ss[blk[x]])
        /\ Drained[x] = ss[blk[x]][pos[x]]
    BY <1>7 DEF PlacedIn
  <2>2. Unharvested(line[blk[x]]) /\ line[blk[x]] \in Keys
    BY <1>1, <1>3, <2>1
  <2>3. Drained[x].key = line[blk[x]]
    BY <1>2, <1>3, <2>1, <2>2
  <2> QED
    BY <2>2, <2>3
<1>9. ASSUME NEW k \in Keys, Unharvested(k), NEW c \in ToSet(cache[k].found)
      PROVE  \E x \in 1 .. Len(Drained) : Drained[x].cand = c /\ Drained[x].key = k
  <2>1. PICK i \in 1 .. n : line[i] = k
    BY <1>1, <1>9 DEF Unharvested, Fresh, ToSet
  <2>2. PICK j \in 1 .. Len(cache[k].found) : cache[k].found[j] = c
    BY <1>1, <1>9 DEF ToSet
  <2>3. ss[i] = Of(k) /\ j \in 1 .. Len(ss[i]) /\ ss[i][j].cand = c /\ ss[i][j].key = k
    BY <1>2, <1>3, <1>9, <2>1, <2>2
  <2>4. PICK x \in 1 .. Len(Drained) : blk[x] = i /\ pos[x] = j
    BY <1>7, <2>3 DEF PlacedIn
  <2>5. Drained[x] = ss[i][j]
    BY <1>7, <2>4 DEF PlacedIn
  <2> QED
    BY <2>3, <2>5
<1> QED
  BY <1>6, <1>8, <1>9

\* DuckDuckGo is asked before every other provider, as it is by default.
InDefaultOrder == \A i, j \in DOMAIN Providers : Providers[i] = "ddg" => i <= j

\* What a search asks for: due phrases of its batch, and DuckDuckGo first and
\* for each of them once.
LEMMA CallsPlaces ==
    ASSUME gridCursor \in Phrases, NEW open
    PROVE  /\ Calls(open) \in Seq(Call)
           /\ \A x \in 1 .. Len(Calls(open)) :
                Calls(open)[x].phrase \in ToSet(Batch) /\ Due(Calls(open)[x].phrase)
           /\ InDefaultOrder =>
                \A x, y \in 1 .. Len(Calls(open)) :
                   x < y /\ Calls(open)[y].by = "ddg" =>
                     /\ Calls(open)[x].by = "ddg"
                     /\ Calls(open)[x].phrase # Calls(open)[y].phrase
<1> DEFINE plans == SelectIn(Providers, open)
           CallsOf(by) == [i \in 1 .. Len(Batch) |-> [by |-> by, phrase |-> Batch[i]]]
           ss == [i \in DOMAIN plans |-> CallsOf(plans[i])]
           C == Calls(open)
           n == Len(plans)
<1>1. Providers \in Seq(Engines)
  BY CandidatesAssumption
<1>2. /\ plans \in Seq(Engines)
      /\ \E at \in [1 .. n -> 1 .. Len(Providers)] :
           /\ \A x \in 1 .. n : plans[x] = Providers[at[x]]
           /\ \A x, y \in 1 .. n : x < y => at[x] < at[y]
  <2> HIDE DEF plans
  <2> QED
    BY <1>1, SelectInPlaces DEF plans
<1>3. /\ Batch \in Seq(Phrases) /\ Len(Batch) \in Nat /\ DOMAIN Batch = 1 .. Len(Batch)
      /\ \A i \in 1 .. Len(Batch) : Batch[i] \in Phrases /\ Due(Batch[i])
      /\ \A i, j \in 1 .. Len(Batch) : Batch[i] = Batch[j] => i = j
  BY BatchTyped DEF IsInjective
<1> HIDE DEF plans
<1>4. n \in Nat /\ DOMAIN plans = 1 .. n /\ \A i \in 1 .. n : plans[i] \in Engines
  BY <1>2
<1>5. ASSUME NEW by \in Engines
      PROVE  /\ CallsOf(by) \in Seq(Call) /\ Len(CallsOf(by)) = Len(Batch)
             /\ \A i \in 1 .. Len(Batch) :
                  CallsOf(by)[i].by = by /\ CallsOf(by)[i].phrase = Batch[i]
  <2>1. ASSUME NEW i \in 1 .. Len(Batch)
        PROVE  /\ CallsOf(by)[i] = [by |-> by, phrase |-> Batch[i]]
               /\ CallsOf(by)[i] \in Call
    BY <1>3 DEF Call
  <2>2. CallsOf(by) = [i \in 1 .. Len(Batch) |-> CallsOf(by)[i]]
    OBVIOUS
  <2> HIDE DEF CallsOf
  <2>3. CallsOf(by) \in [1 .. Len(Batch) -> Call]
    BY <2>1, <2>2
  <2> QED
    BY <1>3, <2>1, <2>3
<1>6. /\ ss \in Seq(Seq(Call)) /\ Len(ss) = n
      /\ \A i \in 1 .. n : ss[i] = CallsOf(plans[i])
  <2>1. \A i \in 1 .. n : ss[i] = CallsOf(plans[i])
    BY <1>4
  <2>2. ss = [i \in 1 .. n |-> ss[i]]
    BY <1>4
  <2> HIDE DEF ss, n, CallsOf
  <2>3. ss \in [1 .. n -> Seq(Call)]
    BY <1>4, <1>5, <2>1, <2>2
  <2> QED
    BY <1>4, <2>1, <2>3
<1>7. C = FlattenSeq(ss)
  BY DEF Calls, plans
<1> HIDE DEF CallsOf, ss, n, C
<1>8. C \in Seq(Call) /\ \E blk, pos : PlacedIn(C, ss, n, blk, pos)
  BY <1>6, <1>7, FlattenPlaces
<1>9. PICK blk, pos : PlacedIn(C, ss, n, blk, pos)
  BY <1>8
<1>10. ASSUME NEW x \in 1 .. Len(C)
       PROVE  /\ blk[x] \in 1 .. n /\ pos[x] \in 1 .. Len(Batch)
              /\ C[x].by = plans[blk[x]] /\ C[x].phrase = Batch[pos[x]]
  <2>1. blk[x] \in 1 .. n /\ pos[x] \in 1 .. Len(ss[blk[x]]) /\ C[x] = ss[blk[x]][pos[x]]
    BY <1>9 DEF PlacedIn
  <2> QED
    BY <1>4, <1>5, <1>6, <2>1
<1>11. ASSUME NEW x \in 1 .. Len(C) PROVE C[x].phrase \in ToSet(Batch) /\ Due(C[x].phrase)
  BY <1>3, <1>10 DEF ToSet
<1>12. ASSUME InDefaultOrder, NEW x \in 1 .. Len(C), NEW y \in 1 .. Len(C),
              x < y, C[y].by = "ddg"
       PROVE  C[x].by = "ddg" /\ C[x].phrase # C[y].phrase
  <2>1. PICK at \in [1 .. n -> 1 .. Len(Providers)] :
           /\ \A i \in 1 .. n : plans[i] = Providers[at[i]]
           /\ \A i, j \in 1 .. n : i < j => at[i] < at[j]
    BY <1>2 DEF n
  <2>2. blk[x] < blk[y] \/ (blk[x] = blk[y] /\ pos[x] < pos[y])
    BY <1>9, <1>12 DEF PlacedIn
  <2>3. ~ (blk[x] < blk[y])
    <3> SUFFICES ASSUME blk[x] < blk[y] PROVE FALSE
      OBVIOUS
    <3>1. blk[x] \in 1 .. n /\ blk[y] \in 1 .. n /\ Providers[at[blk[y]]] = "ddg"
      BY <1>10, <1>12, <2>1
    <3>2. at[blk[x]] \in 1 .. Len(Providers) /\ at[blk[y]] \in 1 .. Len(Providers)
          /\ at[blk[x]] < at[blk[y]]
      BY <2>1, <3>1
    <3>3. at[blk[y]] <= at[blk[x]]
      BY <1>1, <1>12, <3>1, <3>2 DEF InDefaultOrder
    <3> QED
      BY <1>1, <3>2, <3>3
  <2>4. blk[x] = blk[y] /\ pos[x] # pos[y]
    BY <1>10, <2>2, <2>3
  <2>5. C[x].by = C[y].by
    BY <1>10, <2>4
  <2>6. pos[x] \in 1 .. Len(Batch) /\ pos[y] \in 1 .. Len(Batch)
        /\ C[x].phrase = Batch[pos[x]] /\ C[y].phrase = Batch[pos[y]]
    BY <1>10
  <2>7. Batch[pos[x]] # Batch[pos[y]]
    BY <1>3, <2>4, <2>6
  <2> QED
    BY <1>12, <2>5, <2>6, <2>7
<1> QED
  BY <1>8, <1>11, <1>12 DEF C

\* What a call that returns adds: entries for its own key, and among them and
\* the earlier ones every candidate found.
LEMMA ReturnPlaces ==
    ASSUME TypeInv, pass.calls # <<>>, NEW found \in Seq(Candidates), NEW served \in BOOLEAN,
           Return(found, served)
    PROVE  \E more \in Seq(Finds) :
             /\ pass' \in Pass /\ pass'.at = pass.at /\ pass'.batch = pass.batch
             /\ pass'.calls = Tail(pass.calls) /\ pass'.finds = pass.finds \o more
             /\ pass'.served \subseteq pass.served \cup {Head(pass.calls).phrase}
             /\ \A x \in 1 .. Len(more) : more[x].key = Key(Head(pass.calls).phrase)
             /\ \A c \in ToSet(found) :
                  \/ \E j \in DOMAIN pass.finds : pass.finds[j].cand = c
                  \/ \E x \in 1 .. Len(more) : more[x].cand = c
<1>0. PICK call : call = Head(pass.calls)
  OBVIOUS
<1> USE <1>0
<1> DEFINE Seen(i) ==
               \/ \E j \in DOMAIN pass.finds :
                     pass.finds[j].by = call.by /\ pass.finds[j].cand = found[i]
               \/ \E j \in 1 .. i - 1 : found[j] = found[i]
           all == [i \in DOMAIN found |-> i]
           fresh == {i \in DOMAIN found : ~ Seen(i)}
           new == SelectIn(all, fresh)
           more == [i \in DOMAIN new |->
                      [cand |-> found[new[i]], key |-> Key(call.phrase), by |-> call.by]]
<1>1. /\ Len(found) \in Nat /\ DOMAIN found = 1 .. Len(found)
      /\ \A i \in 1 .. Len(found) : found[i] \in Candidates
  OBVIOUS
<1>2. call \in Call /\ call.phrase \in Phrases /\ call.by \in Engines
  <2>1. pass.calls \in Seq(Call)
    BY DEF TypeInv, PassTyped, Pass
  <2>2. call \in Call
    BY <2>1
  <2> QED
    BY <2>2 DEF Call
<1>3. Key(call.phrase) \in Keys
  BY <1>2, KeyTyped
<1>4. all \in Seq(1 .. Len(found)) /\ ToSet(all) = 1 .. Len(found)
  <2>1. all = [i \in 1 .. Len(found) |-> i]
    BY <1>1
  <2>2. all \in Seq(1 .. Len(found)) /\ DOMAIN all = 1 .. Len(found)
    BY <1>1, <2>1
  <2>3. \A i \in 1 .. Len(found) : all[i] = i
    BY <2>1
  <2> HIDE DEF all
  <2> QED
    BY <2>2, <2>3 DEF ToSet
<1>5. new \in Seq(1 .. Len(found)) /\ ToSet(new) = 1 .. Len(found) \cap fresh
  <2> HIDE DEF all, fresh
  <2> QED
    BY <1>4, SelectInPlaces
<1>6. pass' = [pass EXCEPT
                 !.calls = Tail(pass.calls),
                 !.served = IF served THEN pass.served \cup {call.phrase} ELSE pass.served,
                 !.sliceOk = IF call.by = "searxng" THEN served ELSE pass.sliceOk,
                 !.finds = pass.finds \o more]
  BY Zenon DEF Return
<1>7. /\ fresh \subseteq 1 .. Len(found)
      /\ \A i \in 1 .. Len(found) : i \notin fresh => Seen(i)
  BY <1>1
<1> HIDE DEF all, fresh, new
<1>8. Len(new) \in Nat /\ DOMAIN new = 1 .. Len(new) /\ \A x \in 1 .. Len(new) : new[x] \in 1 .. Len(found)
  BY <1>5
<1>9. ASSUME NEW x \in 1 .. Len(new)
      PROVE  /\ more[x] = [cand |-> found[new[x]], key |-> Key(call.phrase), by |-> call.by]
             /\ more[x] \in Finds
  <2>1. found[new[x]] \in Candidates
    BY <1>1, <1>8
  <2> QED
    BY <1>2, <1>3, <1>8, <2>1 DEF Finds
<1>10. more = [x \in 1 .. Len(new) |-> more[x]]
  BY <1>8
<1> HIDE DEF more
<1>11. more \in Seq(Finds) /\ Len(more) = Len(new)
  <2>1. more \in [1 .. Len(new) -> Finds]
    BY <1>9, <1>10
  <2> QED
    BY <1>8, <2>1
<1>12. ASSUME NEW x \in 1 .. Len(more)
       PROVE  more[x].key = Key(call.phrase) /\ more[x].cand = found[new[x]]
  <2>1. more[x] = [cand |-> found[new[x]], key |-> Key(call.phrase), by |-> call.by]
    BY <1>9, <1>11
  <2> QED
    BY <2>1
<1>13. ASSUME NEW c \in ToSet(found)
       PROVE  \/ \E j \in DOMAIN pass.finds : pass.finds[j].cand = c
              \/ \E x \in 1 .. Len(more) : more[x].cand = c
  <2> DEFINE At == {i \in 1 .. Len(found) : found[i] = c}
  <2>1. At \subseteq Nat /\ At # {}
    BY <1>1, <1>13 DEF ToSet
  <2>2. \E i \in At : \A j \in At : i <= j
    <3> HIDE DEF At
    <3> QED
      BY <2>1, NatLeast
  <2>3. PICK i \in At : \A j \in At : i <= j
    BY <2>2, Zenon
  <2>4. \A j \in At : ~ (j < i)
    <3> HIDE DEF At
    <3> QED
      BY <2>1, <2>3
  <2>5. i \in 1 .. Len(found) /\ found[i] = c
    OBVIOUS
  <2>6. ~ \E j \in 1 .. i - 1 : found[j] = found[i]
    <3> SUFFICES ASSUME NEW j \in 1 .. i - 1, found[j] = found[i] PROVE FALSE
      OBVIOUS
    <3>1. j \in At /\ j < i
      BY <1>1, <2>5
    <3> QED
      BY <2>4, <3>1
  <2>7. CASE i \notin fresh
    <3>1. Seen(i)
      BY <1>7, <2>5, <2>7
    <3> QED
      BY <2>5, <2>6, <3>1, Zenon
  <2>8. CASE i \in fresh
    <3>1. i \in ToSet(new)
      BY <1>5, <2>5, <2>8
    <3>2. PICK x \in 1 .. Len(new) : new[x] = i
      BY <1>8, <3>1 DEF ToSet
    <3> QED
      BY <1>11, <1>12, <2>5, <3>2
  <2> QED
    BY <2>7, <2>8
<1>14. /\ pass \in Pass /\ pass.finds \in Seq(Finds) /\ pass.calls \in Seq(Call)
       /\ pass.served \subseteq Phrases /\ pass.sliceOk \in BOOLEAN
  BY DEF TypeInv, PassTyped, Pass
<1>15. /\ pass.finds \o more \in Seq(Finds) /\ Tail(pass.calls) \in Seq(Call)
       /\ (IF served THEN pass.served \cup {call.phrase} ELSE pass.served) \in SUBSET Phrases
       /\ (IF call.by = "searxng" THEN served ELSE pass.sliceOk) \in BOOLEAN
  BY <1>2, <1>11, <1>14
<1>16. /\ pass' \in Pass /\ pass'.at = pass.at /\ pass'.batch = pass.batch
       /\ pass'.calls = Tail(pass.calls) /\ pass'.finds = pass.finds \o more
       /\ pass'.served \subseteq pass.served \cup {call.phrase}
  BY <1>6, <1>14, <1>15 DEF Pass
<1> QED
  BY <1>11, <1>12, <1>13, <1>16

\* The memory of a crawler that rests is well typed.
LEMMA EndedTyped ==
    ASSUME NEW how \in {"idle", "failed"}
    PROVE  /\ Ended(how) \in Pass /\ Ended(how).at = how
           /\ Ended(how).served = {} /\ Ended(how).calls = <<>> /\ Ended(how).finds = <<>>
<1>1. 0 \in Phrases
  BY SizesAssumption DEF Phrases
<1>2. <<>> \in Seq(Phrases) /\ <<>> \in Seq(Call) /\ <<>> \in Seq(Finds)
  OBVIOUS
<1> QED
  BY <1>1, <1>2 DEF Ended, Pass

LEMMA TypeInvInit == Init => TypeInv
<1> SUFFICES ASSUME Init PROVE TypeInv
  OBVIOUS
<1>1. CacheTyped
  <2>1. None \in Entry /\ None.found = <<>>
    BY HorizonPositive DEF None, Entry
  <2>2. cache \in [Keys -> Entry] /\ \A k \in Keys : cache[k].found = <<>>
    BY <2>1 DEF Init
  <2>3. line \in Seq(Keys) /\ IsInjective(line)
    BY DEF Init, IsInjective
  <2>4. examined \in [Keys -> SUBSET Candidates]
    BY DEF Init
  <2> QED
    BY <2>2, <2>3, <2>4 DEF CacheTyped
<1>2. PhrasesTyped
  <2>1. /\ 1 \in Pages /\ 0 \in Phrases /\ 0 \in 0 .. ColdTries /\ 0 \in 0 .. StreakBound
    BY SizesAssumption, StreakAssumption DEF Pages, Phrases
  <2> QED
    BY <2>1 DEF PhrasesTyped, Init
<1>3. PassTyped
  BY EndedTyped DEF PassTyped, Init, Resting
<1> QED
  BY <1>1, <1>2, <1>3 DEF TypeInv

\* A new result goes to the end of the line.
LEMMA CachePutTyped ==
    ASSUME CacheTyped, NEW k \in Keys, NEW found \in Seq(Candidates),
           found \in {Serp["ddg"][k], <<>>}, CachePut(k, found)
    PROVE  /\ CacheTyped'
           /\ \A l \in Keys : l \in ToSet(line') <=> l \in ToSet(line) \/ l = k
           /\ \A l \in Keys : l # k => cache'[l] = cache[l] /\ examined'[l] = examined[l]
           /\ cache'[k] = [age |-> 0, harvested |-> FALSE, found |-> found]
<1> DEFINE rest == SelectIn(line, Keys \ {k})
<1>1. line \in Seq(Keys) /\ IsInjective(line)
  BY DEF CacheTyped
<1>2. rest \in Seq(Keys) /\ ToSet(rest) = ToSet(line) \cap (Keys \ {k}) /\ IsInjective(rest)
  BY <1>1, SelectInPlaces, SelectInInjective
<1>3. line' = Append(rest, k)
  BY DEF CachePut
<1> HIDE DEF rest
<1>4. /\ line' \in Seq(Keys) /\ Len(line') = Len(rest) + 1 /\ Len(rest) \in Nat
      /\ DOMAIN line' = 1 .. Len(rest) + 1 /\ DOMAIN rest = 1 .. Len(rest)
      /\ line'[Len(rest) + 1] = k
      /\ \A i \in 1 .. Len(rest) : line'[i] = rest[i] /\ rest[i] # k /\ rest[i] \in ToSet(rest)
  <2>1. \A i \in 1 .. Len(rest) : rest[i] \in ToSet(rest)
    BY <1>2 DEF ToSet
  <2> QED
    BY <1>2, <1>3, <2>1
<1>5. IsInjective(line')
  <2> SUFFICES ASSUME NEW i \in 1 .. Len(rest) + 1, NEW j \in 1 .. Len(rest) + 1,
                      line'[i] = line'[j]
               PROVE  i = j
    BY <1>4 DEF IsInjective
  <2>1. CASE i \in 1 .. Len(rest) /\ j \in 1 .. Len(rest)
    BY <1>2, <1>4, <2>1 DEF IsInjective
  <2>2. CASE ~ (i \in 1 .. Len(rest) /\ j \in 1 .. Len(rest))
    BY <1>4, <2>2
  <2> QED
    BY <2>1, <2>2
<1>6. ToSet(line') = ToSet(rest) \cup {k}
  <2>1. ToSet(line') = {line'[i] : i \in 1 .. Len(rest) + 1}
        /\ ToSet(rest) = {rest[i] : i \in 1 .. Len(rest)}
    BY <1>4 DEF ToSet
  <2>2. \A i \in 1 .. Len(rest) + 1 : line'[i] \in ToSet(rest) \cup {k}
    <3> SUFFICES ASSUME NEW i \in 1 .. Len(rest) + 1 PROVE line'[i] \in ToSet(rest) \cup {k}
      OBVIOUS
    <3>1. i \in 1 .. Len(rest) \/ i = Len(rest) + 1
      BY <1>4
    <3> QED
      BY <1>4, <3>1
  <2>3. \A i \in 1 .. Len(rest) : i \in 1 .. Len(rest) + 1 /\ rest[i] = line'[i]
    BY <1>4
  <2>4. Len(rest) + 1 \in 1 .. Len(rest) + 1
    BY <1>4
  <2>5. ToSet(line') \subseteq ToSet(rest) \cup {k}
    BY <2>1, <2>2
  <2>6. ToSet(rest) \subseteq ToSet(line')
    BY <2>1, <2>3
  <2>7. k \in ToSet(line')
    BY <1>4, <2>1, <2>4
  <2> QED
    BY <2>5, <2>6, <2>7
<1>7. /\ cache' = [cache EXCEPT ![k] = [age |-> 0, harvested |-> FALSE, found |-> found]]
      /\ examined' = [examined EXCEPT ![k] = {}]
  BY DEF CachePut
<1>8. [age |-> 0, harvested |-> FALSE, found |-> found] \in Entry
  BY HorizonPositive DEF Entry
<1>9. cache \in [Keys -> Entry] /\ examined \in [Keys -> SUBSET Candidates]
  BY DEF CacheTyped
<1>10. /\ cache' \in [Keys -> Entry] /\ examined' \in [Keys -> SUBSET Candidates]
       /\ \A l \in Keys : l # k => cache'[l] = cache[l] /\ examined'[l] = examined[l]
       /\ cache'[k] = [age |-> 0, harvested |-> FALSE, found |-> found]
  BY <1>7, <1>8, <1>9
<1>11. \A l \in Keys : cache'[l].found \in {Serp["ddg"][l], <<>>}
  BY <1>10 DEF CacheTyped
<1> QED
  BY <1>2, <1>4, <1>5, <1>6, <1>10, <1>11 DEF CacheTyped

\* What an engine finds on a page of a phrase.
LEMMA SerpTyped ==
    ASSUME NEW by \in Engines, NEW k \in Keys, NEW found \in {Serp[by][k], <<>>}
    PROVE  found \in Seq(Candidates)
<1>1. Serp[by][k] \in Seq(Candidates) /\ <<>> \in Seq(Candidates)
  BY CandidatesAssumption
<1>2. found = Serp[by][k] \/ found = <<>>
  OBVIOUS
<1> QED
  BY <1>1, <1>2, Zenon

\* A call of the pass, and those after it.
LEMMA HeadAndTail ==
    ASSUME PassTyped, pass.calls # <<>>
    PROVE  /\ Head(pass.calls) \in Call /\ Head(pass.calls) = pass.calls[1]
           /\ 1 \in DOMAIN pass.calls
           /\ Tail(pass.calls) \in Seq(Call)
           /\ \A x \in DOMAIN Tail(pass.calls) :
                x + 1 \in DOMAIN pass.calls /\ Tail(pass.calls)[x] = pass.calls[x + 1]
<1>1. pass.calls \in Seq(Call)
  BY DEF PassTyped, Pass
<1> DEFINE s == pass.calls
<1>2. s \in Seq(Call) /\ s # <<>>
  BY <1>1
<1> HIDE DEF s
<1>3. /\ Head(s) \in Call /\ Head(s) = s[1] /\ 1 \in DOMAIN s /\ Tail(s) \in Seq(Call)
      /\ \A x \in DOMAIN Tail(s) : x + 1 \in DOMAIN s /\ Tail(s)[x] = s[x + 1]
  BY <1>2
<1> QED
  BY <1>3 DEF s

LEMMA ReturnTyped ==
    ASSUME TypeInv, pass.at = "search", pass.calls # <<>>,
           NEW found \in Seq(Candidates), NEW served \in BOOLEAN, Return(found, served)
    PROVE  PassTyped'
<1> DEFINE call == Head(pass.calls)
<1>1. /\ call \in Call /\ call = pass.calls[1] /\ 1 \in DOMAIN pass.calls
      /\ \A x \in DOMAIN Tail(pass.calls) :
           x + 1 \in DOMAIN pass.calls /\ Tail(pass.calls)[x] = pass.calls[x + 1]
  BY HeadAndTail DEF TypeInv
<1>2. PICK more \in Seq(Finds) :
             /\ pass' \in Pass /\ pass'.at = pass.at /\ pass'.batch = pass.batch
             /\ pass'.calls = Tail(pass.calls) /\ pass'.finds = pass.finds \o more
             /\ pass'.served \subseteq pass.served \cup {call.phrase}
  BY ReturnPlaces
<1> HIDE DEF call
<1>3. /\ pass.served \subseteq ToSet(pass.batch)
      /\ \A x \in DOMAIN pass.calls : pass.calls[x].phrase \in ToSet(pass.batch)
  BY DEF TypeInv, PassTyped
<1>4. call.phrase \in ToSet(pass.batch)
  BY <1>1, <1>3
<1>5. pass'.served \subseteq ToSet(pass'.batch)
  BY <1>2, <1>3, <1>4
<1>6. \A x \in DOMAIN pass'.calls : pass'.calls[x].phrase \in ToSet(pass'.batch)
  BY <1>1, <1>2, <1>3
<1> QED
  BY <1>2, <1>5, <1>6 DEF PassTyped

LEMMA AskTyped ==
    ASSUME TypeInv, Ask
    PROVE  TypeInv'
<1> DEFINE p == Head(pass.calls).phrase
<1>1. pass.at = "search" /\ pass.calls # <<>>
  BY DEF Ask, DdgResults, DdgDegraded, DdgBackedOff, Searxng, Asking
<1>2. p \in Phrases /\ Key(p) \in Keys
  BY <1>1, HeadAndTail, KeyTyped DEF TypeInv, Call
<1> HIDE DEF p
<1>3. <<>> \in Seq(Candidates) /\ "ddg" \in Engines /\ "searxng" \in Engines
  BY DEF Engines
<1>4. CASE DdgResults
  <2>1. PICK found \in {Serp["ddg"][Key(p)], <<>>} :
          Return(found, TRUE) /\ CachePut(Key(p), found)
    BY <1>4, Zenon DEF DdgResults, p
  <2>2. found \in Seq(Candidates)
    BY <1>2, <1>3, SerpTyped
  <2>3. PassTyped'
    BY <1>1, <2>1, <2>2, ReturnTyped
  <2>4. CacheTyped'
    BY <1>2, <2>1, <2>2, CachePutTyped DEF TypeInv
  <2>5. PhrasesTyped'
    BY <1>4 DEF DdgResults, TypeInv, PhrasesTyped
  <2> QED
    BY <2>3, <2>4, <2>5 DEF TypeInv
<1>5. ASSUME PassTyped', UNCHANGED <<cache, line, examined>>,
             UNCHANGED <<pages, stats, gridCursor, visited, silence>>, backoff' \in BOOLEAN
      PROVE  TypeInv'
  <2>1. CacheTyped'
    BY <1>5 DEF TypeInv, CacheTyped
  <2>2. PhrasesTyped'
    BY <1>5 DEF TypeInv, PhrasesTyped
  <2> QED
    BY <1>5, <2>1, <2>2 DEF TypeInv
<1>6. backoff \in BOOLEAN
  BY DEF TypeInv, PhrasesTyped
<1>7. CASE DdgDegraded
  <2>1. PICK served \in BOOLEAN : Return(<<>>, served)
    BY <1>7 DEF DdgDegraded
  <2>2. PassTyped'
    BY <1>1, <1>3, <2>1, ReturnTyped
  <2> QED
    BY <1>5, <1>7, <2>2 DEF DdgDegraded
<1>8. CASE DdgBackedOff
  <2>1. Return(<<>>, FALSE)
    BY <1>8 DEF DdgBackedOff
  <2>2. PassTyped'
    BY <1>1, <1>3, <2>1, ReturnTyped
  <2> QED
    BY <1>5, <1>6, <1>8, <2>2 DEF DdgBackedOff
<1>9. CASE Searxng
  <2>1. PassTyped'
    <3>1. CASE Return(<<>>, FALSE)
      BY <1>1, <1>3, <3>1, ReturnTyped
    <3>2. CASE \E found \in {Serp["searxng"][Key(p)], <<>>} : Return(found, TRUE)
      <4>1. PICK found \in {Serp["searxng"][Key(p)], <<>>} : Return(found, TRUE)
        BY <3>2
      <4>2. found \in Seq(Candidates)
        BY <1>2, <1>3, SerpTyped
      <4> QED
        BY <1>1, <4>1, <4>2, ReturnTyped
    <3> QED
      BY <1>9, <3>1, <3>2, Zenon DEF Searxng, p
  <2> QED
    BY <1>5, <1>6, <1>9, <2>1 DEF Searxng
<1> QED
  BY <1>4, <1>7, <1>8, <1>9 DEF Ask

LEMMA StartTyped ==
    ASSUME TypeInv, Start
    PROVE  TypeInv'
<1>0. UNCHANGED <<cache, line, pages, stats, gridCursor, backoff, visited, examined, silence>>
  BY Zenon DEF Start, StartDrain, StartSearch
<1>1. CacheTyped' /\ PhrasesTyped'
  <2>1. CacheTyped'
    BY <1>0 DEF TypeInv, CacheTyped
  <2>2. PhrasesTyped'
    BY <1>0 DEF TypeInv, PhrasesTyped
  <2> QED
    BY <2>1, <2>2
<1>2. gridCursor \in Phrases
  BY DEF TypeInv, PhrasesTyped
<1>3. /\ Resting \in Pass /\ Resting.served = {} /\ Resting.calls = <<>>
      /\ Drained \in Seq(Finds)
  BY EndedTyped, DrainedPlaces DEF Resting
<1>4. CASE StartDrain
  <2>1. pass' = [Resting EXCEPT !.at = "harvest", !.finds = Drained]
    BY <1>4 DEF StartDrain
  <2>2. /\ pass' \in Pass /\ pass'.at = "harvest" /\ pass'.served = {} /\ pass'.calls = <<>>
    BY <1>3, <2>1 DEF Pass
  <2>3. PassTyped'
    BY <2>2 DEF PassTyped
  <2> QED
    BY <1>1, <2>3 DEF TypeInv
<1>5. ASSUME NEW open \in SUBSET ToSet(Providers), StartSearch(open)
      PROVE  TypeInv'
  <2>1. pass' = [Resting EXCEPT
          !.at = "search", !.batch = Batch, !.next = After(Batch), !.open = open,
          !.calls = Calls(open), !.finds = Drained]
    BY <1>5 DEF StartSearch
  <2>2. open \subseteq Engines
    BY CandidatesAssumption DEF ToSet
  <2>3. /\ Batch \in Seq(Phrases) /\ After(Batch) \in Phrases
        /\ Calls(open) \in Seq(Call)
        /\ \A x \in 1 .. Len(Calls(open)) : Calls(open)[x].phrase \in ToSet(Batch)
    BY <1>2, BatchTyped, CallsPlaces
  <2>4. /\ pass' \in Pass /\ pass'.at = "search" /\ pass'.served = {}
        /\ pass'.calls = Calls(open) /\ pass'.batch = Batch
    BY <1>3, <2>1, <2>2, <2>3 DEF Pass
  <2>5. DOMAIN Calls(open) = 1 .. Len(Calls(open))
    BY <2>3
  <2>6. PassTyped'
    BY <2>3, <2>4, <2>5 DEF PassTyped
  <2> QED
    BY <1>1, <2>6 DEF TypeInv
<1> QED
  BY <1>4, <1>5 DEF Start

\* record_page_result and record_yields keep their ranges, for one phrase.
LEMMA AfterTyped ==
    ASSUME NEW page \in [page : Pages, dry : {0, 1}], NEW quiet \in 0 .. ColdTries,
           NEW old \in [tries : 0 .. ColdTries, warm : BOOLEAN, streak : 0 .. StreakBound],
           NEW new \in BOOLEAN, NEW stays \in BOOLEAN
    PROVE  /\ PageAfter(page, new) \in [page : Pages, dry : {0, 1}]
           /\ StatsAfter(old, new, stays)
                \in [tries : 0 .. ColdTries, warm : BOOLEAN, streak : 0 .. StreakBound]
           /\ AtMost(quiet + 1, ColdTries) \in 0 .. ColdTries
<1>1. ColdTries \in Nat /\ StreakBound \in Nat /\ PageCap \in Nat \ {0}
  BY SizesAssumption, StreakAssumption
<1>2. page.page \in 1 .. PageCap /\ page.dry \in {0, 1}
  BY DEF Pages
<1>3. 1 \in Pages /\ (page.page < PageCap => page.page + 1 \in Pages)
  BY <1>1, <1>2 DEF Pages
<1>4. PageAfter(page, new) \in [page : Pages, dry : {0, 1}]
  BY <1>1, <1>2, <1>3 DEF PageAfter
<1>5. old.tries \in 0 .. ColdTries /\ old.warm \in BOOLEAN /\ old.streak \in 0 .. StreakBound
  OBVIOUS
<1>6. /\ AtMost(old.tries + 1, ColdTries) \in 0 .. ColdTries
      /\ (IF new THEN 0 ELSE AtMost(old.streak + 1, StreakBound)) \in 0 .. StreakBound
      /\ AtMost(quiet + 1, ColdTries) \in 0 .. ColdTries
  BY <1>1, <1>5 DEF AtMost
<1>7. (new \/ (old.warm /\ stays)) \in BOOLEAN
  OBVIOUS
<1>8. StatsAfter(old, new, stays)
        \in [tries : 0 .. ColdTries, warm : BOOLEAN, streak : 0 .. StreakBound]
  BY <1>6, <1>7 DEF StatsAfter
<1> QED
  BY <1>4, <1>6, <1>8

LEMMA EndSearchTyped ==
    ASSUME TypeInv, EndSearch
    PROVE  TypeInv'
<1>1. CacheTyped'
  BY DEF EndSearch, TypeInv, CacheTyped
<1>2. PassTyped'
  <2>1. pass' = [Resting EXCEPT !.at = "harvest", !.batch = pass.batch,
                               !.finds = pass.finds, !.covered = Succeeded]
    BY DEF EndSearch
  <2>2. /\ Resting \in Pass /\ Resting.served = {} /\ Resting.calls = <<>>
        /\ pass.batch \in Seq(Phrases) /\ pass.finds \in Seq(Finds)
    BY EndedTyped DEF Resting, TypeInv, PassTyped, Pass
  <2>3. Succeeded \in BOOLEAN
    BY DEF Succeeded
  <2>4. pass' \in Pass /\ pass'.at = "harvest" /\ pass'.served = {} /\ pass'.calls = <<>>
    BY <2>1, <2>2, <2>3 DEF Pass
  <2> QED
    BY <2>4 DEF PassTyped
<1>3. PhrasesTyped'
  <2>1. CASE ~ Succeeded
    BY <2>1 DEF EndSearch, TypeInv, PhrasesTyped
  <2>2. CASE Succeeded
    <3>1. pages' = [p \in Phrases |->
                 IF p \in Accounted THEN PageAfter(pages[p], Productive(p)) ELSE pages[p]]
      BY <2>2 DEF EndSearch
    <3>2. PICK stays \in [Phrases -> BOOLEAN] :
            stats' = [p \in Phrases |->
                IF p \in Accounted THEN StatsAfter(stats[p], Productive(p), stays[p])
                                   ELSE stats[p]]
      BY <2>2 DEF EndSearch
    <3>3. silence' = [p \in Phrases |->
            IF p \notin ToSet(pass.batch) \/ p \notin pass.served THEN silence[p]
            ELSE IF Productive(p) THEN 0 ELSE AtMost(silence[p] + 1, ColdTries)]
      BY <2>2 DEF EndSearch
    <3>4. ASSUME NEW p \in Phrases
          PROVE  /\ pages'[p] \in [page : Pages, dry : {0, 1}]
                 /\ stats'[p] \in [tries : 0 .. ColdTries, warm : BOOLEAN,
                                   streak : 0 .. StreakBound]
                 /\ silence'[p] \in 0 .. ColdTries
      <4>1. /\ pages[p] \in [page : Pages, dry : {0, 1}]
            /\ stats[p] \in [tries : 0 .. ColdTries, warm : BOOLEAN, streak : 0 .. StreakBound]
            /\ silence[p] \in 0 .. ColdTries /\ stays[p] \in BOOLEAN
        BY DEF TypeInv, PhrasesTyped
      <4>2. Productive(p) \in BOOLEAN
        BY DEF Productive
      <4>3. /\ PageAfter(pages[p], Productive(p)) \in [page : Pages, dry : {0, 1}]
            /\ StatsAfter(stats[p], Productive(p), stays[p])
                 \in [tries : 0 .. ColdTries, warm : BOOLEAN, streak : 0 .. StreakBound]
            /\ AtMost(silence[p] + 1, ColdTries) \in 0 .. ColdTries
        BY <4>1, <4>2, AfterTyped
      <4>4. /\ pages'[p] = pages[p] \/ pages'[p] = PageAfter(pages[p], Productive(p))
            /\ stats'[p] = stats[p] \/ stats'[p] = StatsAfter(stats[p], Productive(p), stays[p])
            /\ \/ silence'[p] = silence[p] \/ silence'[p] = 0
               \/ silence'[p] = AtMost(silence[p] + 1, ColdTries)
        BY <3>1, <3>2, <3>3
      <4>5. 0 \in 0 .. ColdTries
        BY SizesAssumption
      <4> QED
        BY <4>1, <4>3, <4>4, <4>5, Zenon
    <3>5. /\ pages' = [p \in Phrases |-> pages'[p]] /\ stats' = [p \in Phrases |-> stats'[p]]
          /\ silence' = [p \in Phrases |-> silence'[p]]
      BY <3>1, <3>2, <3>3
    <3>6. gridCursor' \in Phrases /\ UNCHANGED <<backoff, visited>>
      BY <2>2 DEF EndSearch, TypeInv, PassTyped, Pass
    <3> QED
      BY <3>4, <3>5, <3>6 DEF TypeInv, PhrasesTyped
  <2> QED
    BY <2>1, <2>2
<1> QED
  BY <1>1, <1>2, <1>3 DEF TypeInv

LEMMA HarvestTyped ==
    ASSUME TypeInv, NEW n \in 0 .. Len(pass.finds), Harvest(n)
    PROVE  TypeInv'
<1>1. PassTyped'
  <2>1. pass' = Ended("idle")
    BY DEF Harvest, Resting
  <2> QED
    BY <2>1, EndedTyped DEF PassTyped
<1>2. PhrasesTyped'
  BY DEF Harvest, TypeInv, PhrasesTyped
<1>3. CacheTyped'
  <2>1. cache' = [k \in Keys |-> IF k \in ToSet(line) \cap Consumed(n)
                                THEN [cache[k] EXCEPT !.harvested = TRUE] ELSE cache[k]]
    BY DEF Harvest
  <2>2. examined' = [k \in Keys |-> examined[k] \cup
                      (ToSet(cache[k].found) \cap {pass.finds[i].cand : i \in 1 .. n})]
    BY DEF Harvest
  <2>3. ASSUME NEW k \in Keys
        PROVE  /\ cache'[k] \in Entry /\ cache'[k].found = cache[k].found
               /\ examined'[k] \subseteq Candidates
    <3>1. /\ cache[k] \in Entry /\ cache[k].found \in Seq(Candidates)
          /\ examined[k] \subseteq Candidates
      BY DEF TypeInv, CacheTyped, Entry
    <3>2. [cache[k] EXCEPT !.harvested = TRUE] \in Entry
          /\ [cache[k] EXCEPT !.harvested = TRUE].found = cache[k].found
      BY <3>1 DEF Entry
    <3>3. ToSet(cache[k].found) \subseteq Candidates
      BY <3>1 DEF ToSet
    <3> QED
      BY <2>1, <2>2, <3>1, <3>2, <3>3
  <2>4. cache' = [k \in Keys |-> cache'[k]] /\ examined' = [k \in Keys |-> examined'[k]]
    BY <2>1, <2>2
  <2>5. line' = line
    BY DEF Harvest
  <2> QED
    BY <2>3, <2>4, <2>5 DEF TypeInv, CacheTyped
<1> QED
  BY <1>1, <1>2, <1>3 DEF TypeInv

LEMMA TickTyped ==
    ASSUME TypeInv, Tick
    PROVE  TypeInv'
<1> DEFINE Kept(k) == cache[k].age + 1 < Horizon
           K == {k \in Keys : Kept(k)}
<1>1. /\ line' = SelectIn(line, K)
      /\ cache' = [k \in Keys |-> IF Kept(k) THEN [cache[k] EXCEPT !.age = @ + 1] ELSE None]
      /\ examined' = [k \in Keys |-> IF Kept(k) THEN examined[k] ELSE {}]
  BY Zenon DEF Tick
<1>2. PassTyped' /\ PhrasesTyped'
  BY DEF Tick, TypeInv, PassTyped, PhrasesTyped
<1>3. line' \in Seq(Keys) /\ IsInjective(line')
  <2>1. line \in Seq(Keys) /\ IsInjective(line)
    BY DEF TypeInv, CacheTyped
  <2> HIDE DEF K
  <2> QED
    BY <1>1, <2>1, SelectInPlaces, SelectInInjective
<1>4. ASSUME NEW k \in Keys
      PROVE  /\ cache'[k] \in Entry /\ cache'[k].found \in {Serp["ddg"][k], <<>>}
             /\ examined'[k] \subseteq Candidates
  <2>1. /\ cache[k] \in Entry /\ cache[k].found \in {Serp["ddg"][k], <<>>}
        /\ examined[k] \subseteq Candidates
    BY DEF TypeInv, CacheTyped
  <2>2. CASE Kept(k)
    <3>1. cache'[k] = [cache[k] EXCEPT !.age = cache[k].age + 1]
      BY <1>1, <2>2
    <3>2. cache[k].age + 1 \in 0 .. Horizon
      BY <2>1, <2>2, HorizonPositive DEF Entry
    <3>3. cache'[k] \in Entry /\ cache'[k].found = cache[k].found
      BY <2>1, <3>1, <3>2 DEF Entry
    <3>4. examined'[k] = examined[k]
      BY <1>1, <2>2
    <3> QED
      BY <2>1, <3>3, <3>4
  <2>3. CASE ~ Kept(k)
    <3>1. cache'[k] = None /\ examined'[k] = {}
      BY <1>1, <2>3
    <3> QED
      BY <3>1, HorizonPositive DEF None, Entry
  <2> QED
    BY <2>2, <2>3
<1>5. cache' = [k \in Keys |-> cache'[k]] /\ examined' = [k \in Keys |-> examined'[k]]
  BY <1>1
<1>6. CacheTyped'
  BY <1>3, <1>4, <1>5 DEF CacheTyped
<1> QED
  BY <1>2, <1>6 DEF TypeInv

LEMMA TypeInvNext == TypeInv /\ [Next]_vars => TypeInv'
<1> SUFFICES ASSUME TypeInv, [Next]_vars PROVE TypeInv'
  OBVIOUS
<1>1. CASE Start
  BY <1>1, StartTyped
<1>2. CASE Ask
  BY <1>2, AskTyped
<1>3. CASE EndSearch
  BY <1>3, EndSearchTyped
<1>4. CASE HarvestSome
  BY <1>4, HarvestTyped DEF HarvestSome
<1>5. CASE PassFails
  <2>1. pass' = Ended("failed")
    BY <1>5 DEF PassFails
  <2>2. PassTyped'
    BY <2>1, EndedTyped DEF PassTyped
  <2> QED
    BY <1>5, <2>2 DEF PassFails, TypeInv, CacheTyped, PhrasesTyped
<1>6. CASE Tick
  BY <1>6, TickTyped
<1>7. CASE UNCHANGED vars
  BY <1>7 DEF vars, TypeInv, CacheTyped, PhrasesTyped, PassTyped
<1> QED
  BY <1>1, <1>2, <1>3, <1>4, <1>5, <1>6, <1>7 DEF Next

\* The state file and the pass keep their types, whatever the engines find, the
\* budget cuts and fails.
THEOREM TypeCorrect == Spec => []TypeOK
  BY TypeInvInit, TypeInvNext, TypeInvTypeOK, PTL DEF Spec

-----------------------------------------------------------------------------
(* CachedUntilExamined.  That a result is marked only when all of it was   *)
(* examined rests on the pass: what is cached and not harvested is held by *)
(* the pass, no later than the last entry that counts for its key.  A      *)
(* candidate that DuckDuckGo found for an earlier phrase of the batch is   *)
(* not repeated, and a key is not counted before its own call returns.     *)

\* The calls to DuckDuckGo come first, each for another phrase.
CallsInOrder ==
    \A x, y \in DOMAIN pass.calls : x < y /\ pass.calls[y].by = "ddg" =>
        pass.calls[x].by = "ddg" /\ pass.calls[x].phrase # pass.calls[y].phrase

\* Nothing counts for a key that DuckDuckGo will still be asked for.
NotFoundYet ==
    \A x \in DOMAIN pass.calls, i \in DOMAIN pass.finds :
        pass.calls[x].by = "ddg" => pass.finds[i].key # Key(pass.calls[x].phrase)

\* Each of the candidates is among finds, for k or before all that is for k.
Held(found, finds, k) ==
    \A c \in ToSet(found) : \E j \in DOMAIN finds :
        /\ finds[j].cand = c
        /\ finds[j].key = k \/ \A i \in DOMAIN finds : finds[i].key = k => j < i

AllHeld ==
    ~ Between => \A k \in Keys : Unharvested(k) => Held(cache[k].found, pass.finds, k)

ExaminedInv == TypeInv /\ CachedUntilExamined /\ CallsInOrder /\ NotFoundYet /\ AllHeld

\* What is held stays held when the pass goes on.
LEMMA HeldStays ==
    ASSUME NEW finds \in Seq(Finds), NEW more \in Seq(Finds), NEW found, NEW k,
           Held(found, finds, k)
    PROVE  Held(found, finds \o more, k)
<1> DEFINE all == finds \o more
<1>1. /\ DOMAIN finds = 1 .. Len(finds) /\ DOMAIN all = 1 .. Len(finds) + Len(more)
      /\ Len(finds) \in Nat /\ Len(more) \in Nat
      /\ \A j \in 1 .. Len(finds) : all[j] = finds[j]
  OBVIOUS
<1> HIDE DEF all
<1> SUFFICES ASSUME NEW c \in ToSet(found)
             PROVE  \E j \in DOMAIN all :
                      /\ all[j].cand = c
                      /\ all[j].key = k \/ \A i \in DOMAIN all : all[i].key = k => j < i
  BY DEF Held, all
<1>2. PICK j \in DOMAIN finds :
        /\ finds[j].cand = c
        /\ finds[j].key = k \/ \A i \in DOMAIN finds : finds[i].key = k => j < i
  BY DEF Held
<1>3. j \in DOMAIN all /\ all[j] = finds[j]
  BY <1>1
<1>4. ASSUME NEW i \in DOMAIN all, all[i].key = k,
             \A h \in DOMAIN finds : finds[h].key = k => j < h
      PROVE  j < i
  <2>1. CASE i \in 1 .. Len(finds)
    BY <1>1, <1>4, <2>1
  <2>2. CASE i \notin 1 .. Len(finds)
    BY <1>1, <2>2
  <2> QED
    BY <2>1, <2>2
<1> QED
  BY <1>2, <1>3, <1>4

\* A phrase is not due while a result of its is still drained.
LEMMA DueNotDrained ==
    ASSUME TypeInv, NEW p \in Phrases, Due(p)
    PROVE  ~ Unharvested(Key(p))
<1>1. Ttl \in Nat \ {0} /\ Backoff(p) \in Nat \ {0} /\ Key(p) \in Keys
  BY BackoffPositive, KeyTyped, SizesAssumption
<1>2. cache[Key(p)].age \in Nat
  BY <1>1, HorizonPositive DEF TypeInv, CacheTyped, Entry
<1> DEFINE b == Backoff(p)
           a == cache[Key(p)].age
<1>3. \A m \in Nat \ {0} : Ttl <= Ttl * m
  BY <1>1
<1>4. a < Ttl => a < Ttl * b
  <2>1. b \in Nat \ {0} /\ a \in Nat
    BY <1>1, <1>2
  <2>2. Ttl * b \in Nat /\ Ttl <= Ttl * b
    <3> HIDE DEF b
    <3> QED
      BY <1>1, <1>3, <2>1
  <2> HIDE DEF a, b
  <2> QED
    BY <1>1, <2>1, <2>2
<1> QED
  BY <1>4 DEF Due, Unharvested, Fresh

LEMMA ExaminedInit == Init => ExaminedInv
<1> SUFFICES ASSUME Init PROVE ExaminedInv
  OBVIOUS
<1>1. TypeInv
  BY TypeInvInit
<1>2. pass.calls = <<>> /\ pass.finds = <<>> /\ Between
  BY EndedTyped DEF Init, Resting, Between
<1>3. \A k \in Keys : ~ Fresh(k, Ttl)
  BY DEF Init, Fresh, ToSet
<1> QED
  BY <1>1, <1>2, <1>3
  DEF ExaminedInv, CachedUntilExamined, CallsInOrder, NotFoundYet, AllHeld

\* A search begins with all that is drained, and asks for what is not.
LEMMA ExaminedStart ==
    ASSUME ExaminedInv, InDefaultOrder, Start
    PROVE  ExaminedInv'
<1>1. TypeInv /\ gridCursor \in Phrases
  BY DEF ExaminedInv, TypeInv, PhrasesTyped
<1>2. UNCHANGED <<cache, line, pages, stats, gridCursor, backoff, visited, examined, silence>>
  BY Zenon DEF Start, StartDrain, StartSearch
<1>3. TypeInv'
  BY <1>1, StartTyped
<1>4. CachedUntilExamined'
  BY <1>2 DEF ExaminedInv, CachedUntilExamined, Fresh
<1>5. /\ Drained \in Seq(Finds)
      /\ \A x \in 1 .. Len(Drained) : Unharvested(Drained[x].key)
      /\ \A k \in Keys : Unharvested(k) =>
           \A c \in ToSet(cache[k].found) : \E x \in 1 .. Len(Drained) :
              Drained[x].cand = c /\ Drained[x].key = k
  BY <1>1, DrainedPlaces
<1>6. DOMAIN Drained = 1 .. Len(Drained)
  BY <1>5
<1>7. \A k \in Keys : Unharvested(k) => Held(cache[k].found, Drained, k)
  BY <1>5, <1>6, Zenon DEF Held
<1>8. ASSUME pass'.finds = Drained PROVE AllHeld'
  BY <1>2, <1>7, <1>8 DEF AllHeld, Unharvested, Fresh
<1>9. CASE StartDrain
  <2>1. pass' = [Resting EXCEPT !.at = "harvest", !.finds = Drained]
    BY <1>9 DEF StartDrain
  <2>2. pass'.calls = <<>> /\ pass'.finds = Drained
    BY <2>1 DEF Resting, Ended
  <2> QED
    BY <1>3, <1>4, <1>8, <2>2 DEF ExaminedInv, CallsInOrder, NotFoundYet
<1>10. ASSUME NEW open \in SUBSET ToSet(Providers), StartSearch(open)
       PROVE  ExaminedInv'
  <2>0. PICK C : C = Calls(open)
    OBVIOUS
  <2>1. pass' = [Resting EXCEPT
          !.at = "search", !.batch = Batch, !.next = After(Batch), !.open = open,
          !.calls = C, !.finds = Drained]
    BY <1>10, <2>0 DEF StartSearch
  <2>2. pass'.calls = C /\ pass'.finds = Drained
    BY <2>1 DEF Resting, Ended
  <2>3. /\ C \in Seq(Call)
        /\ \A x \in 1 .. Len(C) : Due(C[x].phrase)
        /\ \A x, y \in 1 .. Len(C) : x < y /\ C[y].by = "ddg" =>
             C[x].by = "ddg" /\ C[x].phrase # C[y].phrase
    BY <1>1, <2>0, CallsPlaces
  <2>4. DOMAIN C = 1 .. Len(C) /\ \A x \in 1 .. Len(C) : C[x].phrase \in Phrases
    <3>1. DOMAIN C = 1 .. Len(C) /\ \A x \in 1 .. Len(C) : C[x] \in Call
      BY <2>3
    <3> QED
      BY <3>1 DEF Call
  <2>5. CallsInOrder'
    BY <2>2, <2>3, <2>4, Zenon DEF CallsInOrder
  <2>6. \A x \in DOMAIN C, i \in DOMAIN Drained : Drained[i].key # Key(C[x].phrase)
    BY <1>1, <1>5, <1>6, <2>3, <2>4, DueNotDrained
  <2>7. \A x \in DOMAIN pass'.calls, i \in DOMAIN pass'.finds :
          pass'.finds[i].key # <<pass'.calls[x].phrase, pages'[pass'.calls[x].phrase].page>>
    BY <1>2, <2>2, <2>6 DEF Key
  <2>8. NotFoundYet'
    BY <2>7, Zenon DEF NotFoundYet, Key
  <2> QED
    BY <1>3, <1>4, <1>8, <2>2, <2>5, <2>8 DEF ExaminedInv
<1> QED
  BY <1>9, <1>10 DEF Start

\* A call that returns adds entries for its own key only, and caches nothing
\* that the pass does not hold.
LEMMA ExaminedAsk ==
    ASSUME ExaminedInv, Ask
    PROVE  ExaminedInv'
<1>1. /\ TypeInv /\ PassTyped /\ pass.at = "search" /\ pass.calls # <<>>
      /\ UNCHANGED <<pages, stats, gridCursor, visited, silence>>
  BY DEF Ask, DdgResults, DdgDegraded, DdgBackedOff, Searxng, Asking, ExaminedInv, TypeInv
<1>2. TypeInv'
  BY <1>1, AskTyped
<1>3. PICK call : call = Head(pass.calls)
  OBVIOUS
<1>4. /\ call \in Call /\ call = pass.calls[1] /\ 1 \in DOMAIN pass.calls
      /\ DOMAIN Tail(pass.calls) \subseteq Nat \ {0}
      /\ \A x \in DOMAIN Tail(pass.calls) :
           x + 1 \in DOMAIN pass.calls /\ Tail(pass.calls)[x] = pass.calls[x + 1]
  <2>1. Tail(pass.calls) \in Seq(Call)
    BY <1>1, HeadAndTail
  <2>2. DOMAIN Tail(pass.calls) = 1 .. Len(Tail(pass.calls))
    BY <2>1
  <2> QED
    BY <1>1, <1>3, <2>2, HeadAndTail
<1>5. PICK k : k = Key(call.phrase)
  OBVIOUS
<1>6. k \in Keys /\ call.phrase \in Phrases /\ Head(pass.calls).phrase = call.phrase
  BY <1>1, <1>3, <1>4, <1>5, KeyTyped DEF Call
<1>7. Between' = Between /\ ~ Between
  <2>1. \E found, served : Return(found, served)
    BY DEF Ask, DdgResults, DdgDegraded, DdgBackedOff, Searxng
  <2>2. pass'.at = pass.at
    BY <1>1, <2>1 DEF Return, PassTyped, Pass
  <2> QED
    BY <1>1, <2>2 DEF Between
<1>8. ASSUME NEW found \in Seq(Candidates), NEW served \in BOOLEAN, Return(found, served)
      PROVE  /\ CallsInOrder' /\ NotFoundYet'
             /\ \E more \in Seq(Finds) :
                  /\ pass'.finds = pass.finds \o more
                  /\ \A x \in 1 .. Len(more) : more[x].key = k
                  /\ \A c \in ToSet(found) :
                       \/ \E j \in DOMAIN pass.finds : pass.finds[j].cand = c
                       \/ \E x \in 1 .. Len(more) : more[x].cand = c
  <2>1. PICK more \in Seq(Finds) :
          /\ pass'.calls = Tail(pass.calls) /\ pass'.finds = pass.finds \o more
          /\ \A x \in 1 .. Len(more) : more[x].key = k
          /\ \A c \in ToSet(found) :
               \/ \E j \in DOMAIN pass.finds : pass.finds[j].cand = c
               \/ \E x \in 1 .. Len(more) : more[x].cand = c
    <3>0. /\ TypeInv /\ pass.calls # <<>> /\ Return(found, served)
          /\ found \in Seq(Candidates) /\ served \in BOOLEAN
      BY <1>1, <1>8
    <3>1. \E more \in Seq(Finds) :
             /\ pass' \in Pass /\ pass'.at = pass.at /\ pass'.batch = pass.batch
             /\ pass'.calls = Tail(pass.calls) /\ pass'.finds = pass.finds \o more
             /\ pass'.served \subseteq pass.served \cup {Head(pass.calls).phrase}
             /\ \A x \in 1 .. Len(more) : more[x].key = Key(Head(pass.calls).phrase)
             /\ \A c \in ToSet(found) :
                  \/ \E j \in DOMAIN pass.finds : pass.finds[j].cand = c
                  \/ \E x \in 1 .. Len(more) : more[x].cand = c
      BY <3>0, ReturnPlaces
    <3> QED
      BY <1>3, <1>5, <3>1
  <2>2. CallsInOrder'
    <3> SUFFICES ASSUME NEW x \in DOMAIN Tail(pass.calls), NEW y \in DOMAIN Tail(pass.calls),
                        x < y, Tail(pass.calls)[y].by = "ddg"
                 PROVE  /\ Tail(pass.calls)[x].by = "ddg"
                        /\ Tail(pass.calls)[x].phrase # Tail(pass.calls)[y].phrase
      BY <2>1 DEF CallsInOrder
    <3>1. x \in Nat /\ y \in Nat /\ x + 1 < y + 1
      BY <1>4
    <3> QED
      BY <1>4, <3>1 DEF ExaminedInv, CallsInOrder
  <2>3. /\ pass.finds \in Seq(Finds) /\ pass'.finds \in Seq(Finds)
        /\ DOMAIN pass.finds = 1 .. Len(pass.finds)
        /\ \A i \in DOMAIN pass'.finds :
             \/ i \in DOMAIN pass.finds /\ pass'.finds[i] = pass.finds[i]
             \/ pass'.finds[i].key = k
    <3>1. PICK old : old = pass.finds
      OBVIOUS
    <3>2. old \in Seq(Finds)
      BY <1>1, <3>1 DEF PassTyped, Pass
    <3>3. /\ old \o more \in Seq(Finds) /\ DOMAIN old = 1 .. Len(old)
          /\ \A i \in DOMAIN (old \o more) :
               \/ i \in DOMAIN old /\ (old \o more)[i] = old[i]
               \/ i - Len(old) \in 1 .. Len(more) /\ (old \o more)[i] = more[i - Len(old)]
      BY <3>2
    <3> QED
      BY <2>1, <3>1, <3>2, <3>3
  <2>4. ASSUME NEW x \in DOMAIN Tail(pass.calls), NEW i \in DOMAIN pass'.finds,
               Tail(pass.calls)[x].by = "ddg"
        PROVE  pass'.finds[i].key # Key(Tail(pass.calls)[x].phrase)
    <3>1. /\ x + 1 \in DOMAIN pass.calls /\ Tail(pass.calls)[x] = pass.calls[x + 1]
          /\ 1 < x + 1 /\ 1 \in DOMAIN pass.calls
      BY <1>4
    <3>2. call.phrase # Tail(pass.calls)[x].phrase
      BY <1>4, <2>4, <3>1 DEF ExaminedInv, CallsInOrder
    <3>3. k # Key(Tail(pass.calls)[x].phrase)
      BY <1>5, <3>2 DEF Key
    <3>4. CASE i \in DOMAIN pass.finds /\ pass'.finds[i] = pass.finds[i]
      BY <2>4, <3>1, <3>4 DEF ExaminedInv, NotFoundYet
    <3> QED
      BY <2>3, <3>3, <3>4
  <2>5. \A x \in DOMAIN pass'.calls, i \in DOMAIN pass'.finds :
          pass'.calls[x].by = "ddg" =>
            pass'.finds[i].key # <<pass'.calls[x].phrase, pages'[pass'.calls[x].phrase].page>>
    <3>1. \A x \in DOMAIN pass'.calls, i \in DOMAIN pass'.finds :
            pass'.calls[x].by = "ddg" => pass'.finds[i].key # Key(pass'.calls[x].phrase)
      BY <2>1, <2>4, Zenon
    <3>2. pages' = pages
      BY <1>1
    <3> QED
      BY <3>1, <3>2, Zenon DEF Key
  <2>6. NotFoundYet'
    BY <2>5, Zenon DEF NotFoundYet, Key
  <2> QED
    BY <2>1, <2>2, <2>6
<1>9. pass.finds \in Seq(Finds)
  BY <1>1 DEF PassTyped, Pass
<1>10. ASSUME NEW found \in Seq(Candidates), NEW served \in BOOLEAN, Return(found, served),
              UNCHANGED <<cache, line, examined>>
       PROVE  ExaminedInv'
  <2>1. CallsInOrder' /\ NotFoundYet'
    BY <1>8, <1>10
  <2>2. PICK more \in Seq(Finds) : pass'.finds = pass.finds \o more
    BY <1>8, <1>10
  <2>3. CachedUntilExamined'
    BY <1>10 DEF ExaminedInv, CachedUntilExamined, Fresh
  <2>4. \A l \in Keys : Unharvested(l) => Held(cache[l].found, pass'.finds, l)
    BY <1>7, <1>9, <2>2, HeldStays DEF ExaminedInv, AllHeld
  <2>5. AllHeld'
    BY <1>10, <2>4 DEF AllHeld, Unharvested, Fresh
  <2> QED
    BY <1>2, <2>1, <2>3, <2>5 DEF ExaminedInv
<1>11. CASE DdgResults
  <2>1. PICK found \in {Serp["ddg"][k], <<>>} : Return(found, TRUE) /\ CachePut(k, found)
    BY <1>3, <1>5, <1>11, Zenon DEF DdgResults
  <2>2. found \in Seq(Candidates) /\ call.by = "ddg"
    BY <1>3, <1>6, <1>11, SerpTyped DEF Engines, DdgResults, Asking
  <2>3. PICK more \in Seq(Finds) :
          /\ pass'.finds = pass.finds \o more
          /\ \A c \in ToSet(found) :
               \/ \E j \in DOMAIN pass.finds : pass.finds[j].cand = c
               \/ \E x \in 1 .. Len(more) : more[x].cand = c
          /\ \A x \in 1 .. Len(more) : more[x].key = k
    BY <1>8, <2>1, <2>2
  <2>4. CallsInOrder' /\ NotFoundYet'
    BY <1>8, <2>1, <2>2
  <2>5. /\ \A l \in Keys : l \in ToSet(line') <=> l \in ToSet(line) \/ l = k
        /\ \A l \in Keys : l # k => cache'[l] = cache[l] /\ examined'[l] = examined[l]
        /\ cache'[k] = [age |-> 0, harvested |-> FALSE, found |-> found]
    BY <1>1, <1>6, <2>1, <2>2, CachePutTyped DEF TypeInv
  <2>6. CachedUntilExamined'
    <3> SUFFICES ASSUME NEW l \in Keys, cache'[l].harvested, Fresh(l, Ttl)'
                 PROVE  ToSet(cache'[l].found) \subseteq examined'[l]
      BY DEF CachedUntilExamined
    <3>1. l # k
      BY <2>5
    <3> QED
      BY <2>5, <3>1 DEF ExaminedInv, CachedUntilExamined, Fresh
  <2>7. Held(found, pass'.finds, k)
    <3>1. PICK old : old = pass.finds
      OBVIOUS
    <3>2. PICK all : all = old \o more
      OBVIOUS
    <3>3. \A i \in DOMAIN old : old[i].key # k
      BY <1>4, <1>5, <2>2, <3>1 DEF ExaminedInv, NotFoundYet
    <3>4. /\ DOMAIN old = 1 .. Len(old) /\ Len(old) \in Nat
          /\ \A j \in DOMAIN old : j \in DOMAIN all /\ all[j] = old[j]
          /\ \A i \in DOMAIN all : i \in Nat \ {0}
          /\ \A x \in 1 .. Len(more) : Len(old) + x \in DOMAIN all
                                       /\ all[Len(old) + x] = more[x]
      BY <1>9, <3>1, <3>2
    <3>0. pass'.finds = all
      BY <2>3, <3>1, <3>2
    <3> SUFFICES Held(found, all, k)
      BY <3>0
    <3> SUFFICES ASSUME NEW c \in ToSet(found)
                 PROVE  \E j \in DOMAIN all :
                          /\ all[j].cand = c
                          /\ all[j].key = k \/ \A i \in DOMAIN all : all[i].key = k => j < i
      BY Zenon DEF Held
    <3>5. CASE \E j \in DOMAIN old : old[j].cand = c
      <4>1. PICK j \in DOMAIN old : old[j].cand = c
        BY <3>5
      <4>2. j \in DOMAIN all /\ all[j].cand = c /\ j \in 1 .. Len(old)
        BY <3>4, <4>1
      <4>3. ASSUME NEW i \in DOMAIN all, all[i].key = k
            PROVE  j < i
        <5>1. i \notin DOMAIN old
          BY <3>3, <3>4, <4>3
        <5> QED
          BY <3>4, <4>2, <5>1
      <4> QED
        BY <4>2, <4>3
    <3>6. CASE \E x \in 1 .. Len(more) : more[x].cand = c
      <4>1. PICK x \in 1 .. Len(more) : more[x].cand = c
        BY <3>6
      <4>2. all[Len(old) + x].cand = c /\ all[Len(old) + x].key = k
        BY <2>3, <3>4, <4>1
      <4> QED
        BY <3>4, <4>2
    <3> QED
      BY <2>3, <3>1, <3>5, <3>6, Zenon
  <2>8. ASSUME NEW l \in Keys, l # k, Unharvested(l)'
        PROVE  Held(cache'[l].found, pass'.finds, l)
    <3>1. Unharvested(l) /\ cache'[l] = cache[l]
      BY <2>5, <2>8 DEF Unharvested, Fresh
    <3> QED
      BY <1>7, <1>9, <2>3, <3>1, HeldStays DEF ExaminedInv, AllHeld
  <2>9. \A l \in Keys : Unharvested(l)' => Held(cache'[l].found, pass'.finds, l)
    BY <2>5, <2>7, <2>8
  <2>10. AllHeld'
    BY <2>9, Zenon DEF AllHeld, Held
  <2> QED
    BY <1>2, <2>4, <2>6, <2>10 DEF ExaminedInv
<1>12. <<>> \in Seq(Candidates) /\ "searxng" \in Engines
  BY DEF Engines
<1>13. CASE DdgDegraded
  BY <1>10, <1>12, <1>13, Zenon DEF DdgDegraded
<1>14. CASE DdgBackedOff
  BY <1>10, <1>12, <1>14, Zenon DEF DdgBackedOff
<1>15. CASE Searxng
  <2>1. CASE Return(<<>>, FALSE)
    BY <1>10, <1>12, <1>15, <2>1, Zenon DEF Searxng
  <2>2. CASE \E found \in {Serp["searxng"][k], <<>>} : Return(found, TRUE)
    <3>1. PICK found \in {Serp["searxng"][k], <<>>} : Return(found, TRUE)
      BY <2>2
    <3>2. found \in Seq(Candidates)
      BY <1>6, <1>12, SerpTyped
    <3> QED
      BY <1>10, <1>15, <3>1, <3>2, Zenon DEF Searxng
  <2> QED
    BY <1>3, <1>5, <1>15, <2>1, <2>2, Zenon DEF Searxng
<1> QED
  BY <1>11, <1>13, <1>14, <1>15 DEF Ask

\* A key is marked when the harvest is past all that counts for it, and so
\* past all that the pass holds of its result.
LEMMA ExaminedHarvest ==
    ASSUME ExaminedInv, NEW n \in 0 .. Len(pass.finds), Harvest(n)
    PROVE  ExaminedInv'
<1>1. TypeInv /\ TypeInv'
  BY HarvestTyped DEF ExaminedInv
<1>2. Between' /\ pass'.calls = <<>> /\ pass'.finds = <<>>
  BY DEF Harvest, Resting, Ended, Between
<1>3. CallsInOrder' /\ NotFoundYet' /\ AllHeld'
  BY <1>2 DEF CallsInOrder, NotFoundYet, AllHeld
<1>4. CachedUntilExamined'
  <2>1. /\ line' = line
        /\ cache' = [k \in Keys |-> IF k \in ToSet(line) \cap Consumed(n)
                                    THEN [cache[k] EXCEPT !.harvested = TRUE] ELSE cache[k]]
        /\ examined' = [k \in Keys |-> examined[k] \cup
                          (ToSet(cache[k].found) \cap {pass.finds[i].cand : i \in 1 .. n})]
    BY Zenon DEF Harvest
  <2> SUFFICES ASSUME NEW k \in Keys, cache'[k].harvested, Fresh(k, Ttl)'
               PROVE  ToSet(cache'[k].found) \subseteq examined'[k]
    BY DEF CachedUntilExamined
  <2>2. cache[k] \in Entry
    BY <1>1 DEF TypeInv, CacheTyped
  <2>3. /\ cache'[k].found = cache[k].found /\ cache'[k].age = cache[k].age
        /\ examined[k] \subseteq examined'[k]
    BY <2>1, <2>2 DEF Entry
  <2>4. Fresh(k, Ttl)
    BY <2>1, <2>3 DEF Fresh
  <2>5. CASE cache[k].harvested
    BY <2>3, <2>4, <2>5 DEF ExaminedInv, CachedUntilExamined
  <2>6. CASE ~ cache[k].harvested
    <3>1. k \in Consumed(n)
      BY <2>1, <2>6
    <3>2. /\ DOMAIN pass.finds = 1 .. Len(pass.finds) /\ Len(pass.finds) \in Nat
          /\ n \in 0 .. Len(pass.finds) /\ pass.at = "harvest"
      <4>1. pass.finds \in Seq(Finds)
        BY <1>1 DEF TypeInv, PassTyped, Pass
      <4> QED
        BY <4>1 DEF Harvest
    <3>3. Held(cache[k].found, pass.finds, k)
      BY <2>4, <2>6, <3>2 DEF ExaminedInv, AllHeld, Unharvested, Between
    <3>4. ASSUME NEW c \in ToSet(cache[k].found)
          PROVE  c \in {pass.finds[i].cand : i \in 1 .. n}
      <4>1. PICK j \in DOMAIN pass.finds :
              /\ pass.finds[j].cand = c
              /\ \/ pass.finds[j].key = k
                 \/ \A i \in DOMAIN pass.finds : pass.finds[i].key = k => j < i
        BY <3>3 DEF Held
      <4>2. PICK i \in 1 .. n : pass.finds[i].key = k
        BY <3>1 DEF Consumed
      <4>3. \A h \in n + 1 .. Len(pass.finds) : pass.finds[h].key # k
        BY <3>1 DEF Consumed
      <4>4. j \in 1 .. n
        BY <3>2, <4>1, <4>2, <4>3
      <4> QED
        BY <4>1, <4>4
    <3> QED
      BY <2>1, <2>3, <3>4
  <2> QED
    BY <2>5, <2>6
<1> QED
  BY <1>1, <1>3, <1>4 DEF ExaminedInv

\* A result only grows older, and is forgotten with what was examined of it.
LEMMA ExaminedTick ==
    ASSUME ExaminedInv, Tick
    PROVE  ExaminedInv'
<1>1. TypeInv /\ TypeInv'
  BY TickTyped DEF ExaminedInv
<1>2. Between' /\ UNCHANGED <<pass, pages>>
  BY DEF Tick, Between
<1>3. CallsInOrder' /\ NotFoundYet' /\ AllHeld'
  BY <1>2 DEF ExaminedInv, CallsInOrder, NotFoundYet, AllHeld, Key
<1>4. CachedUntilExamined'
  <2> DEFINE Kept(k) == cache[k].age + 1 < Horizon
             K == {k \in Keys : Kept(k)}
  <2>1. /\ line' = SelectIn(line, K)
        /\ cache' = [k \in Keys |-> IF Kept(k) THEN [cache[k] EXCEPT !.age = @ + 1] ELSE None]
        /\ examined' = [k \in Keys |-> IF Kept(k) THEN examined[k] ELSE {}]
    BY Zenon DEF Tick
  <2>2. ToSet(line') = ToSet(line) \cap K
    <3>1. line \in Seq(Keys)
      BY <1>1 DEF TypeInv, CacheTyped
    <3> HIDE DEF K
    <3> QED
      BY <2>1, <3>1, SelectInPlaces
  <2> SUFFICES ASSUME NEW k \in Keys, cache'[k].harvested, Fresh(k, Ttl)'
               PROVE  ToSet(cache'[k].found) \subseteq examined'[k]
    BY DEF CachedUntilExamined
  <2>3. k \in ToSet(line) /\ Kept(k) /\ cache'[k].age < Ttl
    BY <2>2 DEF Fresh
  <2>4. cache[k] \in Entry
    BY <1>1 DEF TypeInv, CacheTyped
  <2>5. /\ cache'[k] = [cache[k] EXCEPT !.age = cache[k].age + 1]
        /\ examined'[k] = examined[k]
    BY <2>1, <2>3
  <2>6. /\ cache'[k].harvested = cache[k].harvested /\ cache'[k].found = cache[k].found
        /\ cache'[k].age = cache[k].age + 1 /\ cache[k].age \in Nat
    <3>1. cache[k].age \in Nat
      BY <2>4, HorizonPositive DEF Entry
    <3>2. /\ cache'[k].harvested = cache[k].harvested /\ cache'[k].found = cache[k].found
          /\ cache'[k].age = cache[k].age + 1
      BY <2>4, <2>5 DEF Entry
    <3> QED
      BY <3>1, <3>2
  <2>7. Fresh(k, Ttl)
    BY <2>3, <2>6, SizesAssumption DEF Fresh
  <2> QED
    BY <2>5, <2>6, <2>7 DEF ExaminedInv, CachedUntilExamined
<1> QED
  BY <1>1, <1>3, <1>4 DEF ExaminedInv

LEMMA ExaminedNext == ExaminedInv /\ InDefaultOrder /\ [Next]_vars => ExaminedInv'
<1> SUFFICES ASSUME ExaminedInv, InDefaultOrder, [Next]_vars PROVE ExaminedInv'
  OBVIOUS
<1>1. TypeInv'
  BY TypeInvNext DEF ExaminedInv
<1>2. CASE Start
  BY <1>2, ExaminedStart
<1>3. CASE Ask
  BY <1>3, ExaminedAsk
<1>4. CASE EndSearch
  <2>1. pass' = [Resting EXCEPT !.at = "harvest", !.batch = pass.batch,
                               !.finds = pass.finds, !.covered = Succeeded]
    BY <1>4 DEF EndSearch
  <2>2. pass'.calls = <<>> /\ pass'.finds = pass.finds
    BY <2>1 DEF Resting, Ended
  <2>3. UNCHANGED <<cache, line, examined>> /\ ~ Between
    BY <1>4 DEF EndSearch, Between
  <2>4. CachedUntilExamined'
    BY <2>3 DEF ExaminedInv, CachedUntilExamined, Fresh
  <2>5. AllHeld'
    BY <2>2, <2>3 DEF ExaminedInv, AllHeld, Unharvested, Fresh
  <2>6. CallsInOrder' /\ NotFoundYet'
    BY <2>2 DEF CallsInOrder, NotFoundYet
  <2> QED
    BY <1>1, <2>4, <2>5, <2>6 DEF ExaminedInv
<1>5. CASE HarvestSome
  BY <1>5, ExaminedHarvest DEF HarvestSome
<1>6. CASE PassFails
  <2>1. pass' = Ended("failed") /\ UNCHANGED <<cache, line, examined>>
    BY <1>6 DEF PassFails
  <2>2. pass'.calls = <<>> /\ pass'.finds = <<>> /\ Between'
    BY <2>1, EndedTyped DEF Between
  <2>3. CachedUntilExamined'
    BY <2>1 DEF ExaminedInv, CachedUntilExamined, Fresh
  <2>4. CallsInOrder' /\ NotFoundYet' /\ AllHeld'
    BY <2>2 DEF CallsInOrder, NotFoundYet, AllHeld
  <2> QED
    BY <1>1, <2>3, <2>4 DEF ExaminedInv
<1>7. CASE Tick
  BY <1>7, ExaminedTick
<1>8. CASE UNCHANGED vars
  <2>1. UNCHANGED <<cache, line, examined, pass, pages>>
    BY <1>8 DEF vars
  <2> QED
    BY <1>1, <2>1 DEF ExaminedInv, CachedUntilExamined, CallsInOrder, NotFoundYet, AllHeld,
                      Unharvested, Fresh, Key, Between
<1> QED
  BY <1>2, <1>3, <1>4, <1>5, <1>6, <1>7, <1>8 DEF Next

\* With DuckDuckGo asked before the other providers, whatever they find, fail
\* or throttle, and wherever the budget ends a harvest, a result that is still
\* drained is marked harvested only after all of its candidates were examined
\* (_mark_consumed_search_phrases).
THEOREM NothingOrphaned == InDefaultOrder => (Spec => []CachedUntilExamined)
<1> SUFFICES ASSUME InDefaultOrder PROVE Spec => []CachedUntilExamined
  OBVIOUS
<1>1. ExaminedInv /\ [Next]_vars => ExaminedInv'
  BY ExaminedNext
<1>2. ExaminedInv => CachedUntilExamined
  BY DEF ExaminedInv
<1> QED
  BY <1>1, <1>2, ExaminedInit, PTL DEF Spec
=============================================================================
