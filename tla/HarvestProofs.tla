--------------------------- MODULE HarvestProofs ---------------------------
(***************************************************************************)
(* Theorems of Harvest, for every web, feed, budget and number of workers: *)
(* the registry, the stores and the tasks keep their types, and the        *)
(* crawler blocks no host that has shown itself a business.                *)
(***************************************************************************)
EXTENDS Harvest, FiniteSetTheorems, WellFoundedInduction, TLAPS

----------------------------------------------------------------------------
(* Recursive functions.  Lists are filtered and dealt out, and candidates  *)
(* scanned, by functions of the form f[n] = Step(n, f[n - 1]).             *)

\* Induction over the natural numbers, for a set of them.
LEMMA NatInduct ==
    ASSUME NEW S, 0 \in S, \A n \in Nat : n \in S => n + 1 \in S
    PROVE  \A n \in Nat : n \in S
<1> DEFINE T == {n \in Nat : n \notin S}
           R == OpToRel(<, Nat)
<1>1. \A y, x \in Nat : y < x => <<y, x>> \in R
  BY DEF OpToRel
<1>2. IsWellFoundedOn(R, Nat)
  BY NatLessThanWellFounded DEF OpToRel
<1> HIDE DEF R
<1> SUFFICES ASSUME NEW m \in Nat, m \notin S PROVE FALSE
  OBVIOUS
<1>3. T \subseteq Nat /\ T # {}
  OBVIOUS
<1>4. \E x \in T : \A y \in T : ~ (<<y, x>> \in R)
  <2> HIDE DEF T
  <2> QED
    BY <1>2, <1>3, WFMin
<1>5. PICK x \in T : \A y \in T : ~ (<<y, x>> \in R)
  BY <1>4
<1>6. x \in Nat /\ x \notin S /\ x # 0
  OBVIOUS
<1>7. x - 1 \in Nat /\ x - 1 < x
  BY <1>6
<1>8. x - 1 \notin T
  <2> HIDE DEF T
  <2> QED
    BY <1>1, <1>3, <1>5, <1>7
<1> QED
  BY <1>6, <1>7, <1>8

\* The functions that are defined step by step.
Iterations(A, a, N, step) ==
    {f \in [0 .. N -> A] :
        \A n \in 0 .. N : f[n] = IF n = 0 THEN a ELSE step[<<n, f[n - 1]>>]}

LEMMA Iteration ==
    ASSUME NEW A, NEW a \in A, NEW N \in Nat, NEW step \in [(1 .. N) \X A -> A]
    PROVE  Iterations(A, a, N, step) # {}
<1> DEFINE Upto(m, f) == \A n \in 0 .. m : f[n] = IF n = 0 THEN a ELSE step[<<n, f[n - 1]>>]
           Built == {m \in Nat : m <= N => \E f \in [0 .. m -> A] : Upto(m, f)}
<1>1. 0 \in Built
  <2> DEFINE f == [n \in 0 .. 0 |-> a]
  <2>1. f \in [0 .. 0 -> A] /\ Upto(0, f)
    OBVIOUS
  <2> HIDE DEF f, Upto
  <2> QED
    BY <2>1
<1>2. ASSUME NEW m \in Nat, m \in Built PROVE m + 1 \in Built
  <2> SUFFICES ASSUME m + 1 <= N
               PROVE  \E f \in [0 .. m + 1 -> A] : Upto(m + 1, f)
    OBVIOUS
  <2>1. PICK g \in [0 .. m -> A] : Upto(m, g)
    BY <1>2
  <2> DEFINE f == [n \in 0 .. m + 1 |-> IF n = m + 1 THEN step[<<m + 1, g[m]>>] ELSE g[n]]
  <2>2. g[m] \in A /\ step[<<m + 1, g[m]>>] \in A
    <3>1. m \in 0 .. m /\ m + 1 \in 1 .. N
      OBVIOUS
    <3>2. g[m] \in A
      BY <2>1, <3>1
    <3> QED
      BY <3>1, <3>2
  <2>3. f \in [0 .. m + 1 -> A]
    BY <2>1, <2>2
  <2>4. ASSUME NEW n \in 0 .. m + 1
        PROVE  f[n] = IF n = 0 THEN a ELSE step[<<n, f[n - 1]>>]
    <3>1. CASE n = m + 1
      <4>1. n # 0 /\ n - 1 = m /\ f[m] = g[m] /\ f[n] = step[<<m + 1, g[m]>>]
        BY <3>1
      <4> QED
        BY <3>1, <4>1
    <3>2. CASE n # m + 1
      <4>1. n \in 0 .. m /\ (n # 0 => n - 1 \in 0 .. m)
        BY <3>2
      <4>2. f[n] = g[n] /\ (n # 0 => f[n - 1] = g[n - 1])
        BY <4>1
      <4> QED
        BY <4>1, <4>2, <2>1
    <3> QED
      BY <3>1, <3>2
  <2>5. Upto(m + 1, f)
    <3> HIDE DEF f
    <3> QED
      BY <2>4
  <2> HIDE DEF f, Upto
  <2> QED
    BY <2>3, <2>5
<1>3. N \in Built
  <2> HIDE DEF Built
  <2> QED
    BY <1>1, <1>2, NatInduct
<1> QED
  <2> HIDE DEF Upto
  <2>1. \E f \in [0 .. N -> A] : Upto(N, f)
    BY <1>3
  <2> QED
    BY <2>1 DEF Upto, Iterations

\* What holds at first and is kept by every step holds at last.
LEMMA Iterated ==
    ASSUME NEW A, NEW N \in Nat, NEW f, f[0] \in A,
           \A n \in 1 .. N : f[n - 1] \in A => f[n] \in A
    PROVE  f[N] \in A
<1> DEFINE Typed == {n \in Nat : n <= N => f[n] \in A}
<1>1. 0 \in Typed
  OBVIOUS
<1>2. ASSUME NEW n \in Nat, n \in Typed PROVE n + 1 \in Typed
  <2> SUFFICES ASSUME n + 1 <= N PROVE f[n + 1] \in A
    OBVIOUS
  <2> DEFINE x == n + 1
  <2>1. x \in 1 .. N /\ x - 1 = n /\ n <= N
    OBVIOUS
  <2> HIDE DEF x
  <2>2. f[x - 1] \in A
    BY <1>2, <2>1
  <2>3. f[x] \in A
    BY <2>1, <2>2
  <2> QED
    BY <2>3 DEF x
<1>3. \A n \in Nat : n \in Typed
  <2> HIDE DEF Typed
  <2> QED
    BY <1>1, <1>2, NatInduct
<1> QED
  BY <1>3

LEMMA WithoutTyped ==
    ASSUME NEW E, NEW list \in Seq(E), NEW S
    PROVE  Without(list, S) \in Seq(E)
<1> DEFINE N == Len(list)
           Keep(n, out) == IF list[n] \in S THEN out ELSE Append(out, list[n])
           Body(f) == [n \in 0 .. Len(list) |->
                         IF n = 0 THEN <<>>
                         ELSE IF list[n] \in S THEN f[n - 1] ELSE Append(f[n - 1], list[n])]
           step == [x \in (1 .. N) \X Seq(E) |-> Keep(x[1], x[2])]
           h == CHOOSE f : f = Body(f)
<1>1. N \in Nat /\ <<>> \in Seq(E)
  OBVIOUS
<1>2. ASSUME NEW n \in 1 .. N, NEW out \in Seq(E) PROVE Keep(n, out) \in Seq(E)
  <2>1. list[n] \in E
    OBVIOUS
  <2> QED
    BY <2>1
<1>3. step \in [(1 .. N) \X Seq(E) -> Seq(E)]
  <2> HIDE DEF Keep
  <2> QED
    BY <1>2
<1>4. PICK g \in [0 .. N -> Seq(E)] :
        \A n \in 0 .. N : g[n] = IF n = 0 THEN <<>> ELSE step[<<n, g[n - 1]>>]
  <2>1. Iterations(Seq(E), <<>>, N, step) # {}
    <3> HIDE DEF step, N
    <3> QED
      BY <1>1, <1>3, Iteration
  <2> HIDE DEF step, N
  <2> QED
    BY <2>1 DEF Iterations
<1>5. ASSUME NEW n \in 0 .. N
      PROVE  g[n] = IF n = 0 THEN <<>> ELSE Keep(n, g[n - 1])
  <2>1. CASE n = 0
    BY <1>4, <2>1
  <2>2. CASE n # 0
    <3>1. n \in 1 .. N /\ g[n - 1] \in Seq(E)
      BY <1>1, <1>4, <2>2
    <3>2. step[<<n, g[n - 1]>>] = Keep(n, g[n - 1])
      <4> HIDE DEF Keep, N
      <4> QED
        BY <3>1
    <3> QED
      BY <1>4, <2>2, <3>2
  <2> QED
    BY <2>1, <2>2
<1>6. g = Body(g)
  BY <1>4, <1>5
<1>7. h = Body(h)
  <2> HIDE DEF Body
  <2> QED
    BY <1>6, Zenon
<1>8. Without(list, S) = h[N]
  BY Zenon DEF Without
<1>9. h[0] = <<>> /\ \A n \in 1 .. N : h[n] = Keep(n, h[n - 1])
  <2> HIDE DEF h
  <2>1. \A n \in 0 .. Len(list) : h[n] = IF n = 0 THEN <<>>
                                         ELSE IF list[n] \in S THEN h[n - 1]
                                         ELSE Append(h[n - 1], list[n])
    BY <1>7, Zenon
  <2> QED
    BY <1>1, <2>1
<1>10. h[N] \in Seq(E)
  <2>1. h[0] \in Seq(E) /\ \A n \in 1 .. N : h[n - 1] \in Seq(E) => h[n] \in Seq(E)
    <3> HIDE DEF h, Keep, N
    <3> QED
      BY <1>1, <1>2, <1>9
  <2> HIDE DEF h, N
  <2> QED
    BY <1>1, <2>1, Iterated
<1> QED
  BY <1>8, <1>10

LEMMA RoundRobinTyped ==
    ASSUME NEW E, NEW top \in Seq(E), NEW found \in Seq(E), NEW feed \in Seq(E)
    PROVE  RoundRobin(top, found, feed) \in Seq(E)
<1> DEFINE lists == <<top, found, feed>>
           N == 3 * (Len(top) + Len(found) + Len(feed))
           list(n) == lists[((n - 1) % 3) + 1]
           round(n) == ((n - 1) \div 3) + 1
           Deal(n, out) == IF round(n) <= Len(list(n)) THEN Append(out, list(n)[round(n)])
                           ELSE out
           Body(f) == [n \in 0 .. N |->
                         IF n = 0 THEN <<>>
                         ELSE IF round(n) <= Len(list(n)) THEN Append(f[n - 1], list(n)[round(n)])
                         ELSE f[n - 1]]
           step == [x \in (1 .. N) \X Seq(E) |-> Deal(x[1], x[2])]
           h == CHOOSE f : f = Body(f)
<1>1. N \in Nat /\ <<>> \in Seq(E)
  OBVIOUS
<1>2. ASSUME NEW n \in 1 .. N, NEW out \in Seq(E) PROVE Deal(n, out) \in Seq(E)
  <2>1. (n - 1) % 3 \in 0 .. 2 /\ round(n) \in Nat \ {0}
    BY <1>1
  <2>2. list(n) \in Seq(E)
    <3>1. ((n - 1) % 3) + 1 \in 1 .. 3
      BY <2>1
    <3> DEFINE i == ((n - 1) % 3) + 1
    <3> HIDE DEF i
    <3>2. i \in 1 .. 3 => lists[i] \in Seq(E)
      OBVIOUS
    <3> QED
      BY <3>1, <3>2 DEF i
  <2>3. round(n) <= Len(list(n)) => list(n)[round(n)] \in E
    <3> HIDE DEF list, round
    <3> QED
      BY <2>1, <2>2
  <2> HIDE DEF list, round
  <2> QED
    BY <2>3
<1>3. step \in [(1 .. N) \X Seq(E) -> Seq(E)]
  <2> HIDE DEF Deal, N
  <2> QED
    BY <1>2
<1>4. PICK g \in [0 .. N -> Seq(E)] :
        \A n \in 0 .. N : g[n] = IF n = 0 THEN <<>> ELSE step[<<n, g[n - 1]>>]
  <2>1. Iterations(Seq(E), <<>>, N, step) # {}
    <3> HIDE DEF step, N
    <3> QED
      BY <1>1, <1>3, Iteration
  <2> HIDE DEF step, N
  <2> QED
    BY <2>1 DEF Iterations
<1>5. ASSUME NEW n \in 0 .. N
      PROVE  g[n] = IF n = 0 THEN <<>> ELSE Deal(n, g[n - 1])
  <2> HIDE DEF Deal, N
  <2>1. CASE n = 0
    BY <1>4, <2>1
  <2>2. CASE n # 0
    <3>1. n \in 1 .. N /\ g[n - 1] \in Seq(E)
      BY <1>1, <1>4, <2>2
    <3>2. step[<<n, g[n - 1]>>] = Deal(n, g[n - 1])
      BY <3>1
    <3> HIDE DEF step
    <3> QED
      BY <1>4, <2>2, <3>2
  <2> QED
    BY <2>1, <2>2
<1>6. g = Body(g)
  <2>1. g = [n \in 0 .. N |-> g[n]]
    <3> HIDE DEF N, step
    <3> QED
      BY <1>4
  <2>2. Body(g) = [n \in 0 .. N |-> IF n = 0 THEN <<>> ELSE Deal(n, g[n - 1])]
    BY Zenon
  <2> HIDE DEF Body, Deal, N
  <2> QED
    BY <1>5, <2>1, <2>2, Zenon
<1>7. h = Body(h)
  <2> HIDE DEF Body
  <2> QED
    BY <1>6, Zenon
<1>8. RoundRobin(top, found, feed) = h[N]
  BY Zenon DEF RoundRobin
<1>9. h[0] = <<>> /\ \A n \in 1 .. N : h[n] = Deal(n, h[n - 1])
  <2>1. Body(h) = [n \in 0 .. N |-> IF n = 0 THEN <<>> ELSE Deal(n, h[n - 1])]
    BY Zenon
  <2> HIDE DEF h, Body, Deal
  <2>2. \A n \in 0 .. N : h[n] = IF n = 0 THEN <<>> ELSE Deal(n, h[n - 1])
    <3> HIDE DEF N
    <3> QED
      BY <1>7, <2>1, Zenon
  <2> HIDE DEF N
  <2> QED
    BY <1>1, <2>2
<1>10. h[N] \in Seq(E)
  <2>1. h[0] \in Seq(E) /\ \A n \in 1 .. N : h[n - 1] \in Seq(E) => h[n] \in Seq(E)
    <3> HIDE DEF h, Deal, N
    <3> QED
      BY <1>1, <1>2, <1>9
  <2> HIDE DEF h, N
  <2> QED
    BY <1>1, <2>1, Iterated
<1> QED
  BY <1>8, <1>10

----------------------------------------------------------------------------
(* The scan: it only ever counts off skips, pins hosts of the web, and     *)
(* picks at most a budget of candidates, of each host one.                 *)

OneOfEach(picked) ==
    \A i, j \in DOMAIN picked : i # j => HostOf(picked[i]) # HostOf(picked[j])

Scanned(iso, reg) ==
    {acc \in [reg : [Site -> Entry], pinned : SUBSET Site, picked : Seq(Candidates)] :
        /\ \A h \in Site : acc.reg[h].provider = reg[h].provider
        /\ Len(acc.picked) <= Budget
        /\ ~iso => OneOfEach(acc.picked)}

LEMMA ScanKeeps ==
    ASSUME NEW iso \in BOOLEAN, NEW reg, NEW acc \in Scanned(iso, reg), NEW c \in Candidates
    PROVE  Scan(iso, acc, c) \in Scanned(iso, reg)
<1> DEFINE h == HostOf(c)
<1>1. h \in Site
  BY SitesAssumption
<1>2. /\ acc \in [reg : [Site -> Entry], pinned : SUBSET Site, picked : Seq(Candidates)]
      /\ \A x \in Site : acc.reg[x].provider = reg[x].provider
      /\ Len(acc.picked) <= Budget /\ (~iso => OneOfEach(acc.picked))
  BY DEF Scanned
<1>3. acc.reg \in [Site -> Entry] /\ acc.pinned \subseteq Site /\ acc.picked \in Seq(Candidates)
  BY <1>2
<1>4. Budget \in Nat /\ EmptySkip \in Nat
  BY HarvestAssumption
<1> DEFINE pin == [acc EXCEPT !.pinned = acc.pinned \cup {h}]
           count == [acc EXCEPT !.reg = [acc.reg EXCEPT ![h] =
                                          [acc.reg[h] EXCEPT !.skip = acc.reg[h].skip - 1]]]
           pick == [acc EXCEPT !.picked = Append(acc.picked, c)]
<1>0. \A q : /\ [acc EXCEPT !.pinned = q] = [reg |-> acc.reg, pinned |-> q, picked |-> acc.picked]
            /\ [acc EXCEPT !.picked = q] = [reg |-> acc.reg, pinned |-> acc.pinned, picked |-> q]
  BY <1>2
<1> HIDE DEF h
<1>5. \/ Scan(iso, acc, c) = acc
      \/ Scan(iso, acc, c) = pin
      \/ Scan(iso, acc, c) = count /\ acc.reg[h].skip > 0
      \/ Scan(iso, acc, c) = pick /\ Len(acc.picked) < Budget
           /\ (~iso => ~AlreadyPicked(acc.picked, h))
  <2>1. Len(acc.picked) \in Nat
    BY <1>3
  <2>2. \/ Scan(iso, acc, c) = acc
        \/ Scan(iso, acc, c) = pin
        \/ Scan(iso, acc, c) = count /\ acc.reg[h].skip > 0
        \/ Scan(iso, acc, c) = pick /\ ~(Len(acc.picked) >= Budget)
             /\ (~iso => ~AlreadyPicked(acc.picked, h))
    BY Zenon DEF Scan, h
  <2> QED
    BY <1>4, <2>1, <2>2
<1>6. pin \in Scanned(iso, reg)
  <2> DEFINE q == acc.pinned \cup {h}
  <2>1. q \subseteq Site
    BY <1>1, <1>3
  <2> HIDE DEF q
  <2>2. pin = [reg |-> acc.reg, pinned |-> q, picked |-> acc.picked]
    BY <1>0 DEF q
  <2> HIDE DEF pin
  <2> QED
    BY <1>2, <1>3, <2>1, <2>2 DEF Scanned
<1>7. ASSUME acc.reg[h].skip > 0 PROVE count \in Scanned(iso, reg)
  <2> DEFINE e == [acc.reg[h] EXCEPT !.skip = acc.reg[h].skip - 1]
             r == [acc.reg EXCEPT ![h] = e]
  <2>1. acc.reg[h] \in Entry
    BY <1>1, <1>3
  <2>2. acc.reg[h].skip - 1 \in 0 .. EmptySkip
    BY <1>4, <1>7, <2>1 DEF Entry
  <2>3. e \in Entry /\ e.provider = acc.reg[h].provider
    BY <2>1, <2>2 DEF Entry
  <2> HIDE DEF e
  <2>4. r \in [Site -> Entry] /\ \A x \in Site : r[x].provider = acc.reg[x].provider
    BY <1>1, <1>3, <2>3
  <2>5. count = [reg |-> r, pinned |-> acc.pinned, picked |-> acc.picked]
    BY <1>2 DEF e
  <2> HIDE DEF r, count
  <2> QED
    BY <1>2, <1>3, <2>4, <2>5 DEF Scanned
<1>8. ASSUME Len(acc.picked) < Budget, ~iso => ~AlreadyPicked(acc.picked, h)
      PROVE  pick \in Scanned(iso, reg)
  <2> DEFINE p == Append(acc.picked, c)
  <2>1. /\ p \in Seq(Candidates) /\ Len(p) = Len(acc.picked) + 1 /\ Len(acc.picked) \in Nat
        /\ DOMAIN p = 1 .. Len(acc.picked) + 1 /\ DOMAIN acc.picked = 1 .. Len(acc.picked)
        /\ p[Len(acc.picked) + 1] = c
        /\ \A i \in 1 .. Len(acc.picked) : p[i] = acc.picked[i]
    BY <1>3
  <2> HIDE DEF p
  <2>2. Len(p) <= Budget
    BY <1>4, <1>8, <2>1
  <2>3. ASSUME ~iso PROVE OneOfEach(p)
    <3>1. \A i \in 1 .. Len(acc.picked) : HostOf(p[i]) # h
      BY <1>8, <2>1, <2>3 DEF AlreadyPicked
    <3>2. \A i, j \in 1 .. Len(acc.picked) : i # j => HostOf(p[i]) # HostOf(p[j])
      BY <1>2, <2>1, <2>3 DEF OneOfEach
    <3>3. HostOf(p[Len(acc.picked) + 1]) = h
      BY <2>1 DEF h
    <3> SUFFICES ASSUME NEW i \in 1 .. Len(acc.picked) + 1, NEW j \in 1 .. Len(acc.picked) + 1,
                        i # j
                 PROVE  HostOf(p[i]) # HostOf(p[j])
      BY <2>1 DEF OneOfEach
    <3>4. \/ i \in 1 .. Len(acc.picked) /\ j \in 1 .. Len(acc.picked)
          \/ i \in 1 .. Len(acc.picked) /\ j = Len(acc.picked) + 1
          \/ i = Len(acc.picked) + 1 /\ j \in 1 .. Len(acc.picked)
      <4> DEFINE m == Len(acc.picked)
      <4>1. m \in Nat
        BY <2>1
      <4> HIDE DEF m
      <4>2. \A x \in 1 .. m + 1 : x \in 1 .. m \/ x = m + 1
        BY <4>1
      <4>3. i \in 1 .. m + 1 /\ j \in 1 .. m + 1 /\ i # j
        BY DEF m
      <4>4. \/ i \in 1 .. m /\ j \in 1 .. m
            \/ i \in 1 .. m /\ j = m + 1
            \/ i = m + 1 /\ j \in 1 .. m
        BY <4>2, <4>3
      <4> QED
        BY <4>4 DEF m
    <3> QED
      BY <3>1, <3>2, <3>3, <3>4
  <2>4. pick = [reg |-> acc.reg, pinned |-> acc.pinned, picked |-> p]
    BY <1>0 DEF p
  <2> HIDE DEF pick
  <2> QED
    BY <1>2, <1>3, <2>1, <2>2, <2>3, <2>4 DEF Scanned
<1> QED
  BY <1>5, <1>6, <1>7, <1>8

LEMMA SelectionKeeps ==
    ASSUME NEW iso \in BOOLEAN, NEW cands \in Seq(Candidates), NEW reg \in [Site -> Entry]
    PROVE  Selection(iso, cands, reg) \in Scanned(iso, reg)
<1> DEFINE N == Len(cands)
           A == Scanned(iso, reg)
           a == [reg |-> reg, pinned |-> {}, picked |-> <<>>]
           Body(f) == [n \in 0 .. Len(cands) |->
                         IF n = 0 THEN [reg |-> reg, pinned |-> {}, picked |-> <<>>]
                         ELSE Scan(iso, f[n - 1], cands[n])]
           step == [x \in (1 .. N) \X A |-> Scan(iso, x[2], cands[x[1]])]
           h == CHOOSE f : f = Body(f)
<1>1. N \in Nat /\ \A n \in 1 .. N : cands[n] \in Candidates
  OBVIOUS
<1>2. a \in A
  <2>1. /\ <<>> \in Seq(Candidates) /\ Len(<<>>) = 0 /\ Budget \in Nat /\ DOMAIN <<>> = {}
    BY HarvestAssumption
  <2>2. OneOfEach(<<>>) /\ Len(<<>>) <= Budget
    BY <2>1 DEF OneOfEach
  <2>3. a \in [reg : [Site -> Entry], pinned : SUBSET Site, picked : Seq(Candidates)]
    BY <2>1
  <2> QED
    BY <2>2, <2>3 DEF Scanned
<1> HIDE DEF A, N
<1>3. ASSUME NEW n \in 1 .. N, NEW acc \in A PROVE Scan(iso, acc, cands[n]) \in A
  BY <1>1, ScanKeeps DEF A
<1>4. step \in [(1 .. N) \X A -> A]
  BY <1>3
<1> HIDE DEF a
<1>5. PICK g \in [0 .. N -> A] :
        \A n \in 0 .. N : g[n] = IF n = 0 THEN a ELSE step[<<n, g[n - 1]>>]
  <2>1. Iterations(A, a, N, step) # {}
    <3> HIDE DEF step
    <3> QED
      BY <1>1, <1>2, <1>4, Iteration
  <2> HIDE DEF step
  <2> QED
    BY <2>1 DEF Iterations
<1>6. ASSUME NEW n \in 0 .. N
      PROVE  g[n] = IF n = 0 THEN a ELSE Scan(iso, g[n - 1], cands[n])
  <2>1. CASE n = 0
    BY <1>5, <2>1
  <2>2. CASE n # 0
    <3>1. n \in 1 .. N /\ g[n - 1] \in A
      BY <1>1, <1>5, <2>2
    <3>2. step[<<n, g[n - 1]>>] = Scan(iso, g[n - 1], cands[n])
      BY <3>1
    <3> HIDE DEF step
    <3> QED
      BY <1>5, <2>2, <3>2
  <2> QED
    BY <2>1, <2>2
<1>7. g = Body(g)
  <2>1. g = [n \in 0 .. N |-> g[n]]
    <3> HIDE DEF step
    <3> QED
      BY <1>5
  <2>2. Body(g) = [n \in 0 .. N |-> IF n = 0 THEN a ELSE Scan(iso, g[n - 1], cands[n])]
    BY Zenon DEF N, a
  <2> HIDE DEF Body
  <2> QED
    BY <1>6, <2>1, <2>2, Zenon
<1>8. h = Body(h)
  <2> HIDE DEF Body
  <2> QED
    BY <1>7, Zenon
<1>9. Selection(iso, cands, reg) = h[N]
  BY Zenon DEF Selection, N
<1>10. h[0] = a /\ \A n \in 1 .. N : h[n] = Scan(iso, h[n - 1], cands[n])
  <2>1. Body(h) = [n \in 0 .. N |-> IF n = 0 THEN a ELSE Scan(iso, h[n - 1], cands[n])]
    BY Zenon DEF N, a
  <2> HIDE DEF h, Body
  <2>2. \A n \in 0 .. N : h[n] = IF n = 0 THEN a ELSE Scan(iso, h[n - 1], cands[n])
    BY <1>8, <2>1, Zenon
  <2> QED
    BY <1>1, <2>2
<1>11. h[N] \in A
  <2> HIDE DEF h
  <2>1. h[0] \in A /\ \A n \in 1 .. N : h[n - 1] \in A => h[n] \in A
    BY <1>2, <1>3, <1>10
  <2> QED
    BY <1>1, <2>1, Iterated
<1> QED
  BY <1>9, <1>11 DEF A

----------------------------------------------------------------------------
(* The inductive invariant: the types, that the registry remembers which   *)
(* hosts showed themselves a business, and that the tasks of a pass walk   *)
(* one host each, those of a lookup apart.                                 *)

TaskRecord ==
    [cand : Candidates, iso : BOOLEAN, at : {"queued", "plan", "page", "record", "done"},
     left : 0 .. Pages, got : BOOLEAN, err : BOOLEAN, business : BOOLEAN]

TasksTyped ==
    /\ tasks \in Seq(TaskRecord) /\ Len(tasks) <= Budget
    /\ \A i \in DOMAIN tasks : tasks[i].at = "page" => tasks[i].left \in 1 .. Pages

HostsTyped ==
    /\ registry \in [Site -> Entry] /\ saved \in [Site -> Entry]
    /\ learned \subseteq Site /\ approved \subseteq Site /\ shown \subseteq Site

StoresTyped == pins \in [Store -> SUBSET Site] /\ pinsSaved \in [Store -> SUBSET Site]

PassTyped ==
    /\ cursor \in 0 .. Len(Rotation) - 1
    /\ known \subseteq Site /\ queue \subseteq Businesses
    /\ pass \in BOOLEAN /\ faults \in 0 .. MaxFaults

Remembered == \A h \in shown : registry[h].provider

OnePerHost ==
    \A i, j \in DOMAIN tasks : i # j /\ ~tasks[i].iso =>
        ~tasks[j].iso /\ HostOf(tasks[i].cand) # HostOf(tasks[j].cand)

IInv == TasksTyped /\ HostsTyped /\ StoresTyped /\ PassTyped /\ Remembered /\ OnePerHost

\* Beside it: validators of tagged sites only, sources of the web, and no more
\* restarts than the bound.
WebTyped == validators \subseteq Tagged /\ sources \subseteq Site /\ restarts \in 0 .. MaxRestarts

LEMMA IInvTypeOK == IInv /\ WebTyped => TypeOK
<1> SUFFICES ASSUME IInv, WebTyped PROVE TypeOK
  OBVIOUS
<1>1. \A i \in DOMAIN tasks : tasks[i] \in TaskRecord
  BY DEF IInv, TasksTyped
<1>2. \A i \in DOMAIN tasks : tasks[i].at \in {"queued", "plan", "page", "record", "done"}
  BY <1>1 DEF TaskRecord
<1> QED
  BY <1>2 DEF TypeOK, IInv, TasksTyped, HostsTyped, StoresTyped, PassTyped, WebTyped

LEMMA Numbers ==
    /\ Budget \in Nat /\ EmptySkip \in Nat /\ EvictAge \in Nat /\ MaxFaults \in Nat
    /\ Pages \in Nat \ {0} /\ MediaCrawls \in Nat \ {0} /\ TopN \in Nat /\ PerPass \in Nat \ {0}
  BY HarvestAssumption

LEMMA FaultTyped ==
    ASSUME faults \in 0 .. MaxFaults, Fault \/ NoFault
    PROVE  faults' \in 0 .. MaxFaults
  BY Numbers DEF Fault, NoFault

LEMMA UnknownTyped == Unknown \in Entry /\ ~Unknown.provider
  BY Numbers DEF Unknown, Entry

\* A host that is pinned is one of the web.
LEMMA PinTyped ==
    ASSUME StoresTyped, faults \in 0 .. MaxFaults, NEW store \in Store,
           NEW hosts \in SUBSET Site, Pin(store, hosts)
    PROVE  StoresTyped' /\ faults' \in 0 .. MaxFaults
<1>1. /\ pins' = [pins EXCEPT ![store] = pins[store] \cup hosts]
      /\ \/ pinsSaved' = pinsSaved
         \/ pinsSaved' = [pinsSaved EXCEPT ![store] = pinsSaved[store]]
         \/ pinsSaved' = [pinsSaved EXCEPT ![store] = pins'[store]]
      /\ Fault \/ NoFault
  BY DEF Pin
<1>2. pins' \in [Store -> SUBSET Site]
  BY <1>1 DEF StoresTyped
<1>3. pins'[store] \in SUBSET Site /\ pinsSaved \in [Store -> SUBSET Site]
      /\ pinsSaved[store] \in SUBSET Site
  BY <1>2 DEF StoresTyped
<1>4. pinsSaved' \in [Store -> SUBSET Site]
  BY <1>1, <1>3
<1> QED
  BY <1>1, <1>2, <1>4, FaultTyped DEF StoresTyped

\* record: what it makes of an entry is one, and business sticks.
LEMMA RecordTyped ==
    ASSUME NEW e \in Entry, NEW got \in BOOLEAN, NEW err \in BOOLEAN, NEW business \in BOOLEAN,
           NEW f \in Record(e, got, err, business)
    PROVE  f \in Entry /\ f.provider = (e.provider \/ business)
<1>1. PICK up \in BOOLEAN :
        f = [seen |-> TRUE, age |-> 0, rated |-> up, latched |-> e.latched,
             skip |-> IF got THEN 0 ELSE EmptySkip, provider |-> e.provider \/ business,
             streak |-> IF business THEN 0
                        ELSE IF got THEN Least(e.streak + 1, MediaCrawls) ELSE e.streak]
  BY DEF Record
<1>2. e.latched \in BOOLEAN /\ e.provider \in BOOLEAN /\ e.streak \in 0 .. MediaCrawls
  BY DEF Entry
<1>3. (IF business THEN 0 ELSE IF got THEN Least(e.streak + 1, MediaCrawls) ELSE e.streak)
        \in 0 .. MediaCrawls
  BY <1>2, Numbers DEF Least
<1>4. (IF got THEN 0 ELSE EmptySkip) \in 0 .. EmptySkip /\ 0 \in 0 .. EvictAge
  BY Numbers
<1>5. (e.provider \/ business) \in BOOLEAN
  OBVIOUS
<1>6. f.provider = (e.provider \/ business)
  BY <1>1
<1>7. f \in Entry
  BY <1>1, <1>2, <1>3, <1>4, <1>5 DEF Entry
<1> QED
  BY <1>6, <1>7

\* Time and rejections leave the types, and who is known as a business.
LEMMA OlderTyped ==
    ASSUME NEW reg \in [Site -> Entry], NEW hosts
    PROVE  /\ Older(reg) \in [Site -> Entry]
           /\ Downranked(reg, hosts) \in [Site -> Entry]
           /\ \A h \in Site : /\ Older(reg)[h].provider = reg[h].provider
                              /\ Downranked(reg, hosts)[h].provider = reg[h].provider
<1>1. ASSUME NEW h \in Site
      PROVE  /\ [reg[h] EXCEPT !.age = Least(reg[h].age + 1, EvictAge)] \in Entry
             /\ [reg[h] EXCEPT !.rated = reg[h].rated /\ h \notin hosts] \in Entry
             /\ [reg[h] EXCEPT !.age = Least(reg[h].age + 1, EvictAge)].provider = reg[h].provider
             /\ [reg[h] EXCEPT !.rated = reg[h].rated /\ h \notin hosts].provider
                  = reg[h].provider
  <2>1. reg[h] \in Entry
    OBVIOUS
  <2> DEFINE a == Least(reg[h].age + 1, EvictAge)
             b == reg[h].rated /\ h \notin hosts
  <2>2. a \in 0 .. EvictAge
    BY <2>1, Numbers DEF Entry, Least
  <2>3. b \in BOOLEAN
    OBVIOUS
  <2> HIDE DEF a, b
  <2>4. [reg[h] EXCEPT !.age = a] \in Entry /\ [reg[h] EXCEPT !.rated = b] \in Entry
        /\ [reg[h] EXCEPT !.age = a].provider = reg[h].provider
        /\ [reg[h] EXCEPT !.rated = b].provider = reg[h].provider
    BY <2>1, <2>2, <2>3 DEF Entry
  <2> QED
    BY <2>4 DEF a, b
<1>2. /\ Older(reg) = [h \in Site |-> [reg[h] EXCEPT !.age = Least(reg[h].age + 1, EvictAge)]]
      /\ Downranked(reg, hosts)
           = [h \in Site |-> [reg[h] EXCEPT !.rated = reg[h].rated /\ h \notin hosts]]
  BY Zenon DEF Older, Downranked
<1>3. \A h \in Site :
        /\ Older(reg)[h] = [reg[h] EXCEPT !.age = Least(reg[h].age + 1, EvictAge)]
        /\ Downranked(reg, hosts)[h] = [reg[h] EXCEPT !.rated = reg[h].rated /\ h \notin hosts]
  BY <1>2
<1>4. /\ Older(reg) = [h \in Site |-> Older(reg)[h]]
      /\ Downranked(reg, hosts) = [h \in Site |-> Downranked(reg, hosts)[h]]
  BY <1>2, <1>3
<1> DEFINE O == Older(reg)
           D == Downranked(reg, hosts)
<1>5. \A h \in Site : /\ O[h] \in Entry /\ O[h].provider = reg[h].provider
                      /\ D[h] \in Entry /\ D[h].provider = reg[h].provider
  BY <1>1, <1>3, Zenon
<1>6. O = [h \in Site |-> O[h]] /\ D = [h \in Site |-> D[h]]
  BY <1>4
<1> HIDE DEF O, D
<1>7. /\ O \in [Site -> Entry] /\ D \in [Site -> Entry]
      /\ \A h \in Site : O[h].provider = reg[h].provider /\ D[h].provider = reg[h].provider
  BY <1>5, <1>6
<1> QED
  BY <1>7 DEF O, D

\* A block adds the host to the blocked ones at most, and may latch it.
LEMMA BlockTyped ==
    ASSUME learned \subseteq Site, approved \subseteq Site, faults \in 0 .. MaxFaults,
           NEW h \in Site, NEW reg \in [Site -> Entry], Block(h, reg)
    PROVE  /\ registry' \in [Site -> Entry]
           /\ \A x \in Site : registry'[x].provider = reg[x].provider
           /\ learned' \subseteq Site /\ approved' \subseteq approved \cup {h}
           /\ faults' \in 0 .. MaxFaults
<1>1. PICK answer \in {"ok", "lost", "fails"} :
        /\ Fault \/ NoFault
        /\ approved' = approved \/ approved' = approved \cup {h}
        /\ learned' = learned \/ learned' = learned \cup {h}
        /\ registry' = Latch(reg, h, answer)
  BY DEF Block
<1> DEFINE b == reg[h].latched \/ (reg[h].seen /\ answer = "ok")
           e == [reg[h] EXCEPT !.latched = b]
<1>2. registry' = [reg EXCEPT ![h] = e]
  BY <1>1 DEF Latch
<1>3. b \in BOOLEAN /\ reg[h] \in Entry
  OBVIOUS
<1> HIDE DEF b
<1>4. e \in Entry /\ e.provider = reg[h].provider
  BY <1>3 DEF Entry
<1> HIDE DEF e
<1>5. registry' \in [Site -> Entry] /\ \A x \in Site : registry'[x].provider = reg[x].provider
  BY <1>2, <1>4
<1> QED
  BY <1>1, <1>5, FaultTyped

----------------------------------------------------------------------------
(* The tasks of the pool.                                                  *)

\* The task a step of the pool puts in the place of the i-th: the same
\* candidate, and pages left while it is at one.
LEMMA TaskStep ==
    ASSUME TasksTyped, OnePerHost, NEW i \in DOMAIN tasks, NEW t \in TaskRecord,
           t.cand = tasks[i].cand, t.iso = tasks[i].iso,
           t.at = "page" => t.left \in 1 .. Pages,
           tasks' = [tasks EXCEPT ![i] = t]
    PROVE  TasksTyped' /\ OnePerHost'
<1>1. PICK old : old = tasks
  OBVIOUS
<1>2. PICK new : new = [old EXCEPT ![i] = t]
  OBVIOUS
<1>3. old \in Seq(TaskRecord) /\ Len(old) <= Budget /\ i \in DOMAIN old
  BY <1>1 DEF TasksTyped
<1>4. /\ new \in Seq(TaskRecord) /\ Len(new) = Len(old) /\ DOMAIN new = DOMAIN old
      /\ new[i] = t /\ \A j \in DOMAIN old : j # i => new[j] = old[j]
  BY <1>2, <1>3
<1>5. tasks' = new
  BY <1>1, <1>2
<1>6. \A j \in DOMAIN new : new[j].at = "page" => new[j].left \in 1 .. Pages
  BY <1>1, <1>4 DEF TasksTyped
<1>7. TasksTyped'
  BY <1>3, <1>4, <1>5, <1>6 DEF TasksTyped
<1>8. \A j \in DOMAIN old : new[j].cand = old[j].cand /\ new[j].iso = old[j].iso
  BY <1>1, <1>4
<1>9. ASSUME NEW j \in DOMAIN new, NEW k \in DOMAIN new, j # k, ~new[j].iso
      PROVE  ~new[k].iso /\ HostOf(new[j].cand) # HostOf(new[k].cand)
  BY <1>1, <1>4, <1>8, <1>9 DEF OnePerHost
<1> QED
  BY <1>5, <1>7, <1>9 DEF OnePerHost

LEMMA TaskTyped ==
    ASSUME TasksTyped, NEW i \in DOMAIN tasks
    PROVE  /\ tasks[i] \in TaskRecord /\ HostOf(tasks[i].cand) \in Site
           /\ tasks[i].cand \in Candidates /\ tasks[i].iso \in BOOLEAN
           /\ tasks[i].got \in BOOLEAN /\ tasks[i].err \in BOOLEAN
           /\ tasks[i].business \in BOOLEAN /\ tasks[i].left \in 0 .. Pages
<1>1. tasks[i] \in TaskRecord
  BY DEF TasksTyped
<1>2. tasks[i].cand \in Candidates
  BY <1>1 DEF TaskRecord
<1> QED
  BY <1>1, <1>2, SitesAssumption DEF TaskRecord

\* A page that is done with leaves one page less, and at the last the walk.
LEMMA TurnedTyped ==
    ASSUME TasksTyped, NEW i \in DOMAIN tasks, tasks[i].at = "page"
    PROVE  \E t \in TaskRecord :
             /\ Turned(i) = [tasks EXCEPT ![i] = t]
             /\ t.cand = tasks[i].cand /\ t.iso = tasks[i].iso
             /\ t.at = "page" => t.left \in 1 .. Pages
<1> DEFINE t == [tasks[i] EXCEPT !.left = tasks[i].left - 1,
                                 !.at = IF tasks[i].left = 1 THEN "record" ELSE "page"]
<1>1. tasks[i] \in TaskRecord /\ tasks[i].left \in 1 .. Pages /\ Pages \in Nat
  BY Numbers DEF TasksTyped
<1>2. tasks[i].left - 1 \in 0 .. Pages
      /\ (tasks[i].left # 1 => tasks[i].left - 1 \in 1 .. Pages)
  BY <1>1
<1>3. t \in TaskRecord
  BY <1>1, <1>2 DEF TaskRecord
<1>4. t.cand = tasks[i].cand /\ t.iso = tasks[i].iso
      /\ t.left = tasks[i].left - 1
      /\ t.at = (IF tasks[i].left = 1 THEN "record" ELSE "page")
  BY <1>1 DEF TaskRecord
<1>5. Turned(i) = [tasks EXCEPT ![i] = t]
  BY DEF Turned
<1> HIDE DEF t
<1>6. t.at = "page" => t.left \in 1 .. Pages
  BY <1>2, <1>4
<1> QED
  BY <1>3, <1>4, <1>5, <1>6

\* A step of a task that leaves the registry, and what blocks and pins, alone.
LEMMA TaskStepKeeps ==
    ASSUME IInv, NEW i \in DOMAIN tasks, NEW t \in TaskRecord,
           t.cand = tasks[i].cand, t.iso = tasks[i].iso,
           t.at = "page" => t.left \in 1 .. Pages,
           tasks' = [tasks EXCEPT ![i] = t],
           UNCHANGED <<registry, saved, learned, approved, shown, cursor, pass>>,
           StoresTyped', known' \subseteq Site, queue' \subseteq Businesses,
           faults' \in 0 .. MaxFaults
    PROVE  IInv'
<1>1. TasksTyped' /\ OnePerHost'
  BY TaskStep DEF IInv
<1>2. HostsTyped' /\ Remembered'
  BY DEF IInv, HostsTyped, Remembered
<1>3. PassTyped'
  BY DEF IInv, PassTyped
<1> QED
  BY <1>1, <1>2, <1>3 DEF IInv

LEMMA BeginKeeps ==
    ASSUME IInv, NEW i \in DOMAIN tasks, Begin(i)
    PROVE  IInv'
<1>1. PICK a \in {"done", "plan"} : tasks' = [tasks EXCEPT ![i].at = a]
  BY DEF Begin
<1> DEFINE t == [tasks[i] EXCEPT !.at = a]
<1>2. tasks[i] \in TaskRecord
  BY TaskTyped DEF IInv
<1>3. t \in TaskRecord /\ t.cand = tasks[i].cand /\ t.iso = tasks[i].iso /\ t.at = a
  BY <1>2 DEF TaskRecord
<1>4. tasks' = [tasks EXCEPT ![i] = t]
  BY <1>1
<1>5. /\ UNCHANGED <<registry, saved, learned, approved, shown, cursor, pass>>
      /\ UNCHANGED <<pins, pinsSaved, known, queue, faults>>
  BY DEF Begin, blocks, stores, disk
<1>6. /\ StoresTyped' /\ known' \subseteq Site /\ queue' \subseteq Businesses
      /\ faults' \in 0 .. MaxFaults
  BY <1>5 DEF IInv, StoresTyped, PassTyped
<1> HIDE DEF t
<1>7. t.at = "page" => t.left \in 1 .. Pages
  BY <1>3
<1> QED
  BY <1>3, <1>4, <1>5, <1>6, <1>7, TaskStepKeeps

LEMMA PlanWalkKeeps ==
    ASSUME IInv, NEW i \in DOMAIN tasks, PlanWalk(i)
    PROVE  IInv'
<1> DEFINE host == HostOf(tasks[i].cand)
           walk == [tasks[i] EXCEPT !.at = "record"]
           fail == [tasks[i] EXCEPT !.at = "record", !.err = TRUE]
           go(n) == [tasks[i] EXCEPT !.at = "page", !.left = n]
<1>1. tasks[i] \in TaskRecord /\ host \in Site
  BY TaskTyped DEF IInv
<1>2. UNCHANGED <<registry, saved, learned, approved, shown, cursor, pass, known, queue>>
  BY Zenon DEF PlanWalk, blocks, disk
<1>3. \/ Pin("lang", {host}) /\ tasks' = [tasks EXCEPT ![i] = walk]
      \/ /\ \E n \in 1 .. Pages : tasks' = [tasks EXCEPT ![i] = go(n)]
         /\ UNCHANGED <<stores, faults>>
      \/ Fault /\ UNCHANGED stores /\ tasks' = [tasks EXCEPT ![i] = fail]
  BY Zenon DEF PlanWalk
<1>4. known' \subseteq Site /\ queue' \subseteq Businesses /\ faults \in 0 .. MaxFaults
  BY <1>2 DEF IInv, PassTyped
<1>5. ASSUME NEW t \in TaskRecord, t.cand = tasks[i].cand, t.iso = tasks[i].iso,
             t.at = "page" => t.left \in 1 .. Pages, tasks' = [tasks EXCEPT ![i] = t],
             StoresTyped', faults' \in 0 .. MaxFaults
      PROVE  IInv'
  BY <1>2, <1>4, <1>5, TaskStepKeeps
<1>6. /\ walk \in TaskRecord /\ walk.cand = tasks[i].cand /\ walk.iso = tasks[i].iso
      /\ walk.at = "record"
  BY <1>1 DEF TaskRecord
<1>7. /\ fail \in TaskRecord /\ fail.cand = tasks[i].cand /\ fail.iso = tasks[i].iso
      /\ fail.at = "record"
  BY <1>1 DEF TaskRecord
<1>8. ASSUME NEW n \in 1 .. Pages
      PROVE  /\ go(n) \in TaskRecord /\ go(n).cand = tasks[i].cand
             /\ go(n).iso = tasks[i].iso /\ go(n).left = n
  <2>1. n \in 0 .. Pages
    BY Numbers
  <2> QED
    BY <1>1, <2>1 DEF TaskRecord
<1> HIDE DEF walk, fail, go
<1>9. CASE Pin("lang", {host}) /\ tasks' = [tasks EXCEPT ![i] = walk]
  <2> HIDE DEF host
  <2>1. "lang" \in Store /\ {host} \in SUBSET Site /\ StoresTyped
    BY <1>1 DEF Store, IInv
  <2>2. StoresTyped' /\ faults' \in 0 .. MaxFaults
    BY <1>4, <1>9, <2>1, PinTyped
  <2>3. walk.at = "page" => walk.left \in 1 .. Pages
    BY <1>6
  <2> QED
    BY <1>5, <1>6, <1>9, <2>2, <2>3
<1>10. CASE /\ \E n \in 1 .. Pages : tasks' = [tasks EXCEPT ![i] = go(n)]
            /\ UNCHANGED <<stores, faults>>
  <2>1. PICK n \in 1 .. Pages : tasks' = [tasks EXCEPT ![i] = go(n)]
    BY <1>10
  <2>2. StoresTyped' /\ faults' \in 0 .. MaxFaults
    BY <1>4, <1>10 DEF stores, IInv, StoresTyped
  <2> QED
    BY <1>5, <1>8, <2>1, <2>2
<1>11. CASE Fault /\ UNCHANGED stores /\ tasks' = [tasks EXCEPT ![i] = fail]
  <2>1. StoresTyped' /\ faults' \in 0 .. MaxFaults
    BY <1>4, <1>11, FaultTyped DEF stores, IInv, StoresTyped
  <2>2. fail.at = "page" => fail.left \in 1 .. Pages
    BY <1>7
  <2> QED
    BY <1>5, <1>7, <1>11, <2>1, <2>2
<1> QED
  BY <1>3, <1>9, <1>10, <1>11

LEMMA UnchangedPageKeeps ==
    ASSUME IInv, NEW i \in DOMAIN tasks, UnchangedPage(i) \/ PageLost(i)
    PROVE  IInv'
<1>1. tasks[i].at = "page" /\ (Fault \/ NoFault) /\ tasks' = Turned(i)
  BY Zenon DEF UnchangedPage, PageLost, NoFault
<1>2. PICK u \in TaskRecord :
        /\ Turned(i) = [tasks EXCEPT ![i] = u]
        /\ u.cand = tasks[i].cand /\ u.iso = tasks[i].iso
        /\ u.at = "page" => u.left \in 1 .. Pages
  BY <1>1, TurnedTyped DEF IInv
<1>3. /\ UNCHANGED <<registry, saved, learned, approved, shown, cursor, pass>>
      /\ UNCHANGED <<pins, pinsSaved, known, queue>>
  BY Zenon DEF UnchangedPage, PageLost, blocks, stores, disk
<1>4. /\ StoresTyped' /\ known' \subseteq Site /\ queue' \subseteq Businesses
      /\ faults' \in 0 .. MaxFaults
  BY <1>1, <1>3, FaultTyped DEF IInv, StoresTyped, PassTyped
<1> QED
  BY <1>1, <1>2, <1>3, <1>4, TaskStepKeeps

LEMMA PageFailsKeeps ==
    ASSUME IInv, NEW i \in DOMAIN tasks, NEW kind, PageFails(i, kind)
    PROVE  IInv'
<1>1. tasks[i].at = "page" /\ Fault
  BY DEF PageFails
<1>2. PICK offer \in BOOLEAN : tasks' = [Turned(i) EXCEPT ![i] =
        [@ EXCEPT !.err = TRUE, !.got = tasks[i].got \/ offer]]
  BY Zenon DEF PageFails
<1>3. PICK u \in TaskRecord :
        /\ Turned(i) = [tasks EXCEPT ![i] = u]
        /\ u.cand = tasks[i].cand /\ u.iso = tasks[i].iso
        /\ u.at = "page" => u.left \in 1 .. Pages
  BY <1>1, TurnedTyped DEF IInv
<1> DEFINE got == tasks[i].got \/ offer
           t == [u EXCEPT !.err = TRUE, !.got = got]
<1>4. got \in BOOLEAN
  OBVIOUS
<1> HIDE DEF got
<1>5. t \in TaskRecord /\ t.cand = u.cand /\ t.iso = u.iso /\ t.at = u.at /\ t.left = u.left
  BY <1>4 DEF TaskRecord
<1>6. tasks' = [tasks EXCEPT ![i] = t]
  <2>1. tasks \in Seq(TaskRecord)
    BY DEF IInv, TasksTyped
  <2>2. Turned(i)[i] = u
    BY <1>3, <2>1
  <2>3. tasks' = [Turned(i) EXCEPT ![i] = t]
    BY <1>2, <2>2, Zenon DEF got
  <2> HIDE DEF t
  <2> QED
    BY <1>3, <2>1, <2>3
<1>7. /\ UNCHANGED <<registry, saved, learned, approved, shown, cursor, pass>>
      /\ UNCHANGED <<pins, pinsSaved, known, queue>>
  BY Zenon DEF PageFails, blocks, stores, disk
<1>8. /\ StoresTyped' /\ known' \subseteq Site /\ queue' \subseteq Businesses
      /\ faults' \in 0 .. MaxFaults
  BY <1>1, <1>7, FaultTyped DEF IInv, StoresTyped, PassTyped
<1> HIDE DEF t
<1> QED
  BY <1>3, <1>5, <1>6, <1>7, <1>8, TaskStepKeeps

LEMMA ForeignPageKeeps ==
    ASSUME IInv, NEW i \in DOMAIN tasks, ForeignPage(i)
    PROVE  IInv'
<1>1. tasks[i] \in TaskRecord /\ HostOf(tasks[i].cand) \in Site
  BY TaskTyped DEF IInv
<1> DEFINE t == [tasks[i] EXCEPT !.at = "record", !.left = 0]
<1>2. t \in TaskRecord /\ t.cand = tasks[i].cand /\ t.iso = tasks[i].iso /\ t.at = "record"
  <2>1. 0 \in 0 .. Pages
    BY Numbers
  <2> QED
    BY <1>1, <2>1 DEF TaskRecord
<1>3. tasks' = [tasks EXCEPT ![i] = t]
  BY DEF ForeignPage, Abandon
<1>4. UNCHANGED <<registry, saved, learned, approved, shown, cursor, pass, known, queue>>
  BY DEF ForeignPage, blocks, disk
<1>5. Pin("lang", {HostOf(tasks[i].cand)}) /\ faults \in 0 .. MaxFaults /\ StoresTyped
  BY DEF ForeignPage, IInv, PassTyped
<1>6. "lang" \in Store /\ {HostOf(tasks[i].cand)} \in SUBSET Site
  BY <1>1 DEF Store
<1>7. StoresTyped' /\ faults' \in 0 .. MaxFaults
  BY <1>5, <1>6, PinTyped
<1>8. known' \subseteq Site /\ queue' \subseteq Businesses
  BY <1>4 DEF IInv, PassTyped
<1> HIDE DEF t
<1>9. t.at = "page" => t.left \in 1 .. Pages
  BY <1>2
<1> QED
  BY <1>2, <1>3, <1>4, <1>7, <1>8, <1>9, TaskStepKeeps

LEMMA ProcessPageKeeps ==
    ASSUME IInv, NEW i \in DOMAIN tasks, NEW kind, ProcessPage(i, kind)
    PROVE  IInv'
<1> DEFINE host == HostOf(tasks[i].cand)
<1>1. tasks[i].at = "page" /\ host \in Site
  BY TaskTyped DEF IInv, ProcessPage
<1>2. PICK u \in TaskRecord :
        /\ Turned(i) = [tasks EXCEPT ![i] = u]
        /\ u.cand = tasks[i].cand /\ u.iso = tasks[i].iso
        /\ u.at = "page" => u.left \in 1 .. Pages
  BY <1>1, TurnedTyped DEF IInv
<1>3. PICK offer \in Yields(host, kind) :
        /\ tasks' = [Turned(i) EXCEPT ![i] =
             [@ EXCEPT !.got = tasks[i].got \/ offer,
                       !.business = tasks[i].business \/ kind \in {"business", "brochure"}]]
        /\ known' = IF offer THEN known \cup {Credits[host]} ELSE known
  BY Zenon DEF ProcessPage
<1>4. offer \in BOOLEAN
  BY DEF Yields
<1> DEFINE got == tasks[i].got \/ offer
           business == tasks[i].business \/ kind \in {"business", "brochure"}
           t == [u EXCEPT !.got = got, !.business = business]
<1>5. got \in BOOLEAN /\ business \in BOOLEAN
  OBVIOUS
<1> HIDE DEF got, business
<1>6. tasks' = [tasks EXCEPT ![i] = t]
  <2>1. tasks \in Seq(TaskRecord)
    BY DEF IInv, TasksTyped
  <2>2. Turned(i)[i] = u
    BY <1>2, <2>1
  <2>3. tasks' = [Turned(i) EXCEPT ![i] = t]
    BY <1>3, <2>2, Zenon DEF got, business
  <2> HIDE DEF t
  <2> QED
    BY <1>2, <2>1, <2>3
<1>7. t \in TaskRecord /\ t.cand = u.cand /\ t.iso = u.iso /\ t.at = u.at /\ t.left = u.left
  BY <1>5 DEF TaskRecord
<1>8. /\ UNCHANGED <<registry, saved, learned, approved, shown, cursor, pass>>
      /\ UNCHANGED <<pins, pinsSaved, faults>>
      /\ queue' = queue \/ queue' = queue \cup Businesses
  BY Zenon DEF ProcessPage, blocks, stores, disk
<1>9. known' \subseteq Site
  BY <1>1, <1>3, HarvestAssumption DEF IInv, PassTyped
<1>10. /\ StoresTyped' /\ queue' \subseteq Businesses /\ faults' \in 0 .. MaxFaults
  BY <1>8 DEF IInv, StoresTyped, PassTyped
<1> HIDE DEF t, host
<1> QED
  BY <1>2, <1>6, <1>7, <1>8, <1>9, <1>10, TaskStepKeeps

\* A step of a task that may rate and block its host.
LEMMA HostStepKeeps ==
    ASSUME IInv, NEW i \in DOMAIN tasks, NEW t \in TaskRecord,
           t.cand = tasks[i].cand, t.iso = tasks[i].iso, t.at # "page",
           tasks' = [tasks EXCEPT ![i] = t],
           UNCHANGED <<saved, pins, pinsSaved, cursor, known, queue, pass>>,
           registry' \in [Site -> Entry], learned' \subseteq Site, approved' \subseteq Site,
           shown' \subseteq Site, \A h \in shown' : registry'[h].provider,
           faults' \in 0 .. MaxFaults
    PROVE  IInv'
<1>1. TasksTyped' /\ OnePerHost'
  BY TaskStep DEF IInv
<1>2. HostsTyped' /\ Remembered'
  BY DEF IInv, HostsTyped, Remembered
<1>3. PassTyped' /\ StoresTyped'
  BY DEF IInv, PassTyped, StoresTyped
<1> QED
  BY <1>1, <1>2, <1>3 DEF IInv

LEMMA EditorialPageKeeps ==
    ASSUME IInv, NEW i \in DOMAIN tasks, NEW kind, EditorialPage(i, kind)
    PROVE  IInv'
<1> DEFINE host == HostOf(tasks[i].cand)
           t == [tasks[i] EXCEPT !.at = "record", !.left = 0]
<1>1. tasks[i] \in TaskRecord /\ host \in Site
  BY TaskTyped DEF IInv
<1>2. t \in TaskRecord /\ t.cand = tasks[i].cand /\ t.iso = tasks[i].iso /\ t.at = "record"
  <2>1. 0 \in 0 .. Pages
    BY Numbers
  <2> QED
    BY <1>1, <2>1 DEF TaskRecord
<1>3. tasks' = [tasks EXCEPT ![i] = t]
  BY DEF EditorialPage, Abandon
<1>4. /\ UNCHANGED <<saved, pins, pinsSaved, cursor, known, queue, pass>> /\ shown' = shown
      /\ \/ Block(host, registry)
         \/ UNCHANGED <<registry, learned, approved, faults>>
  BY Zenon DEF EditorialPage, stores, disk, blocks
<1> HIDE DEF host, t
<1>5. /\ registry \in [Site -> Entry] /\ learned \subseteq Site /\ approved \subseteq Site
      /\ shown \subseteq Site /\ \A h \in shown : registry[h].provider
      /\ faults \in 0 .. MaxFaults
  BY DEF IInv, HostsTyped, PassTyped, Remembered
<1>6. /\ registry' \in [Site -> Entry] /\ learned' \subseteq Site /\ approved' \subseteq Site
      /\ \A h \in Site : registry'[h].provider = registry[h].provider
      /\ faults' \in 0 .. MaxFaults
  <2>1. CASE Block(host, registry)
    BY <1>1, <1>5, <2>1, BlockTyped
  <2>2. CASE UNCHANGED <<registry, learned, approved, faults>>
    BY <1>5, <2>2
  <2> QED
    BY <1>4, <2>1, <2>2
<1>7. \A h \in shown' : registry'[h].provider
  BY <1>4, <1>5, <1>6
<1> QED
  BY <1>2, <1>3, <1>4, <1>5, <1>6, <1>7, HostStepKeeps

LEMMA FinishKeeps ==
    ASSUME IInv, NEW i \in DOMAIN tasks, Finish(i)
    PROVE  IInv'
<1> DEFINE host == HostOf(tasks[i].cand)
           t == Returned(tasks[i])
<1>1. tasks[i] \in TaskRecord /\ host \in Site
  BY TaskTyped DEF IInv
<1>2. t \in TaskRecord /\ t.cand = tasks[i].cand /\ t.iso = tasks[i].iso /\ t.at = "done"
  <2>1. tasks[i].cand \in Candidates /\ tasks[i].iso \in BOOLEAN /\ 0 \in 0 .. Pages
    BY <1>1, Numbers DEF TaskRecord
  <2>2. PICK new : new = NewTask(tasks[i].cand, tasks[i].iso)
    OBVIOUS
  <2>3. new \in TaskRecord /\ new.cand = tasks[i].cand /\ new.iso = tasks[i].iso
    BY <2>1, <2>2 DEF NewTask, TaskRecord
  <2>4. t = [new EXCEPT !.at = "done"]
    BY <2>2 DEF Returned
  <2> HIDE DEF t
  <2> QED
    BY <2>3, <2>4 DEF TaskRecord
<1>3. tasks' = [tasks EXCEPT ![i] = t]
  BY DEF Finish
<1>4. /\ UNCHANGED <<saved, pins, pinsSaved, cursor, known, queue, pass>>
      /\ \/ UNCHANGED <<registry, learned, approved, shown, faults>>
         \/ /\ shown' = IF tasks[i].business THEN shown \cup {host} ELSE shown
            /\ \E e \in Record(registry[host], tasks[i].got, tasks[i].err, tasks[i].business) :
                  \/ Block(host, [registry EXCEPT ![host] = e])
                  \/ /\ registry' = [registry EXCEPT ![host] = e]
                     /\ UNCHANGED <<learned, approved, faults>>
  BY Zenon DEF Finish, stores, disk, blocks
<1>5. /\ registry \in [Site -> Entry] /\ learned \subseteq Site /\ approved \subseteq Site
      /\ shown \subseteq Site /\ \A h \in shown : registry[h].provider
      /\ faults \in 0 .. MaxFaults
  BY DEF IInv, HostsTyped, PassTyped, Remembered
<1>6. CASE UNCHANGED <<registry, learned, approved, shown, faults>>
  <2> HIDE DEF host, t
  <2> QED
    BY <1>2, <1>3, <1>4, <1>5, <1>6, HostStepKeeps
<1>7. CASE /\ shown' = IF tasks[i].business THEN shown \cup {host} ELSE shown
           /\ \E e \in Record(registry[host], tasks[i].got, tasks[i].err, tasks[i].business) :
                 \/ Block(host, [registry EXCEPT ![host] = e])
                 \/ /\ registry' = [registry EXCEPT ![host] = e]
                    /\ UNCHANGED <<learned, approved, faults>>
  <2>1. PICK e \in Record(registry[host], tasks[i].got, tasks[i].err, tasks[i].business) :
          \/ Block(host, [registry EXCEPT ![host] = e])
          \/ /\ registry' = [registry EXCEPT ![host] = e]
             /\ UNCHANGED <<learned, approved, faults>>
    BY <1>7
  <2>2. e \in Entry /\ e.provider = (registry[host].provider \/ tasks[i].business)
    <3>1. registry[host] \in Entry
      BY <1>1, <1>5
    <3>2. tasks[i].got \in BOOLEAN /\ tasks[i].err \in BOOLEAN /\ tasks[i].business \in BOOLEAN
      BY <1>1, TaskTyped DEF IInv
    <3> HIDE DEF host
    <3> QED
      BY <2>1, <3>1, <3>2, RecordTyped
  <2> DEFINE reg == [registry EXCEPT ![host] = e]
  <2> HIDE DEF host
  <2>3. reg \in [Site -> Entry] /\ reg[host] = e /\ \A h \in Site : h # host => reg[h] = registry[h]
    BY <1>1, <1>5, <2>2
  <2>4. \/ Block(host, reg)
        \/ registry' = reg /\ UNCHANGED <<learned, approved, faults>>
    BY <2>1
  <2> HIDE DEF reg
  <2>5. /\ registry' \in [Site -> Entry] /\ learned' \subseteq Site /\ approved' \subseteq Site
        /\ \A h \in Site : registry'[h].provider = reg[h].provider
        /\ faults' \in 0 .. MaxFaults
    <3>1. CASE Block(host, reg)
      BY <1>1, <1>5, <2>3, <3>1, BlockTyped
    <3>2. CASE registry' = reg /\ UNCHANGED <<learned, approved, faults>>
      BY <1>5, <2>3, <3>2
    <3> QED
      BY <2>4, <3>1, <3>2
  <2>6. shown' \subseteq Site
    BY <1>1, <1>5, <1>7 DEF host
  <2>7. ASSUME NEW h \in shown' PROVE registry'[h].provider
    <3>1. h \in Site /\ registry'[h].provider = reg[h].provider
      BY <2>5, <2>6
    <3>2. h \in shown \/ (h = host /\ tasks[i].business)
      BY <1>7 DEF host
    <3>3. CASE h = host
      <4>1. registry[host].provider \/ tasks[i].business
        BY <1>5, <3>2, <3>3
      <4> QED
        BY <2>2, <2>3, <3>1, <3>3, <4>1
    <3>4. CASE h # host
      BY <1>5, <2>3, <3>1, <3>2, <3>4
    <3> QED
      BY <3>3, <3>4
  <2> HIDE DEF t
  <2> QED
    BY <1>2, <1>3, <1>4, <2>5, <2>6, <2>7, HostStepKeeps
<1> QED
  BY <1>4, <1>6, <1>7

----------------------------------------------------------------------------
(* The start and the end of a pass.                                        *)

LEMMA TopTyped ==
    ASSUME NEW reg, NEW top \in TopLists(reg)
    PROVE  top \in Seq(Candidates)
<1> DEFINE dropped == {c \in Candidates : Blocked(HostOf(c))}
<1>1. PICK hs \in SetToSeqs(TopHosts(reg)) :
        top = Without([i \in 1 .. Least(TopN, Len(hs)) |-> Root(hs[i])], dropped)
  BY DEF TopLists
<1> HIDE DEF dropped
<1>2. TopHosts(reg) \subseteq Site
  BY DEF TopHosts
<1>3. Cardinality(TopHosts(reg)) \in Nat
  BY <1>2, SitesAssumption, FS_Subset, FS_CardinalityType
<1> DEFINE m == Cardinality(TopHosts(reg))
<1>4. hs \in [1 .. m -> TopHosts(reg)]
  BY DEF SetToSeqs
<1> HIDE DEF m
<1>5. Len(hs) = m /\ m \in Nat
  BY <1>3, <1>4 DEF m
<1> DEFINE k == Least(TopN, Len(hs))
           list == [i \in 1 .. k |-> Root(hs[i])]
<1>6. k \in Nat /\ k <= m
  BY <1>5, Numbers DEF Least
<1>7. \A i \in 1 .. k : Root(hs[i]) \in Candidates
  <2> HIDE DEF k
  <2> QED
    BY <1>2, <1>4, <1>5, <1>6, SitesAssumption
<1>8. list \in Seq(Candidates)
  <2> HIDE DEF k
  <2> QED
    BY <1>6, <1>7
<1> HIDE DEF list, k
<1>9. top = Without(list, dropped)
  BY <1>1 DEF list, k
<1> QED
  BY <1>8, <1>9, WithoutTyped

LEMMA WindowTyped ==
    ASSUME cursor \in 0 .. Len(Rotation) - 1
    PROVE  NextCursor \in 0 .. Len(Rotation) - 1 /\ FeedList \in Seq(Candidates)
<1> DEFINE n == Len(Rotation)
<1>1. Rotation \in Seq(Candidates) /\ n \in Nat \ {0} /\ \A i \in 1 .. n : Rotation[i] \in Candidates
  BY HarvestAssumption
<1>2. cursor \in Nat /\ cursor \in Int
  BY <1>1
<1> HIDE DEF n
<1>3. Window \in Nat
  BY <1>1, Numbers DEF Window, Least, n
<1>4. \A x \in Nat : x % n \in 0 .. n - 1 /\ (x % n) + 1 \in 1 .. n
  BY <1>1
<1>5. NextCursor \in 0 .. n - 1
  <2>1. cursor + Window \in Nat
    BY <1>2, <1>3
  <2>2. NextCursor = (cursor + Window) % n
    BY DEF NextCursor, n
  <2> QED
    BY <1>4, <2>1, <2>2
<1> DEFINE list == [i \in 1 .. Window |-> Rotation[((cursor + i - 1) % Len(Rotation)) + 1]]
           dropped == {c \in Candidates : c.ref \in sources}
<1>6. list \in Seq(Candidates)
  <2>1. ASSUME NEW i \in 1 .. Window
        PROVE  Rotation[((cursor + i - 1) % n) + 1] \in Candidates
    <3>1. PICK x \in Nat : x = cursor + i - 1
      BY <1>2, <1>3
    <3>2. Rotation[(x % n) + 1] \in Candidates
      BY <1>1, <1>4
    <3> QED
      BY <3>1, <3>2
  <2> QED
    BY <1>3, <2>1 DEF n
<1>7. FeedList = Without(list, dropped)
  BY DEF FeedList
<1> HIDE DEF list, dropped
<1> QED
  BY <1>5, <1>6, <1>7, WithoutTyped DEF n

\* The tasks of a selection: they are new, and walk one host each unless they
\* are lookups.
LEMMA SelectedTyped ==
    ASSUME NEW iso \in BOOLEAN, NEW picked \in Seq(Candidates), Len(picked) <= Budget,
           ~iso => OneOfEach(picked),
           tasks' = [i \in DOMAIN picked |-> NewTask(picked[i], iso)]
    PROVE  TasksTyped' /\ OnePerHost'
<1> DEFINE m == Len(picked)
           new == [i \in 1 .. m |-> NewTask(picked[i], iso)]
<1>1. m \in Nat /\ DOMAIN picked = 1 .. m /\ \A i \in 1 .. m : picked[i] \in Candidates
  OBVIOUS
<1>2. 0 \in 0 .. Pages
  BY Numbers
<1>3. \A c \in Candidates : NewTask(c, iso) \in TaskRecord
  BY <1>2 DEF NewTask, TaskRecord
<1>4. \A i \in 1 .. m : NewTask(picked[i], iso) \in TaskRecord
  BY <1>1, <1>3
<1> HIDE DEF m
<1>5. new \in Seq(TaskRecord) /\ Len(new) = m /\ DOMAIN new = 1 .. m
  BY <1>1, <1>4
<1>6. \A i \in 1 .. m : /\ new[i].cand = picked[i] /\ new[i].iso = iso
                        /\ new[i].at = "queued"
  BY DEF NewTask
<1>7. tasks' = new
  BY <1>1
<1> HIDE DEF new
<1>8. TasksTyped'
  BY <1>5, <1>6, <1>7 DEF TasksTyped, m
<1>9. ASSUME NEW i \in 1 .. m, NEW j \in 1 .. m, i # j, ~iso
      PROVE  HostOf(picked[i]) # HostOf(picked[j])
  BY <1>1, <1>9 DEF OneOfEach
<1>10. OnePerHost'
  BY <1>5, <1>6, <1>7, <1>9 DEF OnePerHost
<1> QED
  BY <1>8, <1>10

LEMMA StartPassKeeps ==
    ASSUME IInv, StartPass
    PROVE  IInv'
<1>1. PICK rejected \in SUBSET {h \in Moderated : registry[h].rated} :
        \E top \in TopLists(Downranked(Older(registry), rejected)),
           found \in Searches, answers \in SiteAnswers :
          LET cands == RoundRobin(top, found, FeedList) \o answers
              picks == Selection(FALSE, cands, Downranked(Older(registry), rejected))
          IN  /\ registry' = picks.reg
              /\ Pin("geo", picks.pinned)
              /\ tasks' = [i \in DOMAIN picks.picked |-> NewTask(picks.picked[i], FALSE)]
  BY Zenon DEF StartPass
<1> DEFINE reg == Downranked(Older(registry), rejected)
<1>2. PICK top \in TopLists(reg), found \in Searches, answers \in SiteAnswers :
          LET cands == RoundRobin(top, found, FeedList) \o answers
              picks == Selection(FALSE, cands, reg)
          IN  /\ registry' = picks.reg
              /\ Pin("geo", picks.pinned)
              /\ tasks' = [i \in DOMAIN picks.picked |-> NewTask(picks.picked[i], FALSE)]
  BY <1>1, Zenon
<1> DEFINE cands == RoundRobin(top, found, FeedList) \o answers
           picks == Selection(FALSE, cands, reg)
<1>3. /\ registry' = picks.reg
      /\ Pin("geo", picks.pinned)
      /\ tasks' = [i \in DOMAIN picks.picked |-> NewTask(picks.picked[i], FALSE)]
  BY <1>2, Zenon
<1>4. /\ saved' = Older(saved) /\ cursor' = NextCursor /\ pass' = TRUE
      /\ UNCHANGED <<learned, approved, known, queue, shown>>
  BY Zenon DEF StartPass, blocks
<1>5. /\ registry \in [Site -> Entry] /\ saved \in [Site -> Entry] /\ StoresTyped
      /\ shown \subseteq Site /\ \A h \in shown : registry[h].provider
      /\ faults \in 0 .. MaxFaults
  BY DEF IInv, HostsTyped, PassTyped, Remembered
<1>6. cursor' \in 0 .. Len(Rotation) - 1 /\ FeedList \in Seq(Candidates)
  BY <1>4, WindowTyped DEF IInv, PassTyped
<1>7. /\ saved' \in [Site -> Entry] /\ reg \in [Site -> Entry]
      /\ \A h \in Site : reg[h].provider = registry[h].provider
  <2>1. /\ Older(saved) \in [Site -> Entry] /\ Older(registry) \in [Site -> Entry]
        /\ \A h \in Site : Older(registry)[h].provider = registry[h].provider
    BY <1>5, OlderTyped
  <2>2. PICK old : old = Older(registry)
    OBVIOUS
  <2>3. old \in [Site -> Entry]
    BY <2>1, <2>2, Zenon
  <2>4. /\ Downranked(old, rejected) \in [Site -> Entry]
        /\ \A h \in Site : Downranked(old, rejected)[h].provider = old[h].provider
    BY <2>3, OlderTyped
  <2>5. reg = Downranked(old, rejected)
    BY <2>2
  <2> HIDE DEF reg
  <2> QED
    BY <1>4, <2>1, <2>2, <2>4, <2>5
<1>8. cands \in Seq(Candidates)
  <2>1. top \in Seq(Candidates) /\ found \in Seq(Candidates) /\ answers \in Seq(Candidates)
    BY <1>2, TopTyped, HarvestAssumption
  <2>2. RoundRobin(top, found, FeedList) \in Seq(Candidates)
    BY <1>6, <2>1, RoundRobinTyped
  <2> QED
    BY <2>1, <2>2
<1> HIDE DEF reg, cands
<1>9. picks \in Scanned(FALSE, reg)
  BY <1>7, <1>8, SelectionKeeps
<1> HIDE DEF picks
<1>10. /\ picks.reg \in [Site -> Entry] /\ picks.pinned \in SUBSET Site
       /\ picks.picked \in Seq(Candidates)
       /\ \A h \in Site : picks.reg[h].provider = reg[h].provider
       /\ Len(picks.picked) <= Budget /\ OneOfEach(picks.picked)
  BY <1>9 DEF Scanned
<1>11. TasksTyped' /\ OnePerHost'
  BY <1>3, <1>10, SelectedTyped
<1>12. StoresTyped' /\ faults' \in 0 .. MaxFaults
  <2>1. "geo" \in Store
    BY DEF Store
  <2> QED
    BY <1>3, <1>5, <1>10, <2>1, PinTyped
<1>13. HostsTyped'
  BY <1>3, <1>4, <1>7, <1>10 DEF IInv, HostsTyped
<1>14. Remembered'
  BY <1>3, <1>4, <1>5, <1>7, <1>10 DEF Remembered
<1>15. PassTyped'
  BY <1>4, <1>6, <1>12 DEF IInv, PassTyped
<1> QED
  BY <1>11, <1>12, <1>13, <1>14, <1>15 DEF IInv

LEMMA StartFailsKeeps ==
    ASSUME IInv, StartFails
    PROVE  IInv'
<1>1. /\ Fault /\ registry' = Older(registry) /\ saved' = Older(saved) /\ pass' = TRUE
      /\ cursor' \in {cursor, NextCursor}
      /\ UNCHANGED <<learned, approved, pins, pinsSaved, tasks, known, queue, shown>>
  BY Zenon DEF StartFails, blocks, stores
<1>2. /\ registry \in [Site -> Entry] /\ saved \in [Site -> Entry]
      /\ faults \in 0 .. MaxFaults /\ cursor \in 0 .. Len(Rotation) - 1
  BY DEF IInv, HostsTyped, PassTyped
<1>3. /\ registry' \in [Site -> Entry] /\ saved' \in [Site -> Entry]
      /\ \A h \in Site : registry'[h].provider = registry[h].provider
  BY <1>1, <1>2, OlderTyped
<1>4. cursor' \in 0 .. Len(Rotation) - 1
  BY <1>1, <1>2, WindowTyped
<1>5. faults' \in 0 .. MaxFaults
  BY <1>1, <1>2, FaultTyped
<1>6. HostsTyped' /\ Remembered'
  BY <1>1, <1>3 DEF IInv, HostsTyped, Remembered
<1>7. PassTyped' /\ StoresTyped'
  BY <1>1, <1>4, <1>5 DEF IInv, PassTyped, StoresTyped
<1>8. TasksTyped' /\ OnePerHost'
  BY <1>1 DEF IInv, TasksTyped, OnePerHost
<1> QED
  BY <1>6, <1>7, <1>8 DEF IInv

LEMMA SubSearchKeeps ==
    ASSUME IInv, NEW h \in Site, SubSearch(h)
    PROVE  IInv'
<1> DEFINE cands == IF Hopeless(h) THEN <<>> ELSE <<Root(h)>>
           picks == Selection(TRUE, cands, registry)
<1>1. /\ tasks' = [i \in DOMAIN picks.picked |-> NewTask(picks.picked[i], TRUE)]
      /\ queue' = queue \ {h}
      /\ UNCHANGED <<registry, saved, learned, approved, pins, pinsSaved, cursor, known, pass,
                     shown, faults>>
  BY Zenon DEF SubSearch, blocks, stores, disk
<1>2. cands \in Seq(Candidates) /\ registry \in [Site -> Entry]
  BY SitesAssumption DEF IInv, HostsTyped
<1> HIDE DEF cands
<1>3. picks \in Scanned(TRUE, registry)
  BY <1>2, SelectionKeeps
<1> HIDE DEF picks
<1>4. picks.picked \in Seq(Candidates) /\ Len(picks.picked) <= Budget
  BY <1>3 DEF Scanned
<1>5. TasksTyped' /\ OnePerHost'
  BY <1>1, <1>4, SelectedTyped
<1>6. HostsTyped' /\ Remembered' /\ StoresTyped' /\ PassTyped'
  BY <1>1 DEF IInv, HostsTyped, Remembered, StoresTyped, PassTyped
<1> QED
  BY <1>5, <1>6 DEF IInv

\* No tasks are of one type, and walk one host each.
LEMMA NoTasks ==
    ASSUME tasks' = <<>>
    PROVE  TasksTyped' /\ OnePerHost'
<1>1. <<>> \in Seq(TaskRecord) /\ Len(<<>>) = 0 /\ DOMAIN <<>> = {} /\ Budget \in Nat
  BY Numbers
<1> QED
  BY <1>1 DEF TasksTyped, OnePerHost

LEMMA EndPassKeeps ==
    ASSUME IInv, EndPass
    PROVE  IInv'
<1>1. /\ tasks' = <<>> /\ known' = {} /\ queue' = {} /\ pass' = FALSE
      /\ UNCHANGED <<learned, approved, pins, pinsSaved, cursor>>
  BY Zenon DEF EndPass, blocks, stores
<1>2. PICK gone \in SUBSET Evictable(registry) :
        /\ registry' = [h \in Site |-> IF h \in gone THEN Unknown ELSE registry[h]]
        /\ shown' = shown \ gone
  BY DEF EndPass
<1>3. /\ registry \in [Site -> Entry] /\ saved \in [Site -> Entry] /\ shown \subseteq Site
      /\ \A h \in shown : registry[h].provider
      /\ faults \in 0 .. MaxFaults
  BY DEF IInv, HostsTyped, PassTyped, Remembered
<1>4. registry' \in [Site -> Entry] /\ \A h \in Site : h \notin gone => registry'[h] = registry[h]
  BY <1>2, <1>3, UnknownTyped
<1>5. saved' \in [Site -> Entry] /\ faults' \in 0 .. MaxFaults
  <2>1. (saved' = registry' \/ saved' = saved) /\ (Fault \/ NoFault)
    BY Zenon DEF EndPass
  <2> QED
    BY <1>3, <1>4, <2>1, FaultTyped
<1>6. HostsTyped' /\ Remembered'
  BY <1>1, <1>2, <1>3, <1>4, <1>5 DEF IInv, HostsTyped, Remembered
<1>7. PassTyped' /\ StoresTyped'
  BY <1>1, <1>5 DEF IInv, PassTyped, StoresTyped
<1> QED
  BY <1>1, <1>6, <1>7, NoTasks DEF IInv

\* What the registry on disk does not show of a host is forgotten with the
\* process: the history goes by what a new one reads.
LEMMA RestartKeeps ==
    ASSUME IInv, Restart
    PROVE  IInv'
<1>1. /\ Fault \/ NoFault
      /\ pass' = FALSE /\ tasks' = <<>> /\ known' = {} /\ queue' = {}
      /\ registry' = saved /\ pins' = pinsSaved
      /\ shown' = {h \in Site : saved[h].provider}
      /\ UNCHANGED <<pinsSaved, saved, cursor>>
  BY Zenon DEF Restart, disk
<1>2. PICK h \in Moderated : approved' \in {approved, approved \cup {h}, approved \ {h}}
  BY DEF Restart
<1>3. learned' \in {approved', {}}
  BY DEF Restart
<1>4. approved' \subseteq Site /\ learned' \subseteq Site
  BY <1>2, <1>3, HarvestAssumption DEF IInv, HostsTyped
<1>5. HostsTyped' /\ Remembered'
  BY <1>1, <1>4 DEF IInv, HostsTyped, Remembered
<1>6. faults' \in 0 .. MaxFaults
  BY <1>1, FaultTyped DEF IInv, PassTyped
<1>7. PassTyped' /\ StoresTyped'
  BY <1>1, <1>6 DEF IInv, PassTyped, StoresTyped
<1> QED
  BY <1>1, <1>5, <1>7, NoTasks DEF IInv

----------------------------------------------------------------------------
(* The theorems.                                                           *)

LEMMA InitIInv == Init => IInv
<1> SUFFICES ASSUME Init PROVE IInv
  OBVIOUS
<1>1. TasksTyped /\ OnePerHost
  <2>1. <<>> \in Seq(TaskRecord) /\ Len(<<>>) = 0 /\ DOMAIN <<>> = {} /\ Budget \in Nat
    BY Numbers
  <2> QED
    BY <2>1 DEF TasksTyped, OnePerHost, Init
<1>2. HostsTyped /\ Remembered
  BY UnknownTyped DEF Init, HostsTyped, Remembered
<1>3. StoresTyped
  BY DEF Init, StoresTyped
<1>4. PassTyped
  <2>1. Rotation \in Seq(Candidates) /\ Rotation # <<>>
    BY HarvestAssumption
  <2>2. Len(Rotation) \in Nat \ {0}
    BY <2>1
  <2>3. 0 \in 0 .. Len(Rotation) - 1 /\ 0 \in 0 .. MaxFaults
    BY <2>2, Numbers
  <2> QED
    BY <2>3 DEF Init, PassTyped
<1> QED
  BY <1>1, <1>2, <1>3, <1>4 DEF IInv

LEMMA NextIInv == IInv /\ [Next]_vars => IInv'
<1> SUFFICES ASSUME IInv, [Next]_vars PROVE IInv'
  OBVIOUS
<1>1. CASE StartPass
  BY <1>1, StartPassKeeps
<1>2. CASE StartFails
  BY <1>2, StartFailsKeeps
<1>3. CASE EndPass
  BY <1>3, EndPassKeeps
<1>4. CASE Restart
  BY <1>4, RestartKeeps
<1>5. ASSUME NEW i \in DOMAIN tasks, Task(i) PROVE IInv'
  <2>1. CASE Begin(i)
    BY <2>1, BeginKeeps
  <2>2. CASE PlanWalk(i)
    BY <2>2, PlanWalkKeeps
  <2>3. CASE UnchangedPage(i) \/ PageLost(i)
    BY <2>3, UnchangedPageKeeps
  <2>4. CASE ForeignPage(i)
    BY <2>4, ForeignPageKeeps
  <2>5. CASE Finish(i)
    BY <2>5, FinishKeeps
  <2>6. ASSUME NEW kind \in Kind,
               PageFails(i, kind) \/ EditorialPage(i, kind) \/ ProcessPage(i, kind)
        PROVE  IInv'
    <3>1. CASE EditorialPage(i, kind)
      BY <3>1, EditorialPageKeeps
    <3>2. CASE ProcessPage(i, kind)
      BY <3>2, ProcessPageKeeps
    <3>3. CASE PageFails(i, kind)
      BY <3>3, PageFailsKeeps
    <3> QED
      BY <2>6, <3>1, <3>2, <3>3
  <2> QED
    BY <1>5, <2>1, <2>2, <2>3, <2>4, <2>5, <2>6, Zenon DEF Task
<1>6. ASSUME NEW h \in Site, SubSearch(h) PROVE IInv'
  BY <1>6, SubSearchKeeps
<1>8. ASSUME NEW h \in Moderated, NewSource(h) PROVE IInv'
  <2>1. UNCHANGED <<registry, saved, learned, approved, pins, pinsSaved, cursor, tasks, known,
                    queue, pass, shown, faults>>
    BY <1>8, Zenon DEF NewSource, blocks, stores, disk
  <2> QED
    BY <2>1 DEF IInv, TasksTyped, HostsTyped, StoresTyped, PassTyped, Remembered, OnePerHost
<1>7. CASE UNCHANGED vars
  <2>1. UNCHANGED <<registry, saved, learned, approved, pins, pinsSaved, cursor, tasks, known,
                    queue, pass, shown, faults>>
    BY <1>7, Zenon DEF vars
  <2> QED
    BY <2>1 DEF IInv, TasksTyped, HostsTyped, StoresTyped, PassTyped, Remembered, OnePerHost
<1> QED
  BY <1>1, <1>2, <1>3, <1>4, <1>5, <1>6, <1>7, <1>8, Zenon DEF Next

LEMMA Invariant == Spec => []IInv
  BY InitIInv, NextIInv, PTL DEF Spec

LEMMA WebInvariant == Spec => []WebTyped
<1>1. ASSUME Init PROVE WebTyped
  BY <1>1, HarvestAssumption DEF Init, WebTyped
<1>2. ASSUME WebTyped, [Next]_vars PROVE WebTyped'
  <2>1. ASSUME UNCHANGED <<web, restarts>> PROVE WebTyped'
    BY <1>2, <2>1 DEF WebTyped, web
  <2>2. ASSUME NEW i, validators' \in {validators, Marked(i)}, UNCHANGED <<sources, restarts>>
        PROVE  WebTyped'
    BY <1>2, <2>2 DEF WebTyped, Marked
  <2>3. CASE StartPass \/ StartFails \/ EndPass \/ UNCHANGED vars
    BY <2>1, <2>3, Zenon DEF StartPass, StartFails, EndPass, vars, web
  <2>4. CASE Restart
    <3>1. UNCHANGED web /\ restarts < MaxRestarts /\ restarts' = restarts + 1
      BY <2>4, Zenon DEF Restart
    <3> QED
      BY <1>2, <3>1, HarvestAssumption DEF WebTyped, web
  <2>5. ASSUME NEW i \in DOMAIN tasks, Task(i) PROVE WebTyped'
    <3>1. CASE Begin(i) \/ PlanWalk(i) \/ UnchangedPage(i) \/ Finish(i)
      BY <2>1, <3>1, Zenon DEF Begin, PlanWalk, UnchangedPage, Finish
    <3>2. CASE PageLost(i) \/ ForeignPage(i)
      <4>1. validators' \in {validators, Marked(i)} /\ UNCHANGED <<sources, restarts>>
        BY <3>2 DEF PageLost, ForeignPage
      <4> QED
        BY <2>2, <4>1
    <3>3. ASSUME NEW kind \in Kind,
                 PageFails(i, kind) \/ EditorialPage(i, kind) \/ ProcessPage(i, kind)
          PROVE  WebTyped'
      <4>1. validators' = Marked(i) /\ UNCHANGED <<sources, restarts>>
        BY <3>3, Zenon DEF PageFails, EditorialPage, ProcessPage
      <4> QED
        BY <2>2, <4>1
    <3> QED
      BY <2>5, <3>1, <3>2, <3>3, Zenon DEF Task
  <2>6. ASSUME NEW h \in Site, SubSearch(h) PROVE WebTyped'
    BY <2>1, <2>6, Zenon DEF SubSearch
  <2>7. ASSUME NEW h \in Moderated, NewSource(h) PROVE WebTyped'
    <3>1. sources' = sources \cup {h} /\ UNCHANGED <<validators, restarts>>
      BY <2>7, Zenon DEF NewSource
    <3> QED
      BY <1>2, <3>1, HarvestAssumption DEF WebTyped
  <2> QED
    BY <1>2, <2>3, <2>4, <2>5, <2>6, <2>7, Zenon DEF Next
<1> QED
  BY <1>1, <1>2, PTL DEF Spec

\* Whatever feeds and searches offer, and however the threads of the pool
\* interleave, fail and are restarted over, the registry, the stores on disk,
\* the cursor of the feeds and the tasks keep their types: no more tasks than
\* the budget, no page more than a walk may have, no skip, streak or age out of
\* its range.
THEOREM TypeCorrect == Spec => []TypeOK
<1>1. IInv /\ WebTyped => TypeOK
  BY IInvTypeOK
<1> QED
  BY <1>1, Invariant, WebInvariant, PTL

\* The only steps that block a host in a pass are a portal page's and the end
\* of a walk's, of a task that keeps a registry, for its own host, whose entry
\* says nothing of a business.
LEMMA WhoBlocks ==
    ASSUME IInv, Next, pass', NEW h \in Site, h \in approved' \ approved
    PROVE  \E i \in DOMAIN tasks :
             /\ HostOf(tasks[i].cand) = h /\ ~tasks[i].iso /\ ~tasks[i].business
             /\ ~registry[h].provider
<1> DEFINE Goal(i) == /\ HostOf(tasks[i].cand) = h /\ ~tasks[i].iso /\ ~tasks[i].business
                      /\ ~registry[h].provider
<1>1. approved' # approved
  OBVIOUS
<1>2. ~StartPass /\ ~StartFails
  BY <1>1, Zenon DEF StartPass, StartFails, blocks
<1>3. ~EndPass /\ ~Restart
  BY DEF EndPass, Restart
<1>4. /\ \A x \in Site : ~SubSearch(x)
      /\ \A x \in Moderated : ~NewSource(x)
  BY <1>1, Zenon DEF SubSearch, NewSource, blocks
<1>5. PICK i \in DOMAIN tasks : Task(i)
  BY <1>2, <1>3, <1>4, Zenon DEF Next
<1>6. /\ ~Begin(i) /\ ~PlanWalk(i) /\ ~UnchangedPage(i) /\ ~PageLost(i) /\ ~ForeignPage(i)
      /\ \A kind \in Kind : ~PageFails(i, kind) /\ ~ProcessPage(i, kind)
  BY <1>1, Zenon DEF Begin, PlanWalk, UnchangedPage, PageLost, PageFails, ForeignPage,
                       ProcessPage, blocks
<1> DEFINE host == HostOf(tasks[i].cand)
<1>7. /\ host \in Site /\ tasks[i].got \in BOOLEAN /\ tasks[i].err \in BOOLEAN
      /\ tasks[i].business \in BOOLEAN
  BY TaskTyped DEF IInv
<1>8. registry \in [Site -> Entry]
  BY DEF IInv, HostsTyped
<1>9. ASSUME NEW kind \in Kind, EditorialPage(i, kind) PROVE Goal(i)
  <2>1. /\ Block(host, registry) /\ ~tasks[i].iso /\ ~tasks[i].business
        /\ EditorialBlockDue(registry[host])
    BY <1>1, <1>9, Zenon DEF EditorialPage, blocks
  <2>2. approved' = approved \/ approved' = approved \cup {host}
    BY <2>1 DEF Block
  <2>3. h = host
    BY <2>2
  <2>4. ~registry[host].provider
    BY <2>1 DEF EditorialBlockDue
  <2> QED
    BY <2>1, <2>3, <2>4
<1>10. ASSUME Finish(i) PROVE Goal(i)
  <2>1. /\ ~tasks[i].iso
        /\ \E e \in Record(registry[host], tasks[i].got, tasks[i].err, tasks[i].business) :
              MediaBlockDue(e) /\ Block(host, [registry EXCEPT ![host] = e])
    BY <1>1, <1>10, Zenon DEF Finish, blocks
  <2>2. PICK e \in Record(registry[host], tasks[i].got, tasks[i].err, tasks[i].business) :
              MediaBlockDue(e) /\ Block(host, [registry EXCEPT ![host] = e])
    BY <2>1
  <2>3. approved' = approved \/ approved' = approved \cup {host}
    BY <2>2 DEF Block
  <2>4. h = host
    BY <2>3
  <2>5. e.provider = (registry[host].provider \/ tasks[i].business)
    <3>1. registry[host] \in Entry
      BY <1>7, <1>8
    <3> HIDE DEF host
    <3> QED
      BY <1>7, <2>2, <3>1, RecordTyped
  <2>6. ~registry[host].provider /\ ~tasks[i].business
    BY <2>2, <2>5, Zenon DEF MediaBlockDue
  <2> QED
    BY <2>1, <2>4, <2>6
<1>11. Goal(i)
  BY <1>5, <1>6, <1>9, <1>10, Zenon DEF Task
<1> QED
  BY <1>11

\* In no interleaving of the pool does the crawler block a host on its own that
\* has shown itself a business: not in a walk recorded before, since the
\* registry remembers it for as long as the host is on record, and not in one
\* still going on, since no two tasks of a pass walk the same host.
THEOREM BusinessesStay == Spec => EvidenceShields
<1>1. ASSUME IInv, Next, NEW h \in Site, h \in approved' \ approved, pass'
      PROVE  /\ h \notin shown
             /\ ~\E i \in DOMAIN tasks : HostOf(tasks[i].cand) = h /\ tasks[i].business
  <2>1. PICK i \in DOMAIN tasks :
             /\ HostOf(tasks[i].cand) = h /\ ~tasks[i].iso /\ ~tasks[i].business
             /\ ~registry[h].provider
    BY <1>1, WhoBlocks
  <2>2. h \notin shown
    BY <1>1, <2>1 DEF IInv, Remembered
  <2>3. ASSUME NEW j \in DOMAIN tasks, HostOf(tasks[j].cand) = h PROVE j = i
    BY <1>1, <2>1, <2>3, Zenon DEF IInv, OnePerHost
  <2> QED
    BY <2>1, <2>2, <2>3, Zenon
<1>2. IInv /\ [Next]_vars =>
        [\A h \in Site :
           (h \in approved' \ approved /\ pass') =>
             /\ h \notin shown
             /\ ~\E i \in DOMAIN tasks : HostOf(tasks[i].cand) = h /\ tasks[i].business]_vars
  BY <1>1, Zenon
<1> QED
  BY <1>2, Invariant, PTL DEF Spec, EvidenceShields
============================================================================
