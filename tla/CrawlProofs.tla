---------------------------- MODULE CrawlProofs ----------------------------
(***************************************************************************)
(* The passive pass, proved for any sources, sites, workers and faults:    *)
(* the types; that no offer without a validator expires while its page     *)
(* still carries it (UntaggedNeverExpires); that the page cap costs no     *)
(* site an offer page for the sake of another (FillerNeverDisplacesOffer). *)
(*                                                                         *)
(* That an offer is young is not inductive: the age it may reach depends   *)
(* on the crawls that are still to be skipped, on whether the pass at hand *)
(* has come to it yet, and on what went wrong before.  A fault delays the  *)
(* next confirmation by the passes a lost robots.txt is cached for and by  *)
(* the cooldown of an empty crawl; the invariant weighs the age of every   *)
(* offer, and what is left of such an entry, against the faults so far.    *)
(***************************************************************************)
EXTENDS Crawl, WellFoundedInduction, TLAPS

TaskState == [at : Stages, todo : Seq(Page), got : BOOLEAN]

\* A task reads pages of its own source, and a source in its cooldown has none.
TasksOK ==
    /\ work \in [Sources -> TaskState]
    /\ pass => due
    /\ \A s \in Sources :
          /\ ~pass => work[s].at = "out"
          /\ ToSet(work[s].todo) \subseteq Pages(s)
          /\ work[s].at = "close" => work[s].todo = <<>>
    /\ \A s \in Websites : work[s].at \notin {"out", "queued"} => skipLeft[s] = 0

\* Live offers whose pages still carry them.
Kept(s) == {p \in (Reached(s) \cap offering) \ Tagged : offer[p] = "live"}

\* The delay that n faults account for.
Delay(n) == n * (EmptySkip + RobotsTtl)

\* The pass that the cadence calls for has not dealt with the source yet.
Open(s) == IF due /\ (~pass \/ work[s].at # "out") THEN 1 ELSE 0

\* A crawl that has passed an offer by has confirmed it, or a fault paid for
\* the cooldown it is about to arm.
SiteInTime(s) ==
    \A p \in Kept(s) :
        /\ age[p] + skipLeft[s] <= Delay(faults) + Open(s)
        /\ work[s].at \in {"fetch", "submit", "close"} =>
              \/ p \in ToSet(work[s].todo)
              \/ work[s].got /\ age[p] = 0
              \/ age[p] + EmptySkip <= Delay(faults)

\* A channel is read at every second crawl: when the marker is not current.
ChannelInTime(s) ==
    \A p \in Kept(s) :
        /\ age[p] + (IF p \in validators THEN 1 ELSE 0) <= faults + 1 + Open(s)
        /\ work[s].at = "close" => age[p] = 0 \/ p \in validators

InTime ==
    /\ \A s \in Websites : SiteInTime(s)
    /\ \A s \in Channels \ OnePost : ChannelInTime(s)

\* A lost robots.txt was a fault, which pays for the passes it is cached for: a
\* page that they may miss is read again in time, n faults given, at age a.
Paid(a, e, n) == e.lost => n > 0 /\ a + e.left + EmptySkip <= Delay(n) + 1

RobotsInTime(s) ==
    /\ Paid(0, robots[s], faults)
    /\ \A p \in Kept(s) : Paid(age[p], robots[s], faults)

RobotsPaid == \A s \in Websites : RobotsInTime(s)

IInv == TypeOK /\ TasksOK /\ UntaggedNeverExpires /\ InTime /\ RobotsPaid

-----------------------------------------------------------------------------
(* Loops over a list: what every step keeps, the loop keeps.               *)

\* Induction over the natural numbers, for a set of them.
LEMMA NatInduct ==
    ASSUME NEW S, 0 \in S, \A n \in Nat : n \in S => n + 1 \in S
    PROVE  \A n \in Nat : n \in S
<1> DEFINE T == {n \in Nat : n \notin S}
           R == OpToRel(<, Nat)
<1>1. \A y, x \in Nat : y < x => <<y, x>> \in R
  BY DEF OpToRel
<1>2. IsWellFoundedOn(R, Nat)
  BY NatLessThanWellFounded DEF OpToRel
<1> HIDE DEF R
<1> SUFFICES ASSUME NEW m \in Nat, m \notin S PROVE FALSE
  OBVIOUS
<1>3. T \subseteq Nat /\ T # {}
  OBVIOUS
<1>4. \E x \in T : \A y \in T : ~ (<<y, x>> \in R)
  <2> HIDE DEF T
  <2> QED
    BY <1>2, <1>3, WFMin
<1>5. PICK x \in T : \A y \in T : ~ (<<y, x>> \in R)
  BY <1>4
<1>6. x \in Nat /\ x \notin S /\ x # 0
  OBVIOUS
<1>7. x - 1 \in Nat /\ x - 1 < x
  BY <1>6
<1>8. x - 1 \notin T
  <2> HIDE DEF T
  <2> QED
    BY <1>1, <1>3, <1>5, <1>7
<1> QED
  BY <1>6, <1>7, <1>8

\* The functions that are defined step by step.
Iterations(A, a, N, step) ==
    {f \in [0 .. N -> A] :
        \A n \in 0 .. N : f[n] = IF n = 0 THEN a ELSE step[<<n, f[n - 1]>>]}

LEMMA Iteration ==
    ASSUME NEW A, NEW a \in A, NEW N \in Nat, NEW step \in [(1 .. N) \X A -> A]
    PROVE  Iterations(A, a, N, step) # {}
<1> DEFINE Upto(m, f) == \A n \in 0 .. m : f[n] = IF n = 0 THEN a ELSE step[<<n, f[n - 1]>>]
           Built == {m \in Nat : m <= N => \E f \in [0 .. m -> A] : Upto(m, f)}
<1>1. 0 \in Built
  <2> DEFINE f == [n \in 0 .. 0 |-> a]
  <2>1. f \in [0 .. 0 -> A] /\ Upto(0, f)
    OBVIOUS
  <2> HIDE DEF f, Upto
  <2> QED
    BY <2>1
<1>2. ASSUME NEW m \in Nat, m \in Built PROVE m + 1 \in Built
  <2> SUFFICES ASSUME m + 1 <= N
               PROVE  \E f \in [0 .. m + 1 -> A] : Upto(m + 1, f)
    OBVIOUS
  <2>1. PICK g \in [0 .. m -> A] : Upto(m, g)
    BY <1>2
  <2> DEFINE f == [n \in 0 .. m + 1 |-> IF n = m + 1 THEN step[<<m + 1, g[m]>>] ELSE g[n]]
  <2>2. g[m] \in A /\ step[<<m + 1, g[m]>>] \in A
    <3>1. m \in 0 .. m /\ m + 1 \in 1 .. N
      OBVIOUS
    <3>2. g[m] \in A
      BY <2>1, <3>1
    <3> QED
      BY <3>1, <3>2
  <2>3. f \in [0 .. m + 1 -> A]
    BY <2>1, <2>2
  <2>4. ASSUME NEW n \in 0 .. m + 1
        PROVE  f[n] = IF n = 0 THEN a ELSE step[<<n, f[n - 1]>>]
    <3>1. CASE n = m + 1
      <4>1. n # 0 /\ n - 1 = m /\ f[m] = g[m] /\ f[n] = step[<<m + 1, g[m]>>]
        BY <3>1
      <4> QED
        BY <3>1, <4>1
    <3>2. CASE n # m + 1
      <4>1. n \in 0 .. m /\ (n # 0 => n - 1 \in 0 .. m)
        BY <3>2
      <4>2. f[n] = g[n] /\ (n # 0 => f[n - 1] = g[n - 1])
        BY <4>1
      <4> QED
        BY <4>1, <4>2, <2>1
    <3> QED
      BY <3>1, <3>2
  <2>5. Upto(m + 1, f)
    <3> HIDE DEF f
    <3> QED
      BY <2>4
  <2> HIDE DEF f, Upto
  <2> QED
    BY <2>3, <2>5
<1>3. N \in Built
  <2> HIDE DEF Built
  <2> QED
    BY <1>1, <1>2, NatInduct
<1> QED
  <2> HIDE DEF Upto
  <2>1. \E f \in [0 .. N -> A] : Upto(N, f)
    BY <1>3
  <2> QED
    BY <2>1 DEF Upto, Iterations

\* What holds of the first n steps' outcome for every n holds of the fold.
LEMMA FoldGood ==
    ASSUME NEW A, NEW E, NEW list \in Seq(E), NEW step \in [A \X E -> A],
           NEW Good \in [0 .. Len(list) -> SUBSET A], NEW base \in Good[0],
           \A n \in 1 .. Len(list) : \A a \in Good[n - 1] : step[<<a, list[n]>>] \in Good[n]
    PROVE  Fold(step, base, list) \in Good[Len(list)]
<1> DEFINE N == Len(list)
           next == [x \in (1 .. N) \X A |-> step[<<x[2], list[x[1]]>>]]
           Body(f) == [n \in 0 .. Len(list) |->
                         IF n = 0 THEN base ELSE step[<<f[n - 1], list[n]>>]]
           h == CHOOSE f : f = Body(f)
<1>1. N \in Nat /\ \A n \in 1 .. N : list[n] \in E
  OBVIOUS
<1>2. base \in A
  BY <1>1
<1>3. next \in [(1 .. N) \X A -> A]
  <2> HIDE DEF N
  <2> QED
    BY <1>1
<1> HIDE DEF N
<1>4. PICK g \in [0 .. N -> A] :
        \A n \in 0 .. N : g[n] = IF n = 0 THEN base ELSE next[<<n, g[n - 1]>>]
  <2> HIDE DEF next
  <2>1. Iterations(A, base, N, next) # {}
    BY <1>1, <1>2, <1>3, Iteration
  <2> QED
    BY <2>1 DEF Iterations
<1>5. ASSUME NEW n \in 0 .. N
      PROVE  g[n] = IF n = 0 THEN base ELSE step[<<g[n - 1], list[n]>>]
  <2>1. CASE n = 0
    BY <1>4, <2>1
  <2>2. CASE n # 0
    <3>1. n \in 1 .. N /\ g[n - 1] \in A
      BY <1>1, <1>4, <2>2
    <3>2. next[<<n, g[n - 1]>>] = step[<<g[n - 1], list[n]>>]
      BY <3>1
    <3> HIDE DEF next
    <3> QED
      BY <1>4, <2>2, <3>2
  <2> QED
    BY <2>1, <2>2
<1>6. g = Body(g)
  <2>1. g = [n \in 0 .. N |-> g[n]]
    <3> HIDE DEF next
    <3> QED
      BY <1>4
  <2>2. Body(g) = [n \in 0 .. N |-> IF n = 0 THEN base ELSE step[<<g[n - 1], list[n]>>]]
    BY Zenon DEF N
  <2> HIDE DEF Body
  <2> QED
    BY <1>5, <2>1, <2>2, Zenon
<1>7. h = Body(h)
  <2> HIDE DEF Body
  <2> QED
    BY <1>6, Zenon
<1>8. Fold(step, base, list) = h[N]
  BY Zenon DEF Fold, N
<1>9. \A n \in 0 .. N : h[n] = IF n = 0 THEN base ELSE step[<<h[n - 1], list[n]>>]
  <2>1. Body(h) = [n \in 0 .. N |-> IF n = 0 THEN base ELSE step[<<h[n - 1], list[n]>>]]
    BY Zenon DEF N
  <2> HIDE DEF h, Body
  <2> QED
    BY <1>7, <2>1, Zenon
<1> DEFINE Held == {n \in Nat : n <= N => h[n] \in Good[n]}
<1> HIDE DEF h
<1>10. 0 \in Held
  <2>0. 0 \in 0 .. N
    BY <1>1
  <2>1. h[0] = base /\ 0 \in Nat
    BY <1>9, <2>0
  <2>2. h[0] \in Good[0]
    BY <2>1
  <2> QED
    BY <2>1, <2>2, Zenon
<1>11. ASSUME NEW n \in Nat, n \in Held PROVE n + 1 \in Held
  <2> SUFFICES ASSUME n + 1 <= N PROVE h[n + 1] \in Good[n + 1]
    OBVIOUS
  <2>1. PICK m \in 1 .. N : m = n + 1 /\ m - 1 = n /\ n <= N
    BY <1>1
  <2>2. h[m - 1] \in Good[m - 1]
    BY <1>11, <2>1
  <2>3. h[m] = step[<<h[m - 1], list[m]>>]
    BY <1>1, <1>9, <2>1
  <2>4. step[<<h[m - 1], list[m]>>] \in Good[m]
    BY <2>1, <2>2 DEF N
  <2> QED
    BY <2>1, <2>3, <2>4
<1>12. N \in Held
  <2> HIDE DEF Held
  <2> QED
    BY <1>1, <1>10, <1>11, NatInduct
<1>13. h[N] \in Good[N]
  BY <1>1, <1>12
<1> QED
  BY <1>8, <1>13 DEF N

LEMMA FoldTyped ==
    ASSUME NEW A, NEW E, NEW list \in Seq(E), NEW step \in [A \X E -> A], NEW base \in A
    PROVE  Fold(step, base, list) \in A
<1> DEFINE Good == [n \in 0 .. Len(list) |-> A]
           N == Len(list)
<1>1. N \in Nat /\ \A n \in 1 .. N : list[n] \in E
  OBVIOUS
<1>2. \A n \in 0 .. N : Good[n] = A
  OBVIOUS
<1>3. Good \in [0 .. N -> SUBSET A] /\ base \in Good[0]
  BY <1>1, <1>2
<1>4. ASSUME NEW n \in 1 .. N, NEW a \in Good[n - 1]
      PROVE  step[<<a, list[n]>>] \in Good[n]
  <2>1. n \in 0 .. N /\ n - 1 \in 0 .. N
    BY <1>1
  <2>2. a \in A /\ Good[n] = A /\ list[n] \in E
    BY <1>1, <1>2, <2>1
  <2> HIDE DEF Good, N
  <2> QED
    BY <2>2
<1> HIDE DEF Good
<1>5. Fold(step, base, list) \in Good[Len(list)]
  BY <1>3, <1>4, FoldGood
<1> QED
  BY <1>1, <1>2, <1>5

\* What Only returns: elements of the list that are in S, and all of them.
LEMMA OnlyTyped ==
    ASSUME NEW E, NEW list \in Seq(E), NEW S
    PROVE  Only(list, S) \in Seq(S \cap ToSet(list)) /\ ToSet(Only(list, S)) = S \cap ToSet(list)
<1> DEFINE N == Len(list)
           T == ToSet(list)
           K == S \cap T
           step == [x \in Seq(K) \X T |-> IF x[2] \in S THEN Append(x[1], x[2]) ELSE x[1]]
           Good == [n \in 0 .. Len(list) |->
                      {out \in Seq(K) : \A i \in 1 .. n : list[i] \in S => list[i] \in ToSet(out)}]
<1>1. N \in Nat /\ T = {list[i] : i \in 1 .. N}
  BY DEF ToSet
<1>2. list \in Seq(T)
  BY <1>1
<1> HIDE DEF T
<1>3. step \in [Seq(K) \X T -> Seq(K)]
  OBVIOUS
<1>4. \A n \in 0 .. N : Good[n] =
        {out \in Seq(K) : \A i \in 1 .. n : list[i] \in S => list[i] \in ToSet(out)}
  OBVIOUS
<1>5. Good \in [0 .. N -> SUBSET Seq(K)] /\ <<>> \in Good[0]
  BY <1>1, <1>4
<1>6. ASSUME NEW n \in 1 .. N, NEW out \in Good[n - 1]
      PROVE  step[<<out, list[n]>>] \in Good[n]
  <2> DEFINE e == list[n]
             new == IF e \in S THEN Append(out, e) ELSE out
  <2>1. /\ n \in 0 .. N /\ n - 1 \in 0 .. N /\ e \in T
        /\ \A i \in 1 .. n : i = n \/ i \in 1 .. n - 1
    BY <1>1, <1>2
  <2>2. out \in Seq(K) /\ \A i \in 1 .. n - 1 : list[i] \in S => list[i] \in ToSet(out)
    BY <1>4, <2>1
  <2>3. step[<<out, e>>] = new
    BY <2>1, <2>2
  <2>4. new \in Seq(K) /\ ToSet(out) \subseteq ToSet(new) /\ (e \in S => e \in ToSet(new))
    <3>1. CASE e \in S
      <4> DEFINE m == Len(out)
      <4>1. m \in Nat /\ DOMAIN out = 1 .. m /\ new = Append(out, e)
        BY <2>2, <3>1
      <4>2. /\ new \in Seq(K) /\ DOMAIN new = 1 .. m + 1 /\ new[m + 1] = e
            /\ \A i \in 1 .. m : new[i] = out[i]
        BY <2>1, <2>2, <3>1
      <4> HIDE DEF new, m, e
      <4> QED
        BY <4>1, <4>2 DEF ToSet
    <3>2. CASE e \notin S
      BY <2>2, <3>2
    <3> QED
      BY <3>1, <3>2
  <2> HIDE DEF new
  <2>5. ASSUME NEW i \in 1 .. n, list[i] \in S PROVE list[i] \in ToSet(new)
    BY <2>1, <2>2, <2>4, <2>5
  <2> HIDE DEF Good, step
  <2> QED
    BY <1>4, <2>1, <2>3, <2>4, <2>5
<1> HIDE DEF Good
<1>7. Fold(step, <<>>, list) \in Good[Len(list)]
  <2> HIDE DEF step
  <2> QED
    BY <1>2, <1>3, <1>5, <1>6, FoldGood
<1>8. Only(list, S) = Fold(step, <<>>, list)
  BY DEF Only, T
<1> HIDE DEF step
<1> DEFINE out == Only(list, S)
<1>9. out \in Seq(K) /\ \A i \in 1 .. N : list[i] \in S => list[i] \in ToSet(out)
  <2>1. out \in Good[N]
    BY <1>7, <1>8
  <2> HIDE DEF out
  <2>2. N \in 0 .. N
    BY <1>1
  <2>3. Good[N] = {l \in Seq(K) : \A i \in 1 .. N : list[i] \in S => list[i] \in ToSet(l)}
    BY <1>4, <2>2
  <2> HIDE DEF N
  <2> QED
    BY <2>1, <2>3
<1> HIDE DEF out
<1>10. ToSet(out) \subseteq K
  BY <1>9 DEF ToSet
<1>11. K \subseteq ToSet(out)
  BY <1>1, <1>9
<1> QED
  BY <1>9, <1>10, <1>11 DEF out, T

----------------------------------------------------------------------------
(* The walk: what is collected is a list of pages.                         *)

LEMMA StepsTyped == \A n \in Nat : Steps(n) \in Seq(Nat)
  BY DEF Steps

LEMMA AddLocsTyped ==
    ASSUME NEW pages \in Seq(Page), NEW locs \in Seq(Page)
    PROVE  AddLocs(pages, locs) \in Seq(Page)
<1> DEFINE step == [x \in Seq(Page) \X Page |-> AddLoc(x[1], x[2])]
<1>1. \A out \in Seq(Page), loc \in Page : AddLoc(out, loc) \in Seq(Page)
  BY DEF AddLoc
<1>2. step \in [Seq(Page) \X Page -> Seq(Page)]
  BY <1>1
<1>3. AddLocs(pages, locs) = Fold(step, pages, locs)
  BY DEF AddLocs
<1> HIDE DEF step
<1>4. Fold(step, pages, locs) \in Seq(Page)
  BY <1>2, FoldTyped
<1> QED
  BY <1>3, <1>4

LEMMA ReadDocTyped ==
    ASSUME NEW c \in Collection, NEW lost
    PROVE  ReadDoc(c, lost) \in Collection
<1> DEFINE queue == Only(c.queue, Doc \ c.visited)
           doc == Head(queue)
           next == [c EXCEPT !.queue = Tail(queue), !.visited = c.visited \cup {doc}]
<1>1. c.queue \in Seq(Doc) /\ c.visited \in SUBSET Doc /\ c.pages \in Seq(Page)
  BY DEF Collection
<1>2. queue \in Seq(Doc)
  <2>1. queue \in Seq((Doc \ c.visited) \cap ToSet(c.queue))
    BY <1>1, OnlyTyped
  <2> HIDE DEF queue
  <2> QED
    BY <2>1
<1> HIDE DEF queue
<1> SUFFICES ASSUME queue # <<>> PROVE ReadDoc(c, lost) \in Collection
  BY DEF ReadDoc, queue
<1>3. doc \in Doc /\ Tail(queue) \in Seq(Doc)
  BY <1>2
<1>4. next \in Collection /\ next.queue = Tail(queue) /\ next.pages = c.pages
  BY <1>1, <1>3 DEF Collection
<1>5. \A q \in Seq(Doc) : [next EXCEPT !.queue = q] \in Collection
  BY <1>4 DEF Collection
<1>6. \A l \in Seq(Page) : [next EXCEPT !.pages = l] \in Collection
  BY <1>4 DEF Collection
<1>7. \/ ReadDoc(c, lost) = c
      \/ ReadDoc(c, lost) = next
      \/ doc \in IndexDocs /\ ReadDoc(c, lost) = [next EXCEPT !.queue = next.queue \o LocsOf[doc]]
      \/ /\ doc \notin IndexDocs
         /\ ReadDoc(c, lost) = [next EXCEPT !.pages = AddLocs(next.pages, LocsOf[doc])]
  BY Zenon DEF ReadDoc, queue
<1> HIDE DEF next, doc
<1>8. ASSUME doc \in IndexDocs PROVE next.queue \o LocsOf[doc] \in Seq(Doc)
  <2>1. LocsOf[doc] \in Seq(Doc)
    BY <1>3, <1>8, DocumentsAssumption
  <2> QED
    BY <1>3, <1>4, <2>1
<1>9. ASSUME doc \notin IndexDocs PROVE AddLocs(next.pages, LocsOf[doc]) \in Seq(Page)
  <2>1. LocsOf[doc] \in Seq(Page)
    BY <1>3, <1>9, DocumentsAssumption
  <2> QED
    BY <1>1, <1>4, <2>1, AddLocsTyped
<1> QED
  BY <1>4, <1>5, <1>6, <1>7, <1>8, <1>9, Zenon

LEMMA CollectTyped ==
    ASSUME NEW home, SitemapsOf[home] \in Seq(Doc), DefaultSitemap[home] \in Doc, NEW lost
    PROVE  CollectSitemaps(home, lost) \in Collection
<1> DEFINE step == [x \in Collection \X Nat |-> ReadDoc(x[1], lost)]
           start == [queue |-> SitemapList(home, lost), visited |-> {}, pages |-> <<>>]
<1>1. step \in [Collection \X Nat -> Collection]
  BY ReadDocTyped
<1>2. start \in Collection
  <2>1. SitemapList(home, lost) \in Seq(Doc)
    BY DEF SitemapList
  <2> QED
    BY <2>1 DEF Collection
<1>3. Steps(SitemapMaxDocs) \in Seq(Nat)
  BY StepsTyped, WalkAssumption
<1>4. CollectSitemaps(home, lost) = Fold(step, start, Steps(SitemapMaxDocs))
  BY DEF CollectSitemaps
<1> HIDE DEF step, start
<1>5. Fold(step, start, Steps(SitemapMaxDocs)) \in Collection
  BY <1>1, <1>2, <1>3, FoldTyped
<1> QED
  BY <1>4, <1>5

LEMMA FollowLinkTyped ==
    ASSUME NEW b \in Search, NEW p \in Page
    PROVE  FollowLink(b, p) \in Search
<1> DEFINE marked == [b EXCEPT !.seen = b.seen \cup {p}]
<1>1. /\ b.found \in Seq(Page) /\ b.frontier \in Seq(Page) /\ b.seen \in SUBSET Page
  BY DEF Search
<1>2. marked \in Search /\ marked.found = b.found /\ marked.frontier = b.frontier
  BY <1>1 DEF Search
<1>3. \A l \in Seq(Page) : /\ [marked EXCEPT !.found = l] \in Search
                           /\ [marked EXCEPT !.frontier = l] \in Search
  BY <1>2 DEF Search
<1>4. Append(b.found, p) \in Seq(Page) /\ Append(b.frontier, p) \in Seq(Page)
  BY <1>1
<1>5. \/ FollowLink(b, p) = b \/ FollowLink(b, p) = marked
      \/ FollowLink(b, p) = [marked EXCEPT !.found = Append(marked.found, p)]
      \/ FollowLink(b, p) = [marked EXCEPT !.frontier = Append(marked.frontier, p)]
  BY Zenon DEF FollowLink
<1> HIDE DEF marked
<1> QED
  BY <1>2, <1>3, <1>4, <1>5, Zenon

LEMMA VisitPageTyped ==
    ASSUME NEW b \in Search, NEW p \in Page, NEW home, NEW lost
    PROVE  VisitPage(b, p, home, lost) \in Search
<1> DEFINE step == [x \in Search \X Page |-> FollowLink(x[1], x[2])]
           at == [b EXCEPT !.fetched = b.fetched + 1, !.visited = b.visited \cup {p}]
           links == IF p \in lost THEN <<>> ELSE LinksOf[p]
<1>1. step \in [Search \X Page -> Search]
  BY FollowLinkTyped
<1>2. at \in Search
  <2>1. b.fetched + 1 \in Nat /\ b.visited \cup {p} \in SUBSET Page
    BY DEF Search
  <2> QED
    BY <2>1 DEF Search
<1>3. links \in Seq(Page)
  BY DocumentsAssumption
<1>4. VisitPage(b, p, home, lost) \in {b, Fold(step, at, links)}
  BY Zenon DEF VisitPage
<1> HIDE DEF step, at, links
<1>5. Fold(step, at, links) \in Search
  BY <1>1, <1>2, <1>3, FoldTyped
<1> QED
  BY <1>4, <1>5

LEMMA LevelTyped ==
    ASSUME NEW b \in Search, NEW home, NEW lost
    PROVE  Level(b, home, lost) \in Search
<1> DEFINE step == [x \in Search \X Page |-> VisitPage(x[1], x[2], home, lost)]
           at == [b EXCEPT !.frontier = <<>>]
<1>1. step \in [Search \X Page -> Search]
  BY VisitPageTyped
<1>2. at \in Search /\ b.frontier \in Seq(Page)
  <2>1. <<>> \in Seq(Page) /\ b \in Search
    OBVIOUS
  <2> QED
    BY <2>1 DEF Search
<1>3. Level(b, home, lost) = Fold(step, at, b.frontier)
  BY DEF Level
<1> HIDE DEF step, at
<1>4. Fold(step, at, b.frontier) \in Search
  BY <1>1, <1>2, FoldTyped
<1> QED
  BY <1>3, <1>4

LEMMA BfsTyped ==
    ASSUME NEW home \in Page, NEW lost
    PROVE  Bfs(home, lost) \in Search
<1> DEFINE step == [x \in Search \X Nat |-> Level(x[1], home, lost)]
           start == [found |-> <<>>, seen |-> {}, visited |-> {}, fetched |-> 0,
                     frontier |-> <<home>>]
<1>1. step \in [Search \X Nat -> Search]
  BY LevelTyped
<1>2. start \in Search
  BY DEF Search
<1>3. Steps(BfsMaxDepth) \in Seq(Nat)
  BY StepsTyped, WalkAssumption
<1>4. Bfs(home, lost) = Fold(step, start, Steps(BfsMaxDepth))
  BY DEF Bfs
<1> HIDE DEF step, start
<1>5. Fold(step, start, Steps(BfsMaxDepth)) \in Search
  BY <1>1, <1>2, <1>3, FoldTyped
<1> QED
  BY <1>4, <1>5

LEMMA FoundTyped ==
    ASSUME NEW home \in Page, SitemapsOf[home] \in Seq(Doc), DefaultSitemap[home] \in Doc, NEW lost
    PROVE  Found(home, lost) \in Seq(Page)
<1> DEFINE pages == CollectSitemaps(home, lost).pages
           listed == Only(pages, Targets)
           found == Bfs(home, lost).found
<1>1. pages \in Seq(Page)
  BY CollectTyped DEF Collection
<1>2. found \in Seq(Page)
  BY BfsTyped DEF Search
<1> HIDE DEF pages, found
<1>3. listed \in Seq(Page)
  <2>1. listed \in Seq(Targets \cap ToSet(pages)) /\ ToSet(pages) \subseteq Page
    BY <1>1, OnlyTyped DEF ToSet
  <2> HIDE DEF listed
  <2> QED
    BY <2>1
<1>4. Found(home, lost) \in {listed, listed \o found}
  BY Zenon DEF Found, pages, found
<1> HIDE DEF listed
<1>5. listed \o found \in Seq(Page)
  BY <1>2, <1>3
<1> QED
  BY <1>3, <1>4, <1>5

----------------------------------------------------------------------------
(* The plan: pages that may be fetched, one of each kind of variants, the  *)
(* homepage only in front; and no filler unless every offer page found was *)
(* dealt with before.                                                      *)

Fit(plan, home, lost) ==
    /\ \A i \in DOMAIN plan : ~Refused(home, plan[i], lost)
    /\ \A i, j \in DOMAIN plan : i # j => KeyOf[plan[i]] # KeyOf[plan[j]]

Dealt(plan, p, home, lost) == Refused(home, p, lost) \/ Covered(plan, p)

LEMMA AppendFacts ==
    ASSUME NEW E, NEW list \in Seq(E), NEW e \in E
    PROVE  /\ Append(list, e) \in Seq(E) /\ Append(list, e) # <<>>
           /\ Len(Append(list, e)) = Len(list) + 1 /\ Append(list, e)[Len(list) + 1] = e
           /\ \A i \in DOMAIN list : i \in DOMAIN Append(list, e) /\ Append(list, e)[i] = list[i]
           /\ \A i \in DOMAIN Append(list, e) : i \in DOMAIN list \/ i = Len(list) + 1
           /\ ToSet(Append(list, e)) = ToSet(list) \cup {e}
<1> DEFINE m == Len(list)
           new == Append(list, e)
<1>1. /\ m \in Nat /\ DOMAIN list = 1 .. m /\ DOMAIN new = 1 .. m + 1 /\ new \in Seq(E)
      /\ Len(new) = m + 1 /\ new[m + 1] = e /\ \A i \in 1 .. m : new[i] = list[i]
  OBVIOUS
<1> HIDE DEF m, new
<1>2. /\ \A i \in 1 .. m : i \in 1 .. m + 1
      /\ \A i \in 1 .. m + 1 : i \in 1 .. m \/ i = m + 1
      /\ m + 1 \in 1 .. m + 1
  BY <1>1
<1>3. ToSet(new) = ToSet(list) \cup {e}
  BY <1>1, <1>2 DEF ToSet
<1>4. new # <<>>
  BY <1>1, <1>2
<1> QED
  BY <1>1, <1>2, <1>3, <1>4 DEF m, new

\* What taking p makes of a plan.
Taken(new, plan, p, home, lost) ==
    /\ new \in Seq(Page) /\ Fit(new, home, lost)
    /\ \A x : Dealt(plan, x, home, lost) => Dealt(new, x, home, lost)
    /\ \/ new = plan /\ (Dealt(new, p, home, lost) \/ Len(new) >= PageCap)
       \/ /\ new = Append(plan, p) /\ ToSet(new) = ToSet(plan) \cup {p}
          /\ Dealt(new, p, home, lost) /\ ~(Len(plan) >= PageCap)

LEMMA TakeKeeps ==
    ASSUME NEW home, NEW lost, NEW plan \in Seq(Page), NEW p \in Page, Fit(plan, home, lost),
           NEW new, new = Take(plan, p, home, lost)
    PROVE  Taken(new, plan, p, home, lost)
<1>1. CASE Refused(home, p, lost) \/ Covered(plan, p) \/ Len(plan) >= PageCap
  <2>1. new = plan
    BY <1>1, Zenon DEF Take
  <2> QED
    BY <1>1, <2>1 DEF Dealt, Taken
<1>2. CASE ~(Refused(home, p, lost) \/ Covered(plan, p) \/ Len(plan) >= PageCap)
  <2>1. new = Append(plan, p)
    BY <1>2, Zenon DEF Take
  <2> DEFINE k == Len(plan) + 1
  <2>2. /\ new \in Seq(Page) /\ ToSet(new) = ToSet(plan) \cup {p} /\ new[k] = p
        /\ \A i \in DOMAIN plan : i \in DOMAIN new /\ new[i] = plan[i]
        /\ \A i \in DOMAIN new : i \in DOMAIN plan \/ i = k
    BY <2>1, AppendFacts
  <2> HIDE DEF k
  <2>3. \A x : Covered(plan, x) \/ x = p => Covered(new, x)
    BY <2>2 DEF Covered
  <2>4. \A i \in DOMAIN new : ~Refused(home, new[i], lost)
    BY <1>2, <2>2, Zenon DEF Fit
  <2>5. \A i \in DOMAIN plan : KeyOf[plan[i]] # KeyOf[p]
    BY <1>2, Zenon DEF Covered, ToSet
  <2>6. ASSUME NEW i \in DOMAIN new, NEW j \in DOMAIN new, i # j
        PROVE  KeyOf[new[i]] # KeyOf[new[j]]
    <3>1. CASE i = k
      <4>1. j \in DOMAIN plan /\ new[j] = plan[j] /\ new[i] = p
        BY <2>2, <2>6, <3>1
      <4> QED
        BY <2>5, <4>1
    <3>2. CASE j = k
      <4>1. i \in DOMAIN plan /\ new[i] = plan[i] /\ new[j] = p
        BY <2>2, <2>6, <3>2
      <4> QED
        BY <2>5, <4>1
    <3>3. CASE i # k /\ j # k
      <4>1. i \in DOMAIN plan /\ new[i] = plan[i] /\ j \in DOMAIN plan /\ new[j] = plan[j]
        BY <2>2, <3>3
      <4> QED
        BY <2>6, <4>1 DEF Fit
    <3> QED
      BY <3>1, <3>2, <3>3
  <2>7. Fit(new, home, lost)
    BY <2>4, <2>6, Zenon DEF Fit
  <2>8. /\ \A x : Dealt(plan, x, home, lost) => Dealt(new, x, home, lost)
        /\ Dealt(new, p, home, lost)
    BY <2>3, Zenon DEF Dealt
  <2> QED
    BY <1>2, <2>1, <2>2, <2>7, <2>8, Zenon DEF Taken
<1> QED
  BY <1>1, <1>2

\* No filler, or every one of the offer pages dealt with before.
FairPlan(plan, home, offers, lost) ==
    /\ plan \in Seq(Page)
    /\ \A i \in DOMAIN plan : plan[i] = home => i = 1
    /\ \/ ToSet(plan) \subseteq PromoPages \cup {home}
       \/ \A p \in offers : Dealt(plan, p, home, lost)

LEMMA FinalizeFair ==
    ASSUME NEW home \in Page, NEW lost, NEW promo \in Seq(Page), NEW filler \in Seq(Page),
           ToSet(promo) \subseteq PromoPages
    PROVE  FairPlan(Finalize(home, promo \o filler, lost), home, ToSet(promo), lost)
<1> DEFINE list == <<home>> \o (promo \o filler)
           N == Len(list)
           P == Len(promo) + 1
           Foremost == PromoPages \cup {home}
           step == [x \in Seq(Page) \X Page |-> Take(x[1], x[2], home, lost)]
           Right(n, plan) ==
               /\ Fit(plan, home, lost)
               /\ n = 0 => plan = <<>>
               /\ (n # 0 /\ ~Refused(home, home, lost)) => plan # <<>> /\ plan[1] = home
               /\ \/ ToSet(plan) \subseteq Foremost
                  \/ n >= P /\ \A i \in 1 .. P : Dealt(plan, list[i], home, lost)
               /\ Len(plan) >= PageCap \/ \A i \in 1 .. n : Dealt(plan, list[i], home, lost)
           Good == [n \in 0 .. Len(list) |-> {plan \in Seq(Page) : Right(n, plan)}]
<1>1. /\ list \in Seq(Page) /\ N \in Nat /\ P \in 1 .. N /\ list[1] = home
      /\ \A i \in 1 .. N : list[i] \in Page
      /\ \A i \in 2 .. P : list[i] = promo[i - 1]
  <2>1. PICK r : r = promo \o filler
    OBVIOUS
  <2>2. PICK a : a = Len(promo)
    OBVIOUS
  <2>3. PICK l : l = <<home>> \o r
    OBVIOUS
  <2>4. /\ a \in Nat /\ r \in Seq(Page) /\ Len(r) \in Nat /\ a <= Len(r)
        /\ \A i \in 1 .. a : r[i] = promo[i]
    BY <2>1, <2>2
  <2>5. /\ l \in Seq(Page) /\ Len(l) = Len(r) + 1 /\ l[1] = home
        /\ \A i \in 2 .. Len(r) + 1 : l[i] = r[i - 1]
    BY <2>3, <2>4
  <2>6. \A i \in 2 .. a + 1 : i \in 2 .. Len(r) + 1 /\ i - 1 \in 1 .. a
    BY <2>4
  <2>7. /\ l \in Seq(Page) /\ Len(l) \in Nat /\ a + 1 \in 1 .. Len(l) /\ l[1] = home
        /\ \A i \in 1 .. Len(l) : l[i] \in Page
        /\ \A i \in 2 .. a + 1 : l[i] = promo[i - 1]
    BY <2>4, <2>5, <2>6
  <2>8. l = list /\ Len(l) = N /\ a + 1 = P
    BY <2>1, <2>2, <2>3
  <2> HIDE DEF list, N, P
  <2> QED
    BY <2>7, <2>8
<1>2. \A i \in 1 .. P : list[i] \in Foremost
  <2>1. \A i \in 2 .. P : i - 1 \in DOMAIN promo
    OBVIOUS
  <2>2. \A i \in 2 .. P : promo[i - 1] \in PromoPages
    BY <2>1 DEF ToSet
  <2>3. \A i \in 1 .. P : i = 1 \/ i \in 2 .. P
    OBVIOUS
  <2> HIDE DEF list, P
  <2> QED
    BY <1>1, <2>2, <2>3
<1>3. \A p \in ToSet(promo) : \E i \in 1 .. P : list[i] = p
  <2> SUFFICES ASSUME NEW k \in DOMAIN promo PROVE \E i \in 1 .. P : list[i] = promo[k]
    BY DEF ToSet
  <2>1. k + 1 \in 2 .. P /\ k + 1 \in 1 .. P /\ (k + 1) - 1 = k
    OBVIOUS
  <2>2. list[k + 1] = promo[k]
    <3> HIDE DEF list, P
    <3> QED
      BY <1>1, <2>1
  <2> HIDE DEF list, P
  <2> QED
    BY <2>1, <2>2
<1>4. P \in Nat /\ 1 \in 1 .. P
  OBVIOUS
<1> HIDE DEF list, N, P, Foremost
<1>6. step \in [Seq(Page) \X Page -> Seq(Page)]
  \* A plan that is not fit cannot come up; still, whatever is taken is a page.
  <2>1. \A plan \in Seq(Page), p \in Page : Take(plan, p, home, lost) \in Seq(Page)
    BY DEF Take
  <2> QED
    BY <2>1
<1>7. \A n \in 0 .. N : Good[n] = {plan \in Seq(Page) : Right(n, plan)}
  BY DEF N
<1>8. Good \in [0 .. N -> SUBSET Seq(Page)]
  BY DEF N
<1>9. <<>> \in Good[0]
  <2>1. 0 \in 0 .. N /\ <<>> \in Seq(Page) /\ ToSet(<<>>) = {} /\ DOMAIN <<>> = {}
    BY <1>1 DEF ToSet
  <2>2. Right(0, <<>>)
    BY <1>4, <2>1 DEF Fit
  <2> HIDE DEF Right, Good
  <2> QED
    BY <1>7, <2>1, <2>2
<1>10. ASSUME NEW n \in 1 .. N, NEW plan \in Good[n - 1]
       PROVE  step[<<plan, list[n]>>] \in Good[n]
  <2> DEFINE p == list[n]
  <2>1. /\ n \in 0 .. N /\ n - 1 \in 0 .. N /\ p \in Page
        /\ \A i \in 1 .. n : i = n \/ i \in 1 .. n - 1
    BY <1>1
  <2>2. plan \in Seq(Page) /\ Right(n - 1, plan)
    <3> HIDE DEF Right, Good
    <3> QED
      BY <1>7, <2>1
  <2>3. PICK new : new = Take(plan, p, home, lost)
    OBVIOUS
  <2>4. step[<<plan, p>>] = new
    BY <2>1, <2>2, <2>3
  <2> HIDE DEF Good, step
  <2>5. /\ new \in Seq(Page) /\ Fit(new, home, lost)
        /\ \A x : Dealt(plan, x, home, lost) => Dealt(new, x, home, lost)
        /\ \/ new = plan /\ (Dealt(new, p, home, lost) \/ Len(new) >= PageCap)
           \/ /\ new = Append(plan, p) /\ ToSet(new) = ToSet(plan) \cup {p}
              /\ Dealt(new, p, home, lost) /\ ~(Len(plan) >= PageCap)
    <3>1. Fit(plan, home, lost) /\ plan \in Seq(Page) /\ p \in Page
      BY <2>1, <2>2
    <3> HIDE DEF p
    <3>2. Taken(new, plan, p, home, lost)
      BY <2>3, <3>1, TakeKeeps
    <3> QED
      BY <3>2, Zenon DEF Taken
  <2>6. ASSUME ~Refused(home, home, lost) PROVE new # <<>> /\ new[1] = home
    <3>1. CASE n = 1
      <4>1. plan = <<>> /\ p = home
        BY <1>1, <2>2, <3>1
      <4>2. ~Covered(plan, home) /\ ~(Len(plan) >= PageCap)
        BY <4>1, WalkAssumption DEF Covered, ToSet
      <4>3. new = Append(plan, home)
        BY <2>3, <2>6, <4>1, <4>2, Zenon DEF Take
      <4> QED
        BY <4>1, <4>3
    <3>2. CASE n # 1
      <4>1. plan # <<>> /\ plan[1] = home
        BY <2>2, <2>6, <3>2
      <4>2. new = plan \/ new = Append(plan, p)
        BY <2>5
      <4>3. ASSUME new = Append(plan, p) PROVE new # <<>> /\ new[1] = home
        <5>1. 1 \in DOMAIN plan
          BY <2>2, <4>1
        <5> HIDE DEF p
        <5> QED
          BY <2>1, <2>2, <4>1, <4>3, <5>1, AppendFacts
      <4> QED
        BY <4>1, <4>2, <4>3
    <3> QED
      BY <3>1, <3>2
  <2>7. Len(new) >= PageCap \/ \A i \in 1 .. n : Dealt(new, list[i], home, lost)
    <3>1. CASE new = plan /\ (Dealt(new, p, home, lost) \/ Len(new) >= PageCap)
      BY <2>1, <2>2, <3>1
    <3>2. CASE Dealt(new, p, home, lost) /\ ~(Len(plan) >= PageCap)
      BY <2>1, <2>2, <2>5, <3>2
    <3> QED
      BY <2>5, <3>1, <3>2
  <2>8. \/ ToSet(new) \subseteq Foremost
        \/ n >= P /\ \A i \in 1 .. P : Dealt(new, list[i], home, lost)
    <3>1. CASE n - 1 >= P /\ \A i \in 1 .. P : Dealt(plan, list[i], home, lost)
      BY <1>4, <2>1, <2>5, <3>1
    <3>2. CASE new = plan /\ ToSet(plan) \subseteq Foremost
      BY <3>2
    <3>3. CASE ToSet(new) = ToSet(plan) \cup {p} /\ ToSet(plan) \subseteq Foremost /\ n \in 1 .. P
      BY <1>2, <3>3
    <3>4. CASE ~(Len(plan) >= PageCap) /\ n \notin 1 .. P
      <4>1. n >= P /\ \A i \in 1 .. P : i \in 1 .. n - 1
        BY <1>1, <1>4, <3>4
      <4>2. \A i \in 1 .. n - 1 : Dealt(plan, list[i], home, lost)
        BY <2>2, <3>4
      <4> QED
        BY <2>5, <4>1, <4>2
    <3>5. \/ n - 1 >= P /\ \A i \in 1 .. P : Dealt(plan, list[i], home, lost)
          \/ ToSet(plan) \subseteq Foremost
      BY <2>2
    <3> QED
      BY <2>5, <3>1, <3>2, <3>3, <3>4, <3>5
  <2>9. Right(n, new)
    <3> HIDE DEF p
    <3>1. n # 0
      BY <1>1
    <3> QED
      BY <2>5, <2>6, <2>7, <2>8, <3>1
  <2> HIDE DEF Right
  <2> QED
    BY <1>7, <2>1, <2>4, <2>5, <2>9
<1>11. Fold(step, <<>>, list) \in Good[Len(list)]
  <2> HIDE DEF step, Good, Right
  <2> QED
    BY <1>1, <1>6, <1>8, <1>9, <1>10, FoldGood DEF N
<1>12. Finalize(home, promo \o filler, lost) = Fold(step, <<>>, list)
  BY DEF Finalize, list
<1> DEFINE plan == Finalize(home, promo \o filler, lost)
<1>13. plan \in Seq(Page) /\ Right(N, plan)
  <2> HIDE DEF step, Good, Right, plan
  <2>1. N \in 0 .. N
    BY <1>1
  <2>2. plan \in Good[N]
    BY <1>11, <1>12 DEF N, plan
  <2> QED
    BY <1>7, <2>1, <2>2
<1> HIDE DEF plan
<1>14. ASSUME NEW i \in DOMAIN plan, plan[i] = home PROVE i = 1
  <2>1. ~Refused(home, home, lost) /\ N # 0
    BY <1>1, <1>13, <1>14 DEF Fit
  <2>2. plan # <<>> /\ plan[1] = home
    BY <1>13, <2>1
  <2>3. 1 \in DOMAIN plan
    BY <1>13, <2>2
  <2> QED
    BY <1>13, <1>14, <2>2, <2>3 DEF Fit
<1>15. \/ ToSet(plan) \subseteq PromoPages \cup {home}
       \/ \A p \in ToSet(promo) : Dealt(plan, p, home, lost)
  BY <1>3, <1>13 DEF Foremost
<1> QED
  BY <1>13, <1>14, <1>15, Zenon DEF plan, FairPlan

LEMMA WalkPlanFair ==
    ASSUME NEW home \in Page, SitemapsOf[home] \in Seq(Doc), DefaultSitemap[home] \in Doc, NEW lost
    PROVE  FairPlan(WalkPlan(home, lost), home, ToSet(Found(home, lost)) \cap PromoPages, lost)
<1> DEFINE found == Found(home, lost)
           offers == ToSet(found) \cap PromoPages
           promo == Only(found, PromoPages)
           filler == Only(found, Page \ PromoPages)
           plan == WalkPlan(home, lost)
<1>1. found \in Seq(Page)
  BY FoundTyped
<1>2. \/ plan = <<>> \/ plan = <<home>>
      \/ plan = Finalize(home, promo \o filler, lost)
  BY Zenon DEF WalkPlan, PromoFirst
<1> HIDE DEF found
<1>3. ToSet(found) \subseteq Page
  BY <1>1 DEF ToSet
<1>4. promo \in Seq(PromoPages \cap ToSet(found)) /\ ToSet(promo) = offers
  BY <1>1, OnlyTyped
<1>5. filler \in Seq((Page \ PromoPages) \cap ToSet(found))
  BY <1>1, OnlyTyped
<1> HIDE DEF promo, filler, plan
<1>6. promo \in Seq(Page) /\ filler \in Seq(Page)
  BY <1>3, <1>4, <1>5
<1>7. CASE plan = <<>>
  <2>1. plan \in Seq(Page) /\ DOMAIN plan = {} /\ ToSet(plan) = {}
    BY <1>7 DEF ToSet
  <2> HIDE DEF offers
  <2> QED
    BY <2>1 DEF FairPlan, plan
<1>8. CASE plan = <<home>>
  <2>1. plan \in Seq(Page) /\ DOMAIN plan = {1} /\ ToSet(plan) = {home}
    BY <1>8 DEF ToSet
  <2> HIDE DEF offers
  <2> QED
    BY <2>1 DEF FairPlan, plan
<1>9. CASE plan = Finalize(home, promo \o filler, lost)
  <2>1. FairPlan(Finalize(home, promo \o filler, lost), home, ToSet(promo), lost)
    BY <1>4, <1>6, FinalizeFair
  <2> HIDE DEF offers
  <2>2. FairPlan(plan, home, offers, lost)
    BY <1>4, <1>9, <2>1
  <2> QED
    BY <2>2 DEF plan, offers, found
<1> QED
  BY <1>2, <1>7, <1>8, <1>9

LEMMA PlanTyped ==
    ASSUME NEW s \in Sources, NEW failed \in Failures, NEW gone \in BOOLEAN
    PROVE  /\ Plan[s][failed][gone] \in Seq(Page)
           /\ s \in Websites =>
                FairPlan(Plan[s][failed][gone], HomeOf[s],
                         ToSet(Found(HomeOf[s], Missing(s, failed, gone))) \cap PromoPages,
                         Missing(s, failed, gone))
<1> DEFINE home == HomeOf[s]
           lost == Missing(s, failed, gone)
           plan == Plan[s][failed][gone]
<1>1. home \in Page
  BY CrawlAssumption
<1>2. CASE s \in Websites
  <2>1. plan = WalkPlan(home, lost)
    BY <1>2 DEF Plan
  <2> HIDE DEF home, lost, plan
  <2>2. SitemapsOf[home] \in Seq(Doc) /\ DefaultSitemap[home] \in Doc
    BY <1>2, CrawlAssumption DEF home
  <2>3. FairPlan(WalkPlan(home, lost), home, ToSet(Found(home, lost)) \cap PromoPages, lost)
    BY <1>1, <2>2, WalkPlanFair
  <2>4. FairPlan(plan, home, ToSet(Found(home, lost)) \cap PromoPages, lost)
    BY <2>1, <2>3
  <2> QED
    BY <2>4 DEF home, lost, plan, FairPlan
<1>3. CASE s \notin Websites
  <2>1. plan = <<home>>
    BY <1>3 DEF Plan
  <2> HIDE DEF home, plan
  <2>2. plan \in Seq(Page)
    BY <1>1, <2>1
  <2> QED
    BY <1>3, <2>2 DEF plan
<1> QED
  BY <1>2, <1>3

\* A walk in which nothing is missing.
LEMMA NothingMissing ==
    ASSUME NEW s
    PROVE  Missing(s, {}, FALSE) = {} /\ {} \in Failures
BY DEF Missing, Failures

-----------------------------------------------------------------------------
(* Arithmetic, sequences, and the pages of a source.                       *)

LEMMA DelayGrows ==
    ASSUME NEW n \in Nat
    PROVE  /\ Delay(n) \in Nat /\ RobotsTtl \in Nat \ {0} /\ EmptySkip \in Nat
           /\ Delay(n + 1) = Delay(n) + EmptySkip + RobotsTtl
<1>1. RobotsTtl \in Nat \ {0} /\ EmptySkip \in Nat
  BY CrawlAssumption
<1>2. PICK d \in Nat : d = EmptySkip + RobotsTtl
  BY <1>1
<1>3. n * d \in Nat /\ (n + 1) * d = n * d + d
  BY <1>2
<1> QED
  BY <1>1, <1>2, <1>3 DEF Delay

LEMMA DelayBounded ==
    ASSUME NEW n \in 0 .. MaxFaults
    PROVE  Delay(n) <= Ttl
<1>0. PICK step \in Nat : step = EmptySkip + RobotsTtl
  BY CrawlAssumption
<1>1. MaxFaults \in Nat /\ n \in Nat /\ n <= MaxFaults
  BY CrawlAssumption
<1>2. PICK d \in Nat : MaxFaults = n + d
  <2>1. MaxFaults - n \in Nat /\ MaxFaults = n + (MaxFaults - n)
    BY <1>1
  <2> QED BY <2>1
<1>3. (n + d) * step = n * step + d * step
  BY <1>1
<1>4. d * step \in Nat /\ n * step \in Nat
  BY <1>1
<1>5. n * step <= MaxFaults * step
  BY <1>2, <1>3, <1>4
<1>6. MaxFaults * step <= Ttl /\ Delay(n) = n * step /\ MaxFaults * step \in Nat /\ Ttl \in Nat
  BY <1>0, <1>1, FreshnessAssumption DEF Delay
<1> QED BY <1>4, <1>5, <1>6

LEMMA HeadAndTail ==
    ASSUME NEW S, NEW q \in Seq(S), q # <<>>
    PROVE  /\ Head(q) \in S /\ Tail(q) \in Seq(S)
           /\ Head(q) \in ToSet(q) /\ ToSet(Tail(q)) \subseteq ToSet(q)
           /\ \A x \in ToSet(q) : x = Head(q) \/ x \in ToSet(Tail(q))
<1>1. Head(q) = q[1] /\ 1 \in DOMAIN q /\ Head(q) \in S /\ Tail(q) \in Seq(S)
  OBVIOUS
<1>2. DOMAIN q = 1 .. Len(q) /\ DOMAIN Tail(q) = 1 .. Len(q) - 1 /\ Len(q) \in Nat
  BY <1>1
<1>3. \A i \in 1 .. Len(q) - 1 : Tail(q)[i] = q[i + 1]
  OBVIOUS
<1>4. ToSet(Tail(q)) \subseteq ToSet(q)
  <2> SUFFICES ASSUME NEW i \in 1 .. Len(q) - 1 PROVE Tail(q)[i] \in ToSet(q)
    BY <1>2 DEF ToSet
  <2>1. i + 1 \in DOMAIN q /\ Tail(q)[i] = q[i + 1]
    BY <1>2, <1>3
  <2> QED BY <2>1 DEF ToSet
<1>5. ASSUME NEW x \in ToSet(q) PROVE x = Head(q) \/ x \in ToSet(Tail(q))
  <2>1. PICK j \in 1 .. Len(q) : x = q[j]
    BY <1>2 DEF ToSet
  <2>2. CASE j = 1
    BY <1>1, <2>1, <2>2
  <2>3. CASE j # 1
    <3>1. j - 1 \in 1 .. Len(q) - 1 /\ (j - 1) + 1 = j
      BY <1>2, <2>3
    <3>2. Tail(q)[j - 1] = x
      BY <1>3, <2>1, <3>1
    <3> QED BY <1>2, <3>1, <3>2 DEF ToSet
  <2> QED BY <2>2, <2>3
<1>6. Head(q) \in ToSet(q)
  BY <1>1 DEF ToSet
<1> QED BY <1>1, <1>4, <1>5, <1>6

LEMMA PagesOf ==
    ASSUME NEW s \in Sources
    PROVE  /\ Reached(s) \subseteq Pages(s)
           /\ \A failed \in Failures, gone \in BOOLEAN : ToSet(Plan[s][failed][gone]) \subseteq Pages(s)
           /\ \A t \in Sources \ {s} : Pages(s) \cap Pages(t) = {}
           /\ {} \in Failures
<1>1. {} \in Failures
  BY DEF Failures
<1>2. ASSUME NEW failed \in Failures, NEW gone \in BOOLEAN
      PROVE  ToSet(Plan[s][failed][gone]) \subseteq Pages(s)
  <2> DEFINE both == ToSet(Plan[s][failed][TRUE]) \cup ToSet(Plan[s][failed][FALSE])
  <2>1. both \subseteq Pages(s)
    BY Zenon DEF Pages
  <2>2. gone = TRUE \/ gone = FALSE
    OBVIOUS
  <2>3. ToSet(Plan[s][failed][gone]) \subseteq both
    BY <2>2
  <2> HIDE DEF both
  <2> QED
    BY <2>1, <2>3
<1>3. Reached(s) \subseteq Pages(s)
  BY <1>1, <1>2 DEF Reached
<1> QED BY <1>1, <1>2, <1>3, PlanAssumption

LEMMA PageOfChannel ==
    ASSUME NEW s \in Channels
    PROVE  /\ Pages(s) = {HomeOf[s]} /\ Reached(s) = {HomeOf[s]}
           /\ s \in Sources /\ s \notin Websites
<1>1. s \in Sources /\ s \notin Websites
  BY CrawlAssumption DEF Sources
<1>2. \A failed \in Failures, gone \in BOOLEAN : Plan[s][failed][gone] = <<HomeOf[s]>>
  BY <1>1 DEF Plan
<1>3. ToSet(<<HomeOf[s]>>) = {HomeOf[s]}
  BY DEF ToSet
<1>4. {} \in Failures /\ FALSE \in BOOLEAN
  BY DEF Failures
<1>5. Reached(s) = {HomeOf[s]}
  BY <1>2, <1>3, <1>4 DEF Reached
<1>6. Pages(s) = {HomeOf[s]}
  <2>1. \A failed \in Failures :
          ToSet(Plan[s][failed][TRUE]) \cup ToSet(Plan[s][failed][FALSE]) = {HomeOf[s]}
    BY <1>2, <1>3
  <2> QED BY <1>4, <2>1 DEF Pages
<1> QED BY <1>1, <1>5, <1>6

LEMMA KeptFacts ==
    ASSUME TypeOK, NEW s \in Sources, NEW p \in Kept(s)
    PROVE  /\ p \in Pages(s) /\ p \in Offerable /\ p \in offering /\ p \notin Tagged
           /\ age[p] \in Nat /\ offer[p] = "live"
           /\ s \in Websites => p \notin validators
<1>1. p \in Pages(s) /\ p \in Offerable /\ p \in offering /\ p \notin Tagged /\ offer[p] = "live"
  BY PagesOf DEF Kept, TypeOK
<1>2. age[p] \in Nat
  BY <1>1, FreshnessAssumption DEF TypeOK
<1>3. ASSUME s \in Websites, p \in validators PROVE FALSE
  <2>1. PICK t \in Channels : p = HomeOf[t]
    BY <1>1, <1>3 DEF TypeOK
  <2>2. t \in Sources \ {s} /\ p \in Pages(t)
    BY <1>3, <2>1, PageOfChannel
  <2> QED BY <1>1, <2>2, PagesOf
<1> QED BY <1>1, <1>2, <1>3

LEMMA InitHolds == Init => IInv
<1> SUFFICES ASSUME Init PROVE IInv
  OBVIOUS
<1>1. EmptySkip \in Nat /\ Ttl \in Nat /\ MaxFaults \in Nat /\ MaxChanges \in Nat
  BY CrawlAssumption, FreshnessAssumption
<1>2. Idle \in TaskState /\ ToSet(<<>>) = {}
  BY DEF Idle, TaskState, Stages, ToSet
<1>3. TypeOK
  <2>1. \A s \in Sources : work[s] = Idle
    BY DEF Init
  <2>2. /\ Idle.at = "out" /\ Idle.at \in Stages /\ Idle.got \in BOOLEAN
        /\ Idle.todo = <<>> /\ <<>> \in Seq(Page)
    BY DEF Idle, Stages
  <2>3. \A s \in Sources :
           /\ work[s].at \in Stages /\ work[s].got \in BOOLEAN
           /\ work[s].todo \in Seq(Page) /\ work[s].at = "out"
    BY <2>1, <2>2
  <2>4. /\ age \in [Offerable -> 0 .. Ttl + 1] /\ skipLeft \in [Websites -> 0 .. EmptySkip]
        /\ offer \in [Offerable -> {"none", "live", "expired"}]
    BY <1>1 DEF Init
  <2>5. /\ offering \subseteq Offerable /\ skipSaved = skipLeft /\ validators = {}
        /\ pass = FALSE /\ due = TRUE /\ changes = 0 /\ robots \in [Websites -> Entry]
        /\ faults \in {0, 1} /\ faults <= MaxFaults
    BY DEF Init
  <2>6. faults \in 0 .. MaxFaults /\ changes \in 0 .. MaxChanges
    BY <1>1, <2>5
  <2> QED BY <2>3, <2>4, <2>5, <2>6 DEF TypeOK
<1>4. TasksOK
  <2>1. \A s \in Sources : work[s].at = "out" /\ work[s].todo = <<>>
    BY DEF Init, Idle
  <2>2. \A s \in Websites : s \in Sources
    BY DEF Sources
  <2> QED BY <1>2, <2>1, <2>2 DEF Init, TasksOK
<1>5. \A s \in Sources : \A p \in Reached(s) \cap offering : offer[p] = "none"
  BY DEF Init
<1>6. InTime
  BY <1>5 DEF InTime, SiteInTime, ChannelInTime, Kept, Sources
<1>7. RobotsPaid
  <2> SUFFICES ASSUME NEW s \in Websites PROVE RobotsInTime(s)
    BY DEF RobotsPaid
  <2>1. Kept(s) = {}
    BY <1>5 DEF Kept, Sources
  <2>2. ASSUME robots[s].lost PROVE 0 + robots[s].left + EmptySkip <= Delay(faults) + 1 /\ faults > 0
    <3>1. faults = 1
      BY <2>2 DEF Init
    <3>2. /\ RobotsTtl \in Nat /\ EmptySkip \in Nat /\ Delay(0) \in Nat
          /\ Delay(0 + 1) = Delay(0) + EmptySkip + RobotsTtl
      BY DelayGrows
    <3>3. robots[s].left \in 0 .. RobotsTtl
      BY <1>3 DEF TypeOK, Entry
    <3>4. 0 + 1 = 1
      OBVIOUS
    <3>5. Delay(faults) = Delay(0) + EmptySkip + RobotsTtl
      BY <3>1, <3>2, <3>4
    <3> QED
      BY <3>1, <3>2, <3>3, <3>5
  <2> QED
    BY <2>1, <2>2 DEF RobotsInTime, Paid
<1> QED BY <1>3, <1>4, <1>5, <1>6, <1>7 DEF IInv, UntaggedNeverExpires

-----------------------------------------------------------------------------
(* What a step of one task does, and what it leaves alone.                 *)

GoodTask(s, w) ==
    /\ w \in TaskState
    /\ ToSet(w.todo) \subseteq Pages(s)
    /\ w.at = "close" => w.todo = <<>>
    /\ w.at \in {"fetch", "submit"} => w.todo # <<>>
    /\ w.at = "submit" => Head(w.todo) \in Offerable

Advanced(s, got) ==
    [at |-> Proceed(Tail(work[s].todo)), todo |-> Tail(work[s].todo), got |-> got]

LEMMA Advancing ==
    ASSUME TypeOK, TasksOK, NEW s \in Sources, work[s].at \in {"fetch", "submit"}
    PROVE  /\ \A got \in BOOLEAN : /\ NextPage(s, got) = [work EXCEPT ![s] = Advanced(s, got)]
                                  /\ GoodTask(s, Advanced(s, got))
           /\ Head(work[s].todo) \in Pages(s) /\ Head(work[s].todo) \in Page
<1>1. work \in [Sources -> TaskState] /\ work[s] \in TaskState
  BY DEF TasksOK
<1>2. work[s].todo \in Seq(Page) /\ work[s].todo # <<>> /\ ToSet(work[s].todo) \subseteq Pages(s)
  BY DEF TypeOK, TasksOK
<1>3. /\ Tail(work[s].todo) \in Seq(Page) /\ ToSet(Tail(work[s].todo)) \subseteq Pages(s)
      /\ Head(work[s].todo) \in Pages(s) /\ Head(work[s].todo) \in Page
  BY <1>2, HeadAndTail
<1>4. \A got \in BOOLEAN : NextPage(s, got) = [work EXCEPT ![s] = Advanced(s, got)]
  BY DEF NextPage, Moved, Advanced
<1>5. ASSUME NEW got \in BOOLEAN PROVE GoodTask(s, Advanced(s, got))
  BY <1>3 DEF GoodTask, Advanced, TaskState, Proceed, Stages
<1> QED BY <1>3, <1>4, <1>5

LEMMA IdleIsGood == ASSUME NEW s PROVE GoodTask(s, Idle) /\ Idle.at = "out"
BY DEF GoodTask, Idle, TaskState, Stages, ToSet

\* The marks of pages that no step of s touches.
SameMarks(s) ==
    \A p : p \notin Tagged \cup (Pages(s) \cap {HomeOf[t] : t \in Channels})
              => (p \in validators' <=> p \in validators)

\* Backend, registry and marks change for the pages of s at most.
OwnOnly(s) ==
    /\ offer' \in [Offerable -> {"none", "live", "expired"}]
    /\ age' \in [Offerable -> 0 .. Ttl + 1]
    /\ \A p \in Offerable :
          /\ p \notin Pages(s) => offer'[p] = offer[p] /\ age'[p] = age[p]
          /\ offer'[p] = "expired" => offer[p] = "expired"
    /\ skipLeft' \in [Websites -> 0 .. EmptySkip]
    /\ \A t \in Websites \ {s} : skipLeft'[t] = skipLeft[t]
    /\ robots' \in [Websites -> Entry]
    /\ \A t \in Websites \ {s} : robots'[t] = robots[t]
    /\ validators' \subseteq Tagged \cup {HomeOf[t] : t \in Channels}
    /\ SameMarks(s)
    /\ faults' \in {faults, faults + 1} /\ faults' \in 0 .. MaxFaults
    /\ UNCHANGED <<offering, skipSaved, pass, due, changes>>

\* A step of the task of s, seen from outside.
Stepped(s, w) ==
    /\ pass
    /\ work' = [work EXCEPT ![s] = w] /\ GoodTask(s, w)
    /\ s \in Websites /\ w.at \notin {"out", "queued"} => skipLeft'[s] = 0
    /\ OwnOnly(s)

LEMMA FaultTyped == TypeOK /\ (Fault \/ UNCHANGED faults)
                       => faults' \in {faults, faults + 1} /\ faults' \in 0 .. MaxFaults
BY CrawlAssumption DEF TypeOK, Fault

\* What a walk leaves in the cache of robots.txt files.
LEMMA CacheTyped ==
    ASSUME TypeOK, NEW s \in Sources, NEW failed \in Failures, robots' = Cached(s, failed)
    PROVE  /\ robots' \in [Websites -> Entry]
           /\ \A t \in Websites \ {s} : robots'[t] = robots[t]
           /\ s \in Websites => robots'[s] = Looked(s, failed)
<1>1. ASSUME s \in Websites PROVE Looked(s, failed) \in Entry
  <2>1. [lost |-> RobotsOf[HomeOf[s]] \in failed, left |-> RobotsTtl] \in Entry
    <3>1. RobotsTtl \in 0 .. RobotsTtl /\ RobotsTtl > 0
      BY CrawlAssumption
    <3>2. (RobotsOf[HomeOf[s]] \in failed) \in BOOLEAN
      OBVIOUS
    <3> QED
      BY <3>1, <3>2 DEF Entry
  <2>2. robots[s] \in Entry
    BY <1>1 DEF TypeOK
  <2> QED
    BY <2>1, <2>2 DEF Looked
<1> QED
  BY <1>1 DEF Cached, TypeOK

\* Steps that touch no more than the task, the caches and the count of faults.
LEMMA PlainStep ==
    ASSUME TypeOK, TasksOK, NEW s \in Sources, NEW w,
           work[s].at # "out", work' = [work EXCEPT ![s] = w], GoodTask(s, w),
           s \in Websites /\ w.at \notin {"out", "queued"} => skipLeft[s] = 0,
           Fault \/ UNCHANGED faults, UNCHANGED <<backend, registry, pass, due, world>>,
           UNCHANGED robots \/ \E failed \in Failures : robots' = Cached(s, failed),
           validators \subseteq validators', validators' \subseteq validators \cup Tagged
    PROVE  Stepped(s, w)
<1>1. pass
  BY DEF TasksOK
<1>2. UNCHANGED <<offer, age, skipLeft, skipSaved, pass, due, offering, changes>>
  BY DEF backend, registry, world
<1>3. SameMarks(s) /\ validators' \subseteq Tagged \cup {HomeOf[t] : t \in Channels}
  BY DEF SameMarks, TypeOK
<1>4. robots' \in [Websites -> Entry] /\ \A t \in Websites \ {s} : robots'[t] = robots[t]
  BY CacheTyped DEF TypeOK
<1>5. OwnOnly(s)
  BY <1>2, <1>3, <1>4, FaultTyped DEF OwnOnly, TypeOK
<1> QED BY <1>1, <1>2, <1>5 DEF Stepped

LEMMA TaskStep ==
    ASSUME TypeOK, TasksOK, NEW s \in Sources, Task(s)
    PROVE  \E w : Stepped(s, w)
<1>1. work[s] \in TaskState /\ work \in [Sources -> TaskState]
  BY DEF TasksOK
<1>2. s \in Websites => skipLeft[s] \in Nat /\ skipLeft[s] \in 0 .. EmptySkip
  BY CrawlAssumption DEF TypeOK
<1>3. s \in Websites /\ work[s].at \notin {"out", "queued"} => skipLeft[s] = 0
  BY DEF TasksOK
<1>4. CASE Skip(s)
  <2>1. /\ work' = [work EXCEPT ![s] = Idle] /\ s \in Websites /\ skipLeft[s] > 0
        /\ skipLeft' = [skipLeft EXCEPT ![s] = skipLeft[s] - 1]
        /\ work[s].at # "out"
        /\ UNCHANGED <<validators, offer, age, skipSaved, robots, pass, due, faults, offering, changes>>
    BY <1>4 DEF Skip, TakeSkip, backend, world
  <2>2. skipLeft[s] - 1 \in 0 .. EmptySkip
    BY <1>2, <2>1, CrawlAssumption
  <2>3. skipLeft' \in [Websites -> 0 .. EmptySkip] /\ \A t \in Websites \ {s} : skipLeft'[t] = skipLeft[t]
    BY <2>1, <2>2 DEF TypeOK
  <2>4. OwnOnly(s)
    BY <2>1, <2>3, FaultTyped DEF OwnOnly, TypeOK, SameMarks
  <2>5. pass
    BY <2>1 DEF TasksOK
  <2> QED BY <2>1, <2>4, <2>5, IdleIsGood DEF Stepped
<1>5. CASE Begin(s)
  <2> DEFINE w == [at |-> "walk", todo |-> <<>>, got |-> FALSE]
  <2>1. work' = [work EXCEPT ![s] = w]
    BY <1>5 DEF Begin, Moved
  <2>2. GoodTask(s, w)
    BY DEF GoodTask, TaskState, Stages, ToSet
  <2>3. s \in Websites => skipLeft[s] = 0
    BY <1>2, <1>5 DEF Begin, TakeSkip
  <2> QED BY <1>5, <2>1, <2>2, <2>3, PlainStep DEF Begin
<1>6. CASE PlanPages(s)
  <2>1. PICK failed \in Failures :
          /\ work' = Planned(s, Plan[s][failed][Gone(s, failed)]) /\ (UNCHANGED faults \/ Fault)
          /\ robots' = Cached(s, failed)
    BY <1>6 DEF PlanPages
  <2>0. Gone(s, failed) \in BOOLEAN
    BY DEF Gone
  <2> DEFINE todo == Plan[s][failed][Gone(s, failed)]
             w == [at |-> Proceed(todo), todo |-> todo, got |-> FALSE]
  <2>2. todo \in Seq(Page) /\ ToSet(todo) \subseteq Pages(s)
    BY <2>0, PlanTyped, PagesOf
  <2>3. work' = [work EXCEPT ![s] = w]
    BY <2>1 DEF Planned, Moved
  <2>4. GoodTask(s, w)
    BY <1>1, <2>2 DEF GoodTask, TaskState, Proceed, Stages
  <2> QED BY <1>3, <1>6, <2>1, <2>3, <2>4, PlainStep DEF PlanPages
<1>7. CASE Fail(s)
  BY <1>7, PlainStep, IdleIsGood DEF Fail
<1>8. CASE FetchUnchanged(s)
  BY <1>1, <1>3, <1>8, PlainStep, Advancing DEF FetchUnchanged, TaskState
<1>9. CASE FetchFails(s)
  BY <1>1, <1>3, <1>9, PlainStep, Advancing, IdleIsGood DEF FetchFails, Marked, TaskState
<1>10. CASE SubmitFails(s)
  BY <1>1, <1>3, <1>10, PlainStep, Advancing, IdleIsGood DEF SubmitFails, TaskState
<1>11. CASE FetchPage(s)
  <2> DEFINE p == Head(work[s].todo)
             w == IF p \in offering
                  THEN [at |-> "submit", todo |-> work[s].todo, got |-> work[s].got]
                  ELSE Advanced(s, work[s].got)
  <2>1. work[s].at = "fetch" /\ UNCHANGED <<offer, age, skipLeft, skipSaved, robots, pass, due, faults, offering, changes>>
    BY <1>11 DEF FetchPage, backend, registry, world
  <2>2. work' = [work EXCEPT ![s] = w]
    <3>1. CASE p \in offering
      BY <1>11, <3>1 DEF FetchPage, Moved
    <3>2. CASE p \notin offering
      BY <1>1, <1>11, <2>1, <3>2, Advancing DEF FetchPage, TaskState
    <3> QED BY <3>1, <3>2
  <2>3. GoodTask(s, w)
    <3>1. CASE p \in offering
      <4>1. p \in Offerable /\ work[s].todo # <<>> /\ ToSet(work[s].todo) \subseteq Pages(s)
        BY <2>1, <3>1 DEF TypeOK, TasksOK
      <4> QED BY <1>1, <3>1, <4>1 DEF GoodTask, TaskState, Stages
    <3>2. CASE p \notin offering
      BY <1>1, <2>1, <3>2, Advancing DEF TaskState
    <3> QED BY <3>1, <3>2
  <2>4. validators' \in {validators, validators \cup ({p} \cap Tagged)}
    BY <1>11 DEF FetchPage, Marked
  <2>5. SameMarks(s) /\ validators' \subseteq Tagged \cup {HomeOf[t] : t \in Channels}
    BY <2>4 DEF SameMarks, TypeOK
  <2>6. OwnOnly(s)
    BY <2>1, <2>5, FaultTyped DEF OwnOnly, TypeOK
  <2>7. pass
    BY <2>1 DEF TasksOK
  <2>8. s \in Websites => skipLeft'[s] = 0
    BY <1>3, <2>1
  <2> HIDE DEF w
  <2> QED BY <2>2, <2>3, <2>6, <2>7, <2>8 DEF Stepped
<1>12. CASE Submit(s)
  <2> DEFINE p == Head(work[s].todo)
  <2>1. work[s].at = "submit" /\ UNCHANGED <<validators, skipLeft, skipSaved, robots, pass, due, faults, offering, changes>>
    BY <1>12 DEF Submit, registry, world
  <2>2. work' = [work EXCEPT ![s] = Advanced(s, TRUE)] /\ GoodTask(s, Advanced(s, TRUE)) /\ p \in Pages(s)
    BY <1>12, <2>1, Advancing DEF Submit
  <2>3. p \in Offerable
    BY <2>1 DEF TypeOK
  <2>4. offer' = [offer EXCEPT ![p] = "live"] /\ age' = [age EXCEPT ![p] = 0]
    BY <1>12 DEF Submit
  <2>5. 0 \in 0 .. Ttl + 1
    BY FreshnessAssumption
  <2>6. OwnOnly(s)
    BY <2>1, <2>2, <2>3, <2>4, <2>5, FaultTyped DEF OwnOnly, TypeOK, SameMarks
  <2>7. pass
    BY <2>1 DEF TasksOK
  <2>8. s \in Websites => skipLeft'[s] = 0
    BY <1>3, <2>1
  <2> QED BY <2>2, <2>6, <2>7, <2>8 DEF Stepped
<1>13. CASE Close(s)
  <2>1. /\ work[s].at = "close" /\ work' = [work EXCEPT ![s] = Idle]
        /\ UNCHANGED <<offer, age, skipSaved, robots, pass, due, faults, offering, changes>>
    BY <1>13 DEF Close, backend, world
  <2>2. skipLeft' \in [Websites -> 0 .. EmptySkip] /\ \A t \in Websites \ {s} : skipLeft'[t] = skipLeft[t]
    <3>1. 0 \in 0 .. EmptySkip /\ EmptySkip \in 0 .. EmptySkip
      BY CrawlAssumption
    <3> QED BY <1>13, <3>1 DEF Close, Record, TypeOK
  <2>3. SameMarks(s) /\ validators' \subseteq Tagged \cup {HomeOf[t] : t \in Channels}
    <3>1. CASE s \in Channels
      <4>1. Pages(s) = {HomeOf[s]}
        BY <3>1, PageOfChannel
      <4>2. validators' \in {validators, validators \cup {HomeOf[s]}, validators \ {HomeOf[s]}}
        BY <1>13, <3>1 DEF Close, Toggled
      <4> QED BY <3>1, <4>1, <4>2 DEF SameMarks, TypeOK
    <3>2. CASE s \notin Channels
      BY <1>13, <3>2 DEF Close, SameMarks, TypeOK
    <3> QED BY <3>1, <3>2
  <2>4. OwnOnly(s)
    BY <2>1, <2>2, <2>3, FaultTyped DEF OwnOnly, TypeOK
  <2>5. pass
    BY <2>1 DEF TasksOK
  <2> QED BY <2>1, <2>4, <2>5, IdleIsGood DEF Stepped
<1> QED BY <1>4, <1>5, <1>6, <1>7, <1>8, <1>9, <1>10, <1>11, <1>12, <1>13 DEF Task

LEMMA SteppedTypes ==
    ASSUME TypeOK, TasksOK, NEW s \in Sources, NEW w, Stepped(s, w)
    PROVE  TypeOK' /\ TasksOK'
<1>1. /\ work' = [work EXCEPT ![s] = w] /\ GoodTask(s, w) /\ OwnOnly(s) /\ pass
      /\ work \in [Sources -> TaskState] /\ w \in TaskState
  BY DEF Stepped, TasksOK, GoodTask
<1>2. work' \in [Sources -> TaskState] /\ work'[s] = w /\ \A t \in Sources \ {s} : work'[t] = work[t]
  BY <1>1
<1>3. ASSUME NEW t \in Sources
      PROVE  /\ work'[t].at \in Stages /\ work'[t].got \in BOOLEAN /\ work'[t].todo \in Seq(Page)
             /\ work'[t].at \in {"fetch", "submit"} => work'[t].todo # <<>>
             /\ work'[t].at = "submit" => Head(work'[t].todo) \in Offerable
             /\ ToSet(work'[t].todo) \subseteq Pages(t)
             /\ work'[t].at = "close" => work'[t].todo = <<>>
  <2>1. CASE t = s
    BY <1>1, <1>2, <2>1 DEF GoodTask, TaskState
  <2>2. CASE t # s
    BY <1>2, <2>2 DEF TypeOK, TasksOK
  <2> QED BY <2>1, <2>2
<1>4. TypeOK'
  BY <1>1, <1>3 DEF OwnOnly, TypeOK
<1>5. ASSUME NEW t \in Websites PROVE work'[t].at \notin {"out", "queued"} => skipLeft'[t] = 0
  <2>1. CASE t = s
    BY <1>2, <2>1 DEF Stepped
  <2>2. CASE t # s
    <3>1. t \in Sources
      BY DEF Sources
    <3> QED BY <1>1, <1>2, <2>2, <3>1 DEF TasksOK, OwnOnly
  <2> QED BY <2>1, <2>2
<1>6. TasksOK'
  BY <1>1, <1>2, <1>3, <1>5 DEF TasksOK, OwnOnly
<1> QED BY <1>4, <1>6

\* A fault more is a longer delay.
LEMMA DelayNext ==
    ASSUME TypeOK, faults' \in {faults, faults + 1}
    PROVE  /\ Delay(faults) \in Nat /\ EmptySkip \in Nat /\ faults \in Nat
           /\ Delay(faults) <= Delay(faults')
           /\ RobotsTtl \in Nat \ {0}
           /\ faults' = faults + 1 => Delay(faults') = Delay(faults) + EmptySkip + RobotsTtl
<1>1. faults \in Nat /\ EmptySkip \in Nat
  BY CrawlAssumption DEF TypeOK
<1> QED BY <1>1, DelayGrows

\* The other sources do not notice a step of s.
LEMMA Undisturbed ==
    ASSUME TypeOK, TasksOK, NEW s \in Sources, NEW w, Stepped(s, w), NEW t \in Sources \ {s}
    PROVE  /\ t \in Websites /\ SiteInTime(t) => SiteInTime(t)'
           /\ t \in Channels /\ ChannelInTime(t) => ChannelInTime(t)'
<1>1. work'[t] = work[t] /\ UNCHANGED <<offering, pass, due>> /\ OwnOnly(s)
  BY DEF Stepped, OwnOnly, TasksOK
<1>2. Open(t)' = Open(t) /\ Open(t) \in Nat
  BY <1>1 DEF Open
<1>3. ASSUME NEW p \in Kept(t)'
      PROVE  p \in Kept(t) /\ age'[p] = age[p] /\ (p \in validators' <=> p \in validators)
  <2>1. p \in Reached(t) /\ p \in offering /\ p \notin Tagged /\ offer'[p] = "live"
    BY <1>1, <1>3 DEF Kept
  <2>2. p \in Offerable /\ p \in Pages(t) /\ p \notin Pages(s)
    BY <2>1, PagesOf DEF TypeOK
  <2>3. offer'[p] = offer[p] /\ age'[p] = age[p]
    BY <1>1, <2>2 DEF OwnOnly
  <2>4. p \in validators' <=> p \in validators
    BY <1>1, <2>1, <2>2 DEF OwnOnly, SameMarks
  <2> QED BY <2>1, <2>3, <2>4 DEF Kept
<1>4. Delay(faults) \in Nat /\ EmptySkip \in Nat /\ faults \in Nat /\ Delay(faults) <= Delay(faults')
      /\ faults <= faults' /\ faults' \in Nat /\ Delay(faults') \in Nat
  <2>1. faults' \in {faults, faults + 1} /\ faults' \in Nat
    BY <1>1 DEF OwnOnly
  <2> QED BY <2>1, DelayNext, DelayGrows
<1>5. ASSUME t \in Websites, SiteInTime(t) PROVE SiteInTime(t)'
  <2> SUFFICES ASSUME NEW p \in Kept(t)'
               PROVE  /\ age'[p] + skipLeft'[t] <= Delay(faults') + Open(t)'
                      /\ work'[t].at \in {"fetch", "submit", "close"} =>
                            \/ p \in ToSet(work'[t].todo)
                            \/ work'[t].got /\ age'[p] = 0
                            \/ age'[p] + EmptySkip <= Delay(faults')
    BY DEF SiteInTime
  <2>1. p \in Kept(t) /\ age'[p] = age[p] /\ skipLeft'[t] = skipLeft[t]
    BY <1>1, <1>3, <1>5 DEF OwnOnly
  <2>2. age[p] \in Nat /\ skipLeft[t] \in Nat
    BY <1>5, <2>1, KeptFacts DEF TypeOK
  <2>3. age[p] + skipLeft[t] <= Delay(faults) + Open(t)
    BY <1>5, <2>1 DEF SiteInTime
  <2>4. age'[p] + skipLeft'[t] <= Delay(faults') + Open(t)'
    BY <1>2, <1>4, <2>1, <2>2, <2>3
  <2>5. work[t].at \in {"fetch", "submit", "close"} =>
            \/ p \in ToSet(work[t].todo)
            \/ work[t].got /\ age[p] = 0
            \/ age[p] + EmptySkip <= Delay(faults)
    BY <1>5, <2>1 DEF SiteInTime
  <2>6. age[p] + EmptySkip <= Delay(faults) => age[p] + EmptySkip <= Delay(faults')
    BY <1>4, <2>2
  <2> QED BY <1>1, <2>1, <2>4, <2>5, <2>6
<1>6. ASSUME t \in Channels, ChannelInTime(t) PROVE ChannelInTime(t)'
  <2> SUFFICES ASSUME NEW p \in Kept(t)'
               PROVE  /\ age'[p] + (IF p \in validators' THEN 1 ELSE 0) <= faults' + 1 + Open(t)'
                      /\ work'[t].at = "close" => age'[p] = 0 \/ p \in validators'
    BY DEF ChannelInTime
  <2>1. p \in Kept(t) /\ age'[p] = age[p] /\ (p \in validators' <=> p \in validators)
    BY <1>3
  <2>2. age[p] \in Nat
    BY <2>1, KeptFacts
  <2>3. age[p] + (IF p \in validators THEN 1 ELSE 0) <= faults + 1 + Open(t)
    BY <1>6, <2>1 DEF ChannelInTime
  <2>4. age'[p] + (IF p \in validators' THEN 1 ELSE 0) <= faults' + 1 + Open(t)'
    BY <1>2, <1>4, <2>1, <2>2, <2>3
  <2> QED BY <1>1, <1>6, <2>1, <2>4 DEF ChannelInTime
<1> QED BY <1>5, <1>6

-----------------------------------------------------------------------------
(* A source and its own step.                                              *)

\* What is known of an offer before a step of its source.
LEMMA OwnKept ==
    ASSUME IInv, NEW s \in Websites, work[s].at # "out", NEW p \in Kept(s)
    PROVE  /\ age[p] \in Nat /\ skipLeft[s] \in Nat /\ s \in Sources /\ p \notin validators
           /\ age[p] + skipLeft[s] <= Delay(faults) + 1
           /\ work[s].at # "queued" => age[p] <= Delay(faults) + 1
           /\ work[s].at \in {"fetch", "submit", "close"} =>
                 \/ p \in ToSet(work[s].todo)
                 \/ work[s].got /\ age[p] = 0
                 \/ age[p] + EmptySkip <= Delay(faults)
<1>1. s \in Sources
  BY DEF Sources
<1>2. age[p] \in Nat /\ p \notin validators /\ skipLeft[s] \in Nat
  BY <1>1, KeptFacts DEF IInv, TypeOK
<1>3. SiteInTime(s)
  BY DEF IInv, InTime
<1>4. Open(s) = 1
  BY <1>1 DEF IInv, TasksOK, Open
<1>5. age[p] + skipLeft[s] <= Delay(faults) + 1
  BY <1>3, <1>4 DEF SiteInTime
<1>6. work[s].at # "queued" => skipLeft[s] = 0
  BY DEF IInv, TasksOK
<1>7. work[s].at # "queued" => age[p] <= Delay(faults) + 1
  BY <1>2, <1>5, <1>6
<1> QED BY <1>1, <1>2, <1>3, <1>5, <1>7 DEF SiteInTime

\* What a page of the plan still to be read is worth.
LEMMA Passing ==
    ASSUME IInv, NEW s \in Sources, work[s].at \in {"fetch", "submit"}
    PROVE  \A x \in ToSet(work[s].todo) : x = Head(work[s].todo) \/ x \in ToSet(Tail(work[s].todo))
BY HeadAndTail DEF IInv, TypeOK

LEMMA OwnSite ==
    ASSUME IInv, NEW s \in Websites, Task(s)
    PROVE  SiteInTime(s)'
<1> USE DEF IInv
<1>1. s \in Sources /\ work[s] \in TaskState /\ work \in [Sources -> TaskState] /\ s \notin Channels
  BY CrawlAssumption DEF TasksOK, Sources
<1>2. PICK w : Stepped(s, w)
  BY <1>1, TaskStep
<1>3. work'[s] = w /\ pass /\ UNCHANGED <<offering, pass, due>> /\ faults' \in {faults, faults + 1}
  BY <1>1, <1>2 DEF Stepped, OwnOnly
<1>4. /\ Delay(faults) \in Nat /\ EmptySkip \in Nat /\ Delay(faults) <= Delay(faults')
      /\ faults' = faults + 1 => Delay(faults') >= Delay(faults) + EmptySkip + 1
      /\ faults' \in Nat /\ Delay(faults') \in Nat
  <2>1. faults' \in Nat
    BY <1>2 DEF Stepped, OwnOnly
  <2> QED BY <1>3, <2>1, DelayNext, DelayGrows
<1>5. Open(s)' = IF w.at # "out" THEN 1 ELSE 0
  BY <1>3 DEF Open, TasksOK
<1>6. work[s].at # "out" /\ Fault => faults' = faults + 1
  BY DEF Fault
<1>7. SUFFICES ASSUME NEW p \in Kept(s)'
               PROVE  /\ age'[p] + skipLeft'[s] <= Delay(faults') + Open(s)'
                      /\ w.at \in {"fetch", "submit", "close"} =>
                            \/ p \in ToSet(w.todo)
                            \/ w.got /\ age'[p] = 0
                            \/ age'[p] + EmptySkip <= Delay(faults')
  BY <1>3 DEF SiteInTime
<1>8. p \in Reached(s) /\ p \in offering /\ p \notin Tagged /\ offer'[p] = "live"
  BY <1>3 DEF Kept
<1>9. UNCHANGED offer => p \in Kept(s)
  BY <1>8 DEF Kept
<1>10. CASE Skip(s)
  <2>1. /\ UNCHANGED <<offer, age, faults>> /\ skipLeft'[s] = skipLeft[s] - 1 /\ w.at = "out"
        /\ work[s].at # "out"
    BY <1>1, <1>3, <1>10, IdleIsGood DEF Skip, backend, TypeOK
  <2> QED BY <1>4, <1>5, <1>9, <2>1, OwnKept
<1>11. CASE Begin(s)
  <2>1. UNCHANGED <<offer, age, skipLeft, faults>> /\ w.at = "walk" /\ work[s].at # "out"
    BY <1>1, <1>3, <1>11 DEF Begin, Moved, backend, registry
  <2> QED BY <1>4, <1>5, <1>9, <2>1, OwnKept
<1>12. CASE PlanPages(s)
  <2>1. PICK failed \in Failures :
          /\ work' = Planned(s, Plan[s][failed][Gone(s, failed)])
          /\ IF failed = {} THEN UNCHANGED faults ELSE s \in Websites /\ Fault
    BY <1>12 DEF PlanPages
  <2>2. UNCHANGED <<offer, age, skipLeft>> /\ work[s].at = "walk" /\ skipLeft[s] = 0
    BY <1>12 DEF PlanPages, backend, registry, TasksOK
  <2>3. w.todo = Plan[s][failed][Gone(s, failed)] /\ w.at # "out"
    BY <1>1, <1>3, <2>1 DEF Planned, Moved, Proceed
  <2>4. p \in Kept(s) /\ age[p] \in Nat /\ age[p] <= Delay(faults) + 1
    BY <1>9, <2>2, OwnKept
  <2>5. CASE failed = {} /\ ~Gone(s, failed)
    <3>1. Gone(s, failed) = FALSE /\ faults' = faults
      BY <2>1, <2>5 DEF Gone
    <3>2. w.todo = Plan[s][{}][FALSE]
      BY <2>3, <2>5, <3>1
    <3>3. p \in ToSet(w.todo)
      BY <1>8, <3>2 DEF Reached
    <3> QED BY <1>4, <1>5, <2>2, <2>3, <2>4, <3>1, <3>3
  <2>6. CASE failed = {} /\ Gone(s, failed)
    <3>1. robots[s].lost /\ robots[s].left > 0 /\ faults' = faults
      BY <2>1, <2>6 DEF Gone, Looked
    <3>2. age[p] + robots[s].left + EmptySkip <= Delay(faults) + 1
      BY <2>4, <3>1 DEF RobotsPaid, RobotsInTime, Paid
    <3>3. robots[s].left \in Nat
      BY <1>4 DEF TypeOK, Entry
    <3>4. age[p] + EmptySkip <= Delay(faults)
      BY <1>4, <2>4, <3>1, <3>2, <3>3
    <3> QED BY <1>4, <1>5, <2>2, <2>3, <2>4, <3>1, <3>4
  <2>7. CASE failed # {}
    <3>1. faults' = faults + 1
      BY <2>1, <2>7 DEF Fault
    <3> QED BY <1>4, <1>5, <2>2, <2>3, <2>4, <3>1
  <2> QED BY <2>5, <2>6, <2>7
<1>13. CASE Fail(s)
  <2>1. /\ UNCHANGED <<offer, age, skipLeft>> /\ w.at = "out" /\ faults' = faults + 1
        /\ work[s].at \in {"walk", "close"} /\ skipLeft[s] = 0
    BY <1>1, <1>3, <1>13, IdleIsGood DEF Fail, Fault, backend, registry, TasksOK
  <2> QED BY <1>4, <1>5, <1>9, <2>1, OwnKept
\* A page is passed by, for nothing or at the price of a fault.
<1>14. ASSUME work[s].at \in {"fetch", "submit"}, work' = NextPage(s, work[s].got),
              UNCHANGED <<offer, age, skipLeft>>, p # Head(work[s].todo) \/ faults' = faults + 1
       PROVE  /\ age'[p] + skipLeft'[s] <= Delay(faults') + Open(s)'
              /\ w.at \in {"fetch", "submit", "close"} =>
                    \/ p \in ToSet(w.todo)
                    \/ w.got /\ age'[p] = 0
                    \/ age'[p] + EmptySkip <= Delay(faults')
  <2>1. w = Advanced(s, work[s].got)
    BY <1>1, <1>3, <1>14, Advancing DEF TaskState
  <2>2. w.at # "out" /\ w.todo = Tail(work[s].todo) /\ w.got = work[s].got
    BY <2>1 DEF Advanced, Proceed
  <2>3. /\ p \in Kept(s) /\ age[p] \in Nat /\ age[p] <= Delay(faults) + 1 /\ skipLeft[s] = 0
        /\ \/ p \in ToSet(work[s].todo)
           \/ work[s].got /\ age[p] = 0
           \/ age[p] + EmptySkip <= Delay(faults)
    BY <1>9, <1>14, OwnKept DEF TasksOK
  <2>4. age'[p] + skipLeft'[s] <= Delay(faults') + Open(s)'
    BY <1>4, <1>5, <1>14, <2>2, <2>3
  <2>5. CASE faults' = faults + 1
    BY <1>4, <1>14, <2>3, <2>4, <2>5
  <2>6. CASE p # Head(work[s].todo)
    <3>1. p \in ToSet(work[s].todo) => p \in ToSet(w.todo)
      BY <1>1, <1>14, <2>2, <2>6, Passing
    <3>2. age[p] + EmptySkip <= Delay(faults) => age[p] + EmptySkip <= Delay(faults')
      BY <1>4, <2>3
    <3> QED BY <1>14, <2>2, <2>3, <2>4, <3>1, <3>2
  <2> QED BY <1>14, <2>5, <2>6
<1>15. CASE FetchUnchanged(s)
  <2>1. /\ UNCHANGED <<offer, age, skipLeft>> /\ work[s].at = "fetch" /\ work' = NextPage(s, work[s].got)
        /\ Head(work[s].todo) \in validators
    BY <1>15 DEF FetchUnchanged, backend, registry
  <2>2. p # Head(work[s].todo)
    BY <1>9, <2>1, OwnKept
  <2> QED BY <1>14, <2>1, <2>2
<1>16. CASE FetchFails(s)
  <2>1. /\ UNCHANGED <<offer, age, skipLeft>> /\ work[s].at = "fetch" /\ work' = NextPage(s, work[s].got)
        /\ faults' = faults + 1
    BY <1>16 DEF FetchFails, Fault, backend, registry
  <2> QED BY <1>14, <2>1
<1>17. CASE FetchPage(s)
  <2>1. UNCHANGED <<offer, age, skipLeft, faults>> /\ work[s].at = "fetch"
    BY <1>17 DEF FetchPage, backend, registry
  <2>2. CASE Head(work[s].todo) \in offering
    <3>1. w.at = "submit" /\ w.todo = work[s].todo /\ w.got = work[s].got
      BY <1>1, <1>3, <1>17, <2>2 DEF FetchPage, Moved
    <3> QED BY <1>4, <1>5, <1>9, <2>1, <3>1, OwnKept DEF TasksOK
  <2>3. CASE Head(work[s].todo) \notin offering
    <3>1. work' = NextPage(s, work[s].got)
      BY <1>17, <2>3 DEF FetchPage
    <3> QED BY <1>8, <1>14, <2>1, <2>3, <3>1
  <2> QED BY <2>2, <2>3
<1>18. CASE Submit(s)
  <2> DEFINE q == Head(work[s].todo)
  <2>1. /\ UNCHANGED <<skipLeft, faults>> /\ work[s].at = "submit" /\ w = Advanced(s, TRUE)
        /\ offer' = [offer EXCEPT ![q] = "live"] /\ age' = [age EXCEPT ![q] = 0] /\ q \in Offerable
        /\ skipLeft[s] = 0
    BY <1>1, <1>3, <1>18, Advancing DEF Submit, registry, TypeOK, TasksOK
  <2>2. w.at # "out" /\ w.todo = Tail(work[s].todo) /\ w.got = TRUE
    BY <2>1 DEF Advanced, Proceed
  <2>3. CASE p = q
    <3>1. age'[p] = 0
      BY <2>1, <2>3 DEF TypeOK
    <3>2. age'[p] + skipLeft'[s] <= Delay(faults') + Open(s)'
      BY <1>4, <1>5, <2>1, <2>2, <3>1
    <3> QED BY <2>2, <3>1, <3>2
  <2>4. CASE p # q
    <3>1. p \in Offerable /\ offer'[p] = offer[p] /\ age'[p] = age[p]
      BY <1>8, <2>1, <2>4 DEF TypeOK
    <3>2. p \in Kept(s)
      BY <1>8, <3>1 DEF Kept
    <3>3. p \in ToSet(work[s].todo) => p \in ToSet(w.todo)
      BY <1>1, <2>1, <2>2, <2>4, Passing
    <3> QED BY <1>4, <1>5, <2>1, <2>2, <3>1, <3>2, <3>3, OwnKept
  <2> QED BY <2>3, <2>4
<1>19. CASE SubmitFails(s)
  <2>1. /\ UNCHANGED <<offer, age, skipLeft>> /\ work[s].at = "submit" /\ work' = NextPage(s, work[s].got)
        /\ offer[Head(work[s].todo)] = "expired" \/ faults' = faults + 1
    BY <1>19 DEF SubmitFails, Fault, backend, registry
  <2>2. p # Head(work[s].todo) \/ faults' = faults + 1
    BY <1>8, <2>1
  <2> QED BY <1>14, <2>1, <2>2
<1>20. CASE Close(s)
  <2>1. UNCHANGED <<offer, age, faults>> /\ work[s].at = "close" /\ work[s].todo = <<>> /\ w.at = "out"
    BY <1>1, <1>3, <1>20, IdleIsGood DEF Close, backend, TasksOK
  <2>2. skipLeft'[s] = IF work[s].got THEN 0 ELSE EmptySkip
    BY <1>20 DEF Close, Record, TypeOK
  <2>3. p \notin ToSet(work[s].todo)
    BY <2>1 DEF ToSet
  <2>4. /\ age[p] \in Nat
        /\ \/ work[s].got /\ age[p] = 0
           \/ age[p] + EmptySkip <= Delay(faults)
    BY <1>9, <2>1, <2>3, OwnKept
  <2> QED BY <1>4, <1>5, <2>1, <2>2, <2>4
<1> QED BY <1>10, <1>11, <1>12, <1>13, <1>15, <1>16, <1>17, <1>18, <1>19, <1>20 DEF Task

LEMMA OwnChannel ==
    ASSUME IInv, NEW s \in Channels \ OnePost, Task(s)
    PROVE  ChannelInTime(s)'
<1> USE DEF IInv
<1>1. s \in Sources /\ work[s] \in TaskState /\ work \in [Sources -> TaskState] /\ s \notin Websites
  BY PageOfChannel DEF TasksOK
<1>2. PICK w : Stepped(s, w)
  BY <1>1, TaskStep
<1>3. work'[s] = w /\ pass /\ UNCHANGED <<offering, pass, due>> /\ faults' \in {faults, faults + 1}
  BY <1>1, <1>2 DEF Stepped, OwnOnly
<1>4. faults \in Nat /\ faults' \in Nat
  BY <1>3, CrawlAssumption DEF TypeOK
<1>5. Open(s)' = IF w.at # "out" THEN 1 ELSE 0
  BY <1>3 DEF Open, TasksOK
<1>6. SUFFICES ASSUME NEW p \in Kept(s)'
               PROVE  /\ age'[p] + (IF p \in validators' THEN 1 ELSE 0) <= faults' + 1 + Open(s)'
                      /\ w.at = "close" => age'[p] = 0 \/ p \in validators'
  BY <1>3 DEF ChannelInTime
<1>7. p = HomeOf[s] /\ p \in offering /\ p \notin Tagged /\ offer'[p] = "live" /\ p \in Offerable
  BY <1>3, PageOfChannel DEF Kept, TypeOK
<1>8. ASSUME work[s].at \in {"fetch", "submit"} PROVE Head(work[s].todo) = p
  BY <1>1, <1>7, <1>8, Advancing, PageOfChannel
\* What is known of the offer before the step.
<1>9. ASSUME UNCHANGED <<offer, age>>, work[s].at # "out"
      PROVE  /\ age[p] \in Nat
             /\ age[p] + (IF p \in validators THEN 1 ELSE 0) <= faults + 2
             /\ work[s].at = "close" => age[p] = 0 \/ p \in validators
  <2>1. p \in Kept(s)
    BY <1>7, <1>9, PageOfChannel DEF Kept
  <2>2. ChannelInTime(s) /\ Open(s) = 1
    BY <1>1, <1>9 DEF InTime, Open, TasksOK
  <2> QED BY <1>1, <1>4, <2>1, <2>2, KeptFacts DEF ChannelInTime
<1>10. CASE Skip(s)
  BY <1>1, <1>10 DEF Skip, TakeSkip
<1>11. CASE Begin(s) \/ PlanPages(s)
  <2>1. UNCHANGED <<validators, offer, age, faults>> /\ work[s].at # "out"
    BY <1>1, <1>11 DEF Begin, PlanPages, backend
  <2>2. w.at \notin {"out", "close"}
    <3>1. CASE Begin(s)
      BY <1>1, <1>3, <3>1 DEF Begin, Moved
    <3>2. CASE PlanPages(s)
      <4>1. work' = Planned(s, <<HomeOf[s]>>)
        BY <1>1, <3>2 DEF PlanPages, Plan, Gone
      <4>2. <<HomeOf[s]>> # <<>>
        OBVIOUS
      <4> QED BY <1>1, <1>3, <4>1, <4>2 DEF Planned, Moved, Proceed
    <3> QED BY <1>11, <3>1, <3>2
  <2> QED BY <1>4, <1>5, <1>9, <2>1, <2>2
<1>12. CASE Fail(s) \/ FetchFails(s)
  <2>1. UNCHANGED <<validators, offer, age>> /\ work[s].at # "out" /\ w.at = "out" /\ faults' = faults + 1
    BY <1>1, <1>3, <1>12, IdleIsGood DEF Fail, FetchFails, Marked, Fault, backend
  <2> QED BY <1>4, <1>5, <1>9, <2>1
<1>13. CASE FetchUnchanged(s)
  <2>1. UNCHANGED <<validators, offer, age, faults>> /\ work[s].at = "fetch" /\ p \in validators
    BY <1>8, <1>13 DEF FetchUnchanged, backend
  <2>2. w.at # "out"
    BY <1>1, <1>3, <1>13 DEF FetchUnchanged, NextPage, Moved, Proceed
  <2> QED BY <1>4, <1>5, <1>9, <2>1, <2>2
<1>14. CASE FetchPage(s)
  <2>1. UNCHANGED <<offer, age, faults>> /\ work[s].at = "fetch" /\ validators' = validators
    BY <1>1, <1>14 DEF FetchPage, Marked, backend
  <2>2. w.at = "submit"
    BY <1>1, <1>3, <1>7, <1>8, <1>14, <2>1 DEF FetchPage, Moved
  <2> QED BY <1>4, <1>5, <1>9, <2>1, <2>2
<1>15. CASE Submit(s)
  <2>1. age' = [age EXCEPT ![p] = 0] /\ UNCHANGED <<validators, faults>>
    BY <1>8, <1>15 DEF Submit
  <2>2. age'[p] = 0 /\ Open(s)' \in Nat
    BY <1>5, <1>7, <2>1 DEF TypeOK
  <2> QED BY <1>4, <2>1, <2>2
<1>16. CASE SubmitFails(s)
  <2>1. UNCHANGED <<validators, offer, age>> /\ work[s].at = "submit" /\ w.at = "out"
    BY <1>1, <1>3, <1>16, IdleIsGood DEF SubmitFails, backend
  <2>2. faults' = faults + 1
    BY <1>7, <1>8, <1>16, <2>1 DEF SubmitFails, Fault
  <2> QED BY <1>4, <1>5, <1>9, <2>1, <2>2
<1>17. CASE Close(s)
  <2>1. UNCHANGED <<offer, age, faults>> /\ work[s].at = "close" /\ w.at = "out"
    BY <1>1, <1>3, <1>17, IdleIsGood DEF Close, backend
  <2>2. p \in validators' <=> p \notin validators
    BY <1>7, <1>17 DEF Close, Toggled
  <2> QED BY <1>4, <1>5, <1>9, <2>1, <2>2
<1> QED BY <1>10, <1>11, <1>12, <1>13, <1>14, <1>15, <1>16, <1>17 DEF Task

-----------------------------------------------------------------------------
(* A lost robots.txt and what it costs.                                    *)

LEMMA EntryFacts ==
    ASSUME TypeOK, NEW s \in Websites
    PROVE  /\ robots[s].left \in Nat /\ robots[s].left <= RobotsTtl
           /\ robots[s].lost => robots[s].left > 0
BY CrawlAssumption DEF TypeOK, Entry

\* It stays paid for while offers are no older, and once it is read again.
LEMMA PaidKept ==
    ASSUME TypeOK, NEW s \in Websites, RobotsInTime(s), faults' \in {faults, faults + 1},
           robots'[s] = robots[s] \/ ~robots'[s].lost,
           \A p \in Kept(s)' : age'[p] = 0 \/ (p \in Kept(s) /\ age'[p] = age[p])
    PROVE  RobotsInTime(s)'
<1>1. CASE ~robots'[s].lost
  BY <1>1 DEF RobotsInTime, Paid
<1>2. CASE robots'[s] = robots[s] /\ robots[s].lost
  <2>1. /\ faults \in Nat /\ EmptySkip \in Nat /\ Delay(faults) \in Nat
        /\ Delay(faults) <= Delay(faults') /\ Delay(faults') \in Nat
    <3>1. faults + 1 \in Nat
      BY DelayNext
    <3> QED
      BY <3>1, DelayNext, DelayGrows
  <2>2. robots[s].left \in Nat
    BY EntryFacts
  <2>3. ASSUME NEW a \in Nat, Paid(a, robots[s], faults) PROVE Paid(a, robots'[s], faults')
    BY <1>2, <2>1, <2>2, <2>3 DEF Paid
  <2>4. Paid(0, robots'[s], faults')
    BY <2>3 DEF RobotsInTime
  <2>5. ASSUME NEW p \in Kept(s)' PROVE Paid(age'[p], robots'[s], faults')
    <3>1. CASE age'[p] = 0
      BY <2>4, <3>1
    <3>2. CASE p \in Kept(s) /\ age'[p] = age[p]
      <4>1. age[p] \in Nat
        BY <3>2, KeptFacts DEF Sources
      <4> QED
        BY <2>3, <3>2, <4>1 DEF RobotsInTime
    <3> QED
      BY <2>5, <3>1, <3>2
  <2> QED
    BY <2>4, <2>5 DEF RobotsInTime
<1> QED
  BY <1>1, <1>2

\* The fault that loses it pays for it.
LEMMA PaidAnew ==
    ASSUME TypeOK, NEW s \in Websites, faults' = faults + 1, robots'[s].left = RobotsTtl,
           \A p \in Kept(s)' : p \in Kept(s) /\ age'[p] = age[p] /\ age[p] <= Delay(faults) + 1
    PROVE  RobotsInTime(s)'
<1>1. /\ faults \in Nat /\ EmptySkip \in Nat /\ RobotsTtl \in Nat /\ Delay(faults) \in Nat
      /\ Delay(faults') = Delay(faults) + EmptySkip + RobotsTtl
  BY DelayNext
<1>2. ASSUME NEW a \in Nat, a <= Delay(faults) + 1 PROVE Paid(a, robots'[s], faults')
  BY <1>1, <1>2 DEF Paid
<1>3. Paid(0, robots'[s], faults')
  BY <1>1, <1>2
<1>4. ASSUME NEW p \in Kept(s)' PROVE Paid(age'[p], robots'[s], faults')
  <2>1. age[p] \in Nat
    BY <1>4, KeptFacts DEF Sources
  <2> QED
    BY <1>2, <1>4, <2>1
<1> QED
  BY <1>3, <1>4 DEF RobotsInTime

\* A walk, or a task that fails after its walk.
LEMMA WalkPaid ==
    ASSUME IInv, NEW s \in Websites, work[s].at = "walk", NEW failed \in Failures,
           robots' = Cached(s, failed), UNCHANGED <<offer, age, offering>>,
           faults' = faults + 1 \/ (failed = {} /\ faults' = faults)
    PROVE  RobotsInTime(s)'
<1>1. TypeOK /\ s \in Sources /\ RobotsInTime(s)
  BY DEF IInv, Sources, RobotsPaid
<1>0. offer' = offer /\ age' = age /\ offering' = offering
  OBVIOUS
<1>2. Kept(s)' = Kept(s) /\ \A p : age'[p] = age[p]
  BY <1>0 DEF Kept, Reached
<1>3. robots'[s] = Looked(s, failed)
  BY <1>1, CacheTyped
<1>4. CASE robots[s].left > 0 \/ failed = {}
  <2>1. CASE robots[s].left > 0
    BY <1>1, <1>2, <1>3, <2>1, PaidKept DEF Looked
  <2>2. CASE ~(robots[s].left > 0)
    <3>1. robots'[s].lost = (RobotsOf[HomeOf[s]] \in failed)
      BY <1>3, <2>2 DEF Looked
    <3>2. ~robots'[s].lost
      BY <1>4, <2>2, <3>1
    <3> QED
      BY <1>1, <1>2, <3>2, PaidKept
  <2> QED
    BY <2>1, <2>2
<1>5. CASE ~(robots[s].left > 0) /\ failed # {}
  <2>1. robots'[s].left = RobotsTtl /\ faults' = faults + 1
    BY <1>3, <1>5 DEF Looked
  <2>2. \A p \in Kept(s) : age[p] <= Delay(faults) + 1
    BY OwnKept
  <2> QED
    BY <1>1, <1>2, <2>1, <2>2, PaidAnew
<1> QED
  BY <1>4, <1>5

LEMMA TaskPaid ==
    ASSUME IInv, NEW s \in Sources, Task(s)
    PROVE  RobotsPaid'
<1>1. TypeOK /\ TasksOK
  BY DEF IInv
<1>2. PICK w : Stepped(s, w)
  BY <1>1, TaskStep
<1>3. /\ UNCHANGED offering /\ faults' \in {faults, faults + 1}
      /\ \A t \in Websites \ {s} : robots'[t] = robots[t]
  BY <1>2 DEF Stepped, OwnOnly
<1>4. ASSUME NEW t \in Websites, NEW p \in Kept(t)'
      PROVE  age'[p] = 0 \/ (p \in Kept(t) /\ age'[p] = age[p])
  <2>1. /\ p \in Reached(t) /\ p \in offering /\ p \notin Tagged /\ offer'[p] = "live"
        /\ p \in Offerable
    BY <1>1, <1>3, <1>4 DEF Kept, Reached, TypeOK
  <2>2. CASE UNCHANGED <<offer, age>>
    BY <2>1, <2>2 DEF Kept
  <2>3. CASE Submit(s)
    <3>1. PICK q : q = Head(work[s].todo)
      OBVIOUS
    <3>2. offer' = [offer EXCEPT ![q] = "live"] /\ age' = [age EXCEPT ![q] = 0]
      BY <2>3, <3>1 DEF Submit
    <3>3. CASE p = q
      BY <1>1, <2>1, <3>2, <3>3 DEF TypeOK
    <3>4. CASE p # q
      <4>1. offer'[p] = offer[p] /\ age'[p] = age[p]
        BY <1>1, <2>1, <3>2, <3>4 DEF TypeOK
      <4> QED
        BY <2>1, <4>1 DEF Kept
    <3> QED
      BY <3>3, <3>4
  <2> QED
    BY <2>2, <2>3 DEF Task, Skip, Begin, PlanPages, Fail, FetchUnchanged, FetchFails, FetchPage,
                      SubmitFails, Close, backend
<1>5. ASSUME NEW t \in Websites, robots'[t] = robots[t] PROVE RobotsInTime(t)'
  <2>1. RobotsInTime(t)
    BY DEF IInv, RobotsPaid
  <2> QED
    BY <1>1, <1>3, <1>4, <1>5, <2>1, PaidKept
<1>6. ASSUME s \in Websites PROVE RobotsInTime(s)'
  <2>1. CASE UNCHANGED robots
    BY <1>5, <1>6, <2>1
  <2>2. CASE PlanPages(s)
    <3>1. PICK failed \in Failures :
            /\ robots' = Cached(s, failed)
            /\ IF failed = {} THEN UNCHANGED faults ELSE s \in Websites /\ Fault
      BY <2>2 DEF PlanPages
    <3>2. UNCHANGED <<offer, age, offering>> /\ work[s].at = "walk"
      BY <2>2 DEF PlanPages, backend, world
    <3> QED
      BY <1>6, <3>1, <3>2, WalkPaid DEF Fault
  <2>3. CASE Fail(s) /\ work[s].at = "walk"
    <3>1. PICK failed \in Failures : robots' = Cached(s, failed)
      BY <2>3 DEF Fail
    <3>2. UNCHANGED <<offer, age, offering>> /\ faults' = faults + 1
      BY <2>3 DEF Fail, backend, world, Fault
    <3> QED
      BY <1>6, <2>3, <3>1, <3>2, WalkPaid
  <2> QED
    BY <2>1, <2>2, <2>3 DEF Task, Skip, Begin, Fail, FetchUnchanged, FetchFails, FetchPage,
                      Submit, SubmitFails, Close
<1> QED
  BY <1>3, <1>5, <1>6 DEF RobotsPaid

LEMMA TaskKeeps ==
    ASSUME IInv, NEW s \in Sources, Task(s)
    PROVE  IInv'
<1>1. PICK w : Stepped(s, w)
  BY TaskStep DEF IInv
<1>2. TypeOK' /\ TasksOK'
  BY <1>1, SteppedTypes DEF IInv
<1>3. ASSUME NEW t \in Websites PROVE SiteInTime(t)'
  <2>1. t \in Sources /\ SiteInTime(t)
    BY DEF Sources, IInv, InTime
  <2> QED BY <1>1, <2>1, OwnSite, Undisturbed DEF IInv
<1>4. ASSUME NEW t \in Channels \ OnePost PROVE ChannelInTime(t)'
  <2>1. t \in Sources /\ ChannelInTime(t)
    BY DEF Sources, IInv, InTime
  <2> QED BY <1>1, <2>1, OwnChannel, Undisturbed DEF IInv
<1>5. UntaggedNeverExpires'
  <2>1. UNCHANGED offering /\ \A p \in Offerable : offer'[p] = "expired" => offer[p] = "expired"
    BY <1>1 DEF Stepped, OwnOnly
  <2> QED BY <2>1 DEF IInv, TypeOK, UntaggedNeverExpires
<1>6. RobotsPaid'
  BY TaskPaid
<1> QED BY <1>2, <1>3, <1>4, <1>5, <1>6 DEF IInv, InTime

-----------------------------------------------------------------------------
(* The pass as a whole, time, and the sites.                               *)

\* Every task is out, or every one stands in the queue.
LEMMA AllAtOnce ==
    ASSUME TypeOK, TasksOK, NEW at \in {"out", "queued"},
           work' = [s \in Sources |-> [Idle EXCEPT !.at = at]],
           pass' \in BOOLEAN, pass' => due', ~pass' => at = "out"
    PROVE  /\ TasksOK'
           /\ \A s \in Sources :
                 /\ work'[s].at = at /\ work'[s].got \in BOOLEAN /\ work'[s].todo \in Seq(Page)
<1> DEFINE w == [Idle EXCEPT !.at = at]
<1>0. Idle \in TaskState /\ Idle.todo = <<>> /\ Idle.got = FALSE /\ at \in Stages
  BY DEF Idle, TaskState, Stages
<1>1. /\ w \in TaskState /\ w.at = at /\ w.todo = <<>> /\ w.got \in BOOLEAN /\ w.todo \in Seq(Page)
      /\ ToSet(<<>>) = {}
  <2>1. w \in TaskState
    BY <1>0 DEF TaskState
  <2>2. w.at = at /\ w.todo = <<>> /\ w.got = FALSE
    BY <1>0 DEF TaskState
  <2>3. ToSet(<<>>) = {} /\ <<>> \in Seq(Page)
    BY DEF ToSet
  <2> QED BY <2>1, <2>2, <2>3
<1> HIDE DEF w
<1>2. work' = [s \in Sources |-> w]
  BY DEF w
<1>3. \A s \in Sources : work'[s] = w
  BY <1>2
<1>4. work' \in [Sources -> TaskState]
  BY <1>1, <1>2
<1>5. \A s \in Sources : /\ work'[s].at = at /\ work'[s].todo = <<>>
                         /\ ToSet(work'[s].todo) \subseteq Pages(s)
  BY <1>1, <1>3
<1>6. \A s \in Websites : work'[s].at \in {"out", "queued"}
  BY <1>5 DEF Sources
<1>7. TasksOK'
  <2>1. \A s \in Sources : ToSet(work'[s].todo) \subseteq Pages(s)'
    BY <1>5 DEF Pages, Plan
  <2> QED BY <1>4, <1>5, <1>6, <2>1 DEF TasksOK
<1> QED BY <1>1, <1>3, <1>5, <1>7

LEMMA Numbers ==
    ASSUME TypeOK
    PROVE  /\ faults \in Nat /\ Delay(faults) \in Nat /\ EmptySkip \in Nat /\ Ttl \in Nat
           /\ \A s \in Websites : skipLeft[s] \in Nat /\ skipSaved[s] \in 0 .. EmptySkip
           /\ \A s \in Sources : Open(s) \in {0, 1}
<1>1. faults \in Nat /\ EmptySkip \in Nat /\ Ttl \in Nat
  BY CrawlAssumption, FreshnessAssumption DEF TypeOK
<1>2. Delay(faults) \in Nat
  BY <1>1, DelayGrows
<1>3. \A s \in Websites : skipLeft[s] \in Nat /\ skipSaved[s] \in 0 .. EmptySkip
  BY <1>1 DEF TypeOK
<1> QED BY <1>1, <1>2, <1>3 DEF Open

LEMMA StartKeeps == IInv /\ StartPass => IInv'
<1> SUFFICES ASSUME IInv, StartPass PROVE IInv'
  OBVIOUS
<1> USE DEF IInv
<1>1. /\ ~pass /\ due /\ pass' = TRUE /\ due' = due
      /\ work' = [s \in Sources |-> [Idle EXCEPT !.at = "queued"]]
      /\ UNCHANGED <<validators, offer, age, skipLeft, skipSaved, robots, faults, offering, changes>>
  BY DEF StartPass, backend, registry, world
<1>2. TasksOK' /\ \A s \in Sources : /\ work'[s].at = "queued" /\ work'[s].got \in BOOLEAN
                                     /\ work'[s].todo \in Seq(Page)
  BY <1>1, AllAtOnce
<1>3. TypeOK'
  BY <1>1, <1>2 DEF TypeOK, Stages
<1>4. UntaggedNeverExpires'
  BY <1>1 DEF UntaggedNeverExpires, Reached
<1>5. \A s \in Sources : Open(s)' = Open(s) /\ Kept(s)' = Kept(s) /\ Delay(faults)' = Delay(faults)
  BY <1>1, <1>2 DEF Open, Kept, Reached, Delay
<1>6. ASSUME NEW s \in Websites PROVE SiteInTime(s)'
  <2>1. s \in Sources /\ SiteInTime(s)
    BY DEF Sources, InTime
  <2> QED BY <1>1, <1>2, <1>5, <2>1 DEF SiteInTime
<1>7. ASSUME NEW s \in Channels \ OnePost PROVE ChannelInTime(s)'
  <2>1. s \in Sources /\ ChannelInTime(s)
    BY DEF Sources, InTime
  <2> QED BY <1>1, <1>2, <1>5, <2>1 DEF ChannelInTime
<1>8. RobotsPaid'
  BY <1>1, <1>5 DEF RobotsPaid, RobotsInTime, Paid, Sources
<1> QED BY <1>2, <1>3, <1>4, <1>6, <1>7, <1>8 DEF InTime

\* When a pass is over, the faults so far bound the age of what is kept.
LEMMA AgeBounded ==
    ASSUME IInv, pass, \A s \in Sources : work[s].at = "out"
    PROVE  /\ \A s \in Websites : \A p \in Kept(s) : age[p] + skipLeft[s] <= Delay(faults)
           /\ \A s \in Channels \ OnePost : \A p \in Kept(s) :
                 age[p] + (IF p \in validators THEN 1 ELSE 0) <= faults + 1
           /\ \A s \in Sources \ OnePost : \A p \in Kept(s) : age[p] \in Nat /\ age[p] <= Ttl
<1> USE DEF IInv
<1>1. \A s \in Sources : Open(s) = 0
  BY DEF Open
<1>2. ASSUME NEW s \in Websites, NEW p \in Kept(s) PROVE age[p] + skipLeft[s] <= Delay(faults)
  <2>1. s \in Sources /\ SiteInTime(s) /\ Open(s) = 0
    BY <1>1 DEF Sources, InTime
  <2> QED BY <2>1, Numbers DEF SiteInTime
<1>3. ASSUME NEW s \in Channels \ OnePost, NEW p \in Kept(s)
      PROVE  age[p] + (IF p \in validators THEN 1 ELSE 0) <= faults + 1
  <2>1. s \in Sources /\ ChannelInTime(s) /\ Open(s) = 0
    BY <1>1 DEF Sources, InTime
  <2> QED BY <2>1, Numbers DEF ChannelInTime
<1>4. ASSUME NEW s \in Sources \ OnePost, NEW p \in Kept(s) PROVE age[p] \in Nat /\ age[p] <= Ttl
  <2>1. age[p] \in Nat
    BY KeptFacts
  <2>2. CASE s \in Websites
    <3>1. Delay(faults) <= Ttl
      BY DelayBounded DEF TypeOK
    <3> QED BY <1>2, <2>1, <2>2, <3>1, Numbers
  <2>3. CASE s \in Channels
    <3>1. faults + 1 <= Ttl
      BY FreshnessAssumption, CrawlAssumption DEF TypeOK
    <3> QED BY <1>3, <2>1, <2>3, <3>1, Numbers
  <2> QED BY <2>1, <2>2, <2>3 DEF Sources
<1> QED BY <1>2, <1>3, <1>4

LEMMA EndKeeps == IInv /\ EndPass => IInv'
<1> SUFFICES ASSUME IInv, EndPass PROVE IInv'
  OBVIOUS
<1> USE DEF IInv
<1>1. /\ pass /\ pass' = FALSE /\ due' = FALSE /\ \A s \in Sources : work[s].at = "out"
      /\ UNCHANGED <<validators, age, skipLeft, robots, work, offering, changes>>
  BY DEF EndPass, world
<1>2. PICK swept, saved \in BOOLEAN :
        /\ IF swept /\ saved THEN UNCHANGED faults ELSE Fault
        /\ offer' = [p \in Offerable |-> IF swept /\ Stale(p) THEN "expired" ELSE offer[p]]
        /\ skipSaved' = IF saved THEN skipLeft ELSE skipSaved
  BY DEF EndPass
<1>3. faults' \in {faults, faults + 1} /\ faults' \in 0 .. MaxFaults
  BY <1>2, FaultTyped
<1>4. TypeOK'
  <2>1. offer' \in [Offerable -> {"none", "live", "expired"}]
    BY <1>2 DEF TypeOK
  <2>2. skipSaved' \in [Websites -> 0 .. EmptySkip]
    BY <1>2 DEF TypeOK
  <2> QED BY <1>1, <1>3, <2>1, <2>2 DEF TypeOK
<1>5. TasksOK'
  BY <1>1 DEF TasksOK
<1>6. \A p \in Offerable : /\ offer'[p] = "live" => offer[p] = "live"
                           /\ offer'[p] = "expired" => offer[p] = "expired" \/ Stale(p)
  BY <1>2
<1>7. \A s \in Sources : Open(s)' = 0 /\ Kept(s)' \subseteq Kept(s)
  BY <1>1, <1>6 DEF Open, Kept, Reached, TypeOK
<1>8. UntaggedNeverExpires'
  <2> SUFFICES ASSUME NEW s \in Sources \ OnePost, NEW p \in (Reached(s) \cap offering) \ Tagged,
                      offer'[p] = "expired"
               PROVE  FALSE
    BY <1>1 DEF UntaggedNeverExpires, Reached
  <2>1. p \in Offerable /\ offer[p] # "expired"
    BY DEF UntaggedNeverExpires, TypeOK
  <2>2. offer[p] = "live" /\ age[p] > Ttl
    BY <1>6, <2>1 DEF Stale
  <2>3. p \in Kept(s)
    BY <2>2 DEF Kept
  <2>4. age[p] \in Nat /\ age[p] <= Ttl
    BY <1>1, <2>3, AgeBounded
  <2> QED BY <2>2, <2>4, Numbers
<1>9. Delay(faults') \in Nat /\ Delay(faults) <= Delay(faults') /\ faults' \in Nat /\ faults <= faults'
  BY <1>3, Numbers, DelayGrows
<1>10. ASSUME NEW s \in Websites PROVE SiteInTime(s)'
  <2>1. s \in Sources
    BY DEF Sources
  <2>2. ASSUME NEW p \in Kept(s)'
        PROVE  age'[p] + skipLeft'[s] <= Delay(faults') + Open(s)'
    <3>1. p \in Kept(s) /\ Open(s)' = 0
      BY <1>7, <2>1, <2>2
    <3>2. age[p] \in Nat /\ skipLeft[s] \in Nat /\ age[p] + skipLeft[s] <= Delay(faults)
      BY <1>1, <2>1, <3>1, AgeBounded, Numbers, KeptFacts
    <3> QED BY <1>1, <1>9, <3>1, <3>2, Numbers
  <2> QED BY <1>1, <2>1, <2>2 DEF SiteInTime
<1>11. ASSUME NEW s \in Channels \ OnePost PROVE ChannelInTime(s)'
  <2>1. s \in Sources
    BY DEF Sources
  <2>2. ASSUME NEW p \in Kept(s)'
        PROVE  age'[p] + (IF p \in validators' THEN 1 ELSE 0) <= faults' + 1 + Open(s)'
    <3>1. p \in Kept(s) /\ Open(s)' = 0
      BY <1>7, <2>1, <2>2
    <3>2. age[p] \in Nat /\ age[p] + (IF p \in validators THEN 1 ELSE 0) <= faults + 1
      BY <1>1, <2>1, <3>1, AgeBounded
    <3> QED BY <1>1, <1>9, <3>1, <3>2, Numbers
  <2> QED BY <1>1, <2>1, <2>2 DEF ChannelInTime
<1>12. ASSUME NEW s \in Websites PROVE RobotsInTime(s)'
  <2>1. Kept(s)' \subseteq Kept(s) /\ RobotsInTime(s)
    BY <1>7 DEF RobotsPaid, Sources
  <2> QED BY <1>1, <1>3, <2>1, PaidKept
<1> QED BY <1>4, <1>5, <1>8, <1>10, <1>11, <1>12 DEF InTime, RobotsPaid

LEMMA TickKeeps == IInv /\ Tick => IInv'
<1> SUFFICES ASSUME IInv, Tick PROVE IInv'
  OBVIOUS
<1> USE DEF IInv
<1>1. /\ ~pass /\ ~due /\ due' = TRUE
      /\ UNCHANGED <<offering, validators, offer, skipLeft, skipSaved, work, pass, faults, changes>>
  BY DEF Tick, registry
<1>2. \A s \in Sources : work[s].at = "out"
  BY <1>1 DEF TasksOK
<1>3. age' = [p \in Offerable |->
                IF offer[p] = "live" /\ age[p] <= Ttl THEN age[p] + 1 ELSE age[p]]
  BY DEF Tick
<1>4. \A p \in Offerable : age[p] \in Nat /\ age[p] <= Ttl + 1
  BY Numbers DEF TypeOK
<1>5. \A p \in Offerable : age'[p] \in 0 .. Ttl + 1 /\ age'[p] <= age[p] + 1 /\ age'[p] \in Nat
  BY <1>3, <1>4, Numbers
<1>6. age' \in [Offerable -> 0 .. Ttl + 1]
  BY <1>3, <1>5
<1>0. ASSUME NEW s \in Websites
      PROVE  /\ robots'[s] \in Entry
             /\ robots'[s].lost => robots[s].lost /\ robots'[s].left + 1 = robots[s].left
  <2>1. robots'[s] = Aged(robots[s]) /\ robots[s] \in Entry /\ robots[s].left \in Nat
    BY EntryFacts DEF Tick, TypeOK
  <2>2. PICK e \in Entry : e = robots[s]
    BY <2>1
  <2>3. CASE e.left > 1
    <3>1. Aged(e) = [lost |-> e.lost, left |-> e.left - 1]
      BY <2>3 DEF Aged, Entry
    <3>2. e.left - 1 \in 0 .. RobotsTtl /\ e.left - 1 > 0 /\ (e.left - 1) + 1 = e.left
      BY <2>3, CrawlAssumption DEF Entry
    <3>3. [lost |-> e.lost, left |-> e.left - 1] \in Entry
      BY <3>2 DEF Entry
    <3> QED BY <2>1, <2>2, <3>1, <3>2, <3>3
  <2>4. CASE ~(e.left > 1)
    <3>1. Aged(e) = NoEntry
      BY <2>4 DEF Aged
    <3>2. NoEntry \in Entry /\ ~NoEntry.lost
      BY CrawlAssumption DEF NoEntry, Entry
    <3> QED BY <2>1, <2>2, <3>1, <3>2
  <2> QED BY <2>3, <2>4
<1>7. TypeOK'
  <2>1. robots' \in [Websites -> Entry]
    BY <1>0 DEF Tick
  <2> QED BY <1>1, <1>6, <2>1 DEF TypeOK
<1>8. TasksOK'
  BY <1>1 DEF TasksOK
<1>9. UntaggedNeverExpires'
  BY <1>1 DEF UntaggedNeverExpires, Reached
<1>10. \A s \in Sources : Open(s) = 0 /\ Open(s)' = 1 /\ Kept(s)' = Kept(s)
  BY <1>1 DEF Open, Kept, Reached
<1>11. ASSUME NEW s \in Websites PROVE SiteInTime(s)'
  <2>1. s \in Sources /\ SiteInTime(s)
    BY DEF Sources, InTime
  <2>2. ASSUME NEW p \in Kept(s)
        PROVE  age'[p] + skipLeft'[s] <= Delay(faults') + Open(s)'
    <3>1. p \in Offerable /\ age[p] + skipLeft[s] <= Delay(faults) + Open(s)
      BY <2>1, KeptFacts DEF SiteInTime
    <3> QED BY <1>1, <1>4, <1>5, <1>10, <2>1, <3>1, Numbers
  <2> QED BY <1>1, <1>2, <1>10, <2>1, <2>2 DEF SiteInTime
<1>12. ASSUME NEW s \in Channels \ OnePost PROVE ChannelInTime(s)'
  <2>1. s \in Sources /\ ChannelInTime(s)
    BY DEF Sources, InTime
  <2>2. ASSUME NEW p \in Kept(s)
        PROVE  age'[p] + (IF p \in validators' THEN 1 ELSE 0) <= faults' + 1 + Open(s)'
    <3>1. /\ p \in Offerable
          /\ age[p] + (IF p \in validators THEN 1 ELSE 0) <= faults + 1 + Open(s)
      BY <2>1, KeptFacts DEF ChannelInTime
    <3> QED BY <1>1, <1>4, <1>5, <1>10, <2>1, <3>1, Numbers
  <2> QED BY <1>1, <1>2, <1>10, <2>1, <2>2 DEF ChannelInTime
<1>13. ASSUME NEW s \in Websites PROVE RobotsInTime(s)'
  <2>1. RobotsInTime(s) /\ s \in Sources /\ robots[s].left \in Nat
    BY EntryFacts DEF RobotsPaid, Sources
  <2>2. ASSUME robots'[s].lost
        PROVE  robots[s].lost /\ robots'[s].left \in Nat /\ robots'[s].left + 1 = robots[s].left
    BY <1>0, <2>2, CrawlAssumption DEF Entry
  <2>3. Paid(0, robots'[s], faults')
    BY <1>1, <2>1, <2>2, Numbers DEF RobotsInTime, Paid
  <2>4. ASSUME NEW p \in Kept(s) PROVE Paid(age'[p], robots'[s], faults')
    <3>1. p \in Offerable /\ Paid(age[p], robots[s], faults)
      BY <2>1, KeptFacts DEF RobotsInTime
    <3>2. age'[p] \in Nat /\ age[p] \in Nat /\ age'[p] <= age[p] + 1
      BY <1>4, <1>5, <3>1
    <3> QED BY <1>1, <2>1, <2>2, <3>1, <3>2, Numbers DEF Paid
  <2> QED BY <1>10, <2>1, <2>3, <2>4 DEF RobotsInTime
<1> QED BY <1>7, <1>8, <1>9, <1>11, <1>12, <1>13 DEF InTime, RobotsPaid

LEMMA RestartKeeps == IInv /\ Restart => IInv'
<1> SUFFICES ASSUME IInv, Restart PROVE IInv'
  OBVIOUS
<1> USE DEF IInv
<1>1. /\ pass /\ due /\ pass' = FALSE /\ skipLeft' = skipSaved /\ faults' = faults + 1
      /\ work' = [s \in Sources |-> [Idle EXCEPT !.at = "out"]]
      /\ UNCHANGED <<validators, offer, age, skipSaved, due, offering, changes>>
  BY DEF Restart, Fault, backend, world, TasksOK, Idle
<1>2. TasksOK' /\ \A s \in Sources : /\ work'[s].at = "out" /\ work'[s].got \in BOOLEAN
                                     /\ work'[s].todo \in Seq(Page)
  BY <1>1, AllAtOnce
<1>3. faults' \in 0 .. MaxFaults
  BY FaultTyped DEF Restart
<1>0. robots' \in [Websites -> Entry] /\ \A s \in Websites : robots'[s] = robots[s] \/ ~robots'[s].lost
  <2>1. NoEntry \in Entry /\ ~NoEntry.lost
    BY CrawlAssumption DEF NoEntry, Entry
  <2>2. robots' = robots \/ robots' = [s \in Websites |-> NoEntry]
    BY DEF Restart
  <2>3. CASE robots' = robots
    BY <2>3 DEF TypeOK
  <2>4. CASE robots' = [s \in Websites |-> NoEntry]
    BY <2>1, <2>4
  <2> QED BY <2>2, <2>3, <2>4
<1>4. TypeOK'
  BY <1>0, <1>1, <1>2, <1>3 DEF TypeOK, Stages
<1>5. UntaggedNeverExpires'
  BY <1>1 DEF UntaggedNeverExpires, Reached
<1>6. \A s \in Sources : Open(s)' = 1 /\ Kept(s)' = Kept(s)
  BY <1>1 DEF Open, Kept, Reached
<1>7. Delay(faults') >= Delay(faults) + EmptySkip + 1 /\ Delay(faults') \in Nat
  <2>1. faults \in Nat /\ faults' \in Nat
    BY <1>1, Numbers
  <2> QED BY <1>1, <2>1, Numbers, DelayGrows
<1>8. ASSUME NEW s \in Websites PROVE SiteInTime(s)'
  <2>1. s \in Sources /\ SiteInTime(s)
    BY DEF Sources, InTime
  <2>2. ASSUME NEW p \in Kept(s)
        PROVE  age'[p] + skipLeft'[s] <= Delay(faults') + Open(s)'
    <3>1. age[p] \in Nat /\ age[p] + skipLeft[s] <= Delay(faults) + Open(s)
      BY <2>1, <2>2, KeptFacts DEF SiteInTime
    <3>2. skipLeft[s] \in Nat /\ skipLeft'[s] \in Nat /\ skipLeft'[s] <= EmptySkip /\ Open(s) \in {0, 1}
      BY <1>1, <2>1, Numbers
    <3> QED BY <1>1, <1>6, <1>7, <2>1, <3>1, <3>2, Numbers
  <2> QED BY <1>1, <1>2, <1>6, <2>1, <2>2 DEF SiteInTime
<1>9. ASSUME NEW s \in Channels \ OnePost PROVE ChannelInTime(s)'
  <2>1. s \in Sources /\ ChannelInTime(s)
    BY DEF Sources, InTime
  <2>2. ASSUME NEW p \in Kept(s)
        PROVE  age'[p] + (IF p \in validators' THEN 1 ELSE 0) <= faults' + 1 + Open(s)'
    <3>1. /\ age[p] \in Nat
          /\ age[p] + (IF p \in validators THEN 1 ELSE 0) <= faults + 1 + Open(s)
      BY <2>1, <2>2, KeptFacts DEF ChannelInTime
    <3>2. Open(s) \in {0, 1}
      BY <2>1, Numbers
    <3> QED BY <1>1, <1>6, <2>1, <3>1, <3>2, Numbers
  <2> QED BY <1>1, <1>2, <1>6, <2>1, <2>2 DEF ChannelInTime
<1>10. ASSUME NEW s \in Websites PROVE RobotsInTime(s)'
  <2>1. Kept(s)' = Kept(s) /\ RobotsInTime(s)
    BY <1>6 DEF RobotsPaid, Sources
  <2> QED BY <1>0, <1>1, <2>1, PaidKept
<1> QED BY <1>2, <1>4, <1>5, <1>8, <1>9, <1>10 DEF InTime, RobotsPaid

LEMMA ChangeKeeps ==
    ASSUME IInv, NEW q \in Offerable, SiteChanges(q)
    PROVE  IInv'
<1> USE DEF IInv
<1>1. /\ changes < MaxChanges /\ changes' = changes + 1 /\ validators' = validators \ {q}
      /\ UNCHANGED <<skipLeft, skipSaved, robots, work, pass, due, faults>>
  BY DEF SiteChanges, registry
<1>2. \/ q \in offering /\ offering' = offering \ {q} /\ UNCHANGED <<offer, age>>
      \/ /\ q \notin offering /\ offering' = offering \cup {q}
         /\ offer' = [offer EXCEPT ![q] = "none"] /\ age' = [age EXCEPT ![q] = 0]
  BY DEF SiteChanges, backend
<1>3. \A p \in Offerable \ {q} : /\ offer'[p] = offer[p] /\ age'[p] = age[p]
                                 /\ p \in offering' <=> p \in offering
  BY <1>2 DEF TypeOK
<1>4. q \in offering' => offer'[q] = "none"
  BY <1>2 DEF TypeOK
<1>5. changes' \in 0 .. MaxChanges
  BY <1>1, CrawlAssumption DEF TypeOK
<1>6. /\ offering' \subseteq Offerable /\ validators' \subseteq Tagged \cup {HomeOf[s] : s \in Channels}
      /\ offer' \in [Offerable -> {"none", "live", "expired"}] /\ age' \in [Offerable -> 0 .. Ttl + 1]
  BY <1>1, <1>2, Numbers DEF TypeOK
<1>7. TypeOK'
  BY <1>1, <1>5, <1>6 DEF TypeOK
<1>8. TasksOK'
  BY <1>1 DEF TasksOK
<1>9. ASSUME NEW s \in Sources, NEW p \in (Reached(s) \cap offering') \ Tagged
      PROVE  /\ s \notin OnePost => offer'[p] # "expired"
             /\ offer'[p] = "live" => p # q /\ p \in Kept(s)
  <2>1. p \in Offerable
    BY <1>6
  <2>2. CASE p = q
    BY <1>4, <2>2
  <2>3. CASE p # q
    <3>1. offer'[p] = offer[p] /\ p \in offering
      BY <1>3, <2>1, <2>3
    <3> QED BY <2>3, <3>1 DEF UntaggedNeverExpires, Kept
  <2> QED BY <2>2, <2>3
<1>10. UntaggedNeverExpires'
  BY <1>9 DEF UntaggedNeverExpires, Reached
<1>11. ASSUME NEW s \in Sources, NEW p \in Kept(s)'
       PROVE  p \in Kept(s) /\ age'[p] = age[p] /\ (p \in validators' <=> p \in validators)
  <2>1. p \in (Reached(s) \cap offering') \ Tagged /\ offer'[p] = "live"
    BY <1>11 DEF Kept, Reached
  <2>2. p # q /\ p \in Kept(s) /\ p \in Offerable
    BY <1>6, <1>9, <2>1
  <2> QED BY <1>1, <1>3, <2>2
<1>12. \A s \in Sources : Open(s)' = Open(s)
  BY <1>1 DEF Open
<1>13. ASSUME NEW s \in Websites PROVE SiteInTime(s)'
  <2>1. s \in Sources /\ SiteInTime(s)
    BY DEF Sources, InTime
  <2> SUFFICES ASSUME NEW p \in Kept(s)'
               PROVE  /\ age'[p] + skipLeft'[s] <= Delay(faults') + Open(s)'
                      /\ work'[s].at \in {"fetch", "submit", "close"} =>
                            \/ p \in ToSet(work'[s].todo)
                            \/ work'[s].got /\ age'[p] = 0
                            \/ age'[p] + EmptySkip <= Delay(faults')
    BY DEF SiteInTime
  <2>2. p \in Kept(s) /\ age'[p] = age[p]
    BY <1>11, <2>1
  <2> QED BY <1>1, <1>12, <2>1, <2>2 DEF SiteInTime
<1>14. ASSUME NEW s \in Channels \ OnePost PROVE ChannelInTime(s)'
  <2>1. s \in Sources /\ ChannelInTime(s)
    BY DEF Sources, InTime
  <2> SUFFICES ASSUME NEW p \in Kept(s)'
               PROVE  /\ age'[p] + (IF p \in validators' THEN 1 ELSE 0) <= faults' + 1 + Open(s)'
                      /\ work'[s].at = "close" => age'[p] = 0 \/ p \in validators'
    BY DEF ChannelInTime
  <2>2. p \in Kept(s) /\ age'[p] = age[p] /\ (p \in validators' <=> p \in validators)
    BY <1>11, <2>1
  <2> QED BY <1>1, <1>12, <2>1, <2>2 DEF ChannelInTime
<1>15. ASSUME NEW s \in Websites PROVE RobotsInTime(s)'
  <2>1. RobotsInTime(s) /\ s \in Sources
    BY DEF RobotsPaid, Sources
  <2> QED BY <1>1, <1>11, <2>1, PaidKept
<1> QED BY <1>7, <1>8, <1>10, <1>13, <1>14, <1>15 DEF InTime, RobotsPaid

LEMMA NextKeeps == IInv /\ [Next]_vars => IInv'
<1> SUFFICES ASSUME IInv, [Next]_vars PROVE IInv'
  OBVIOUS
<1>1. CASE UNCHANGED vars
  BY <1>1 DEF vars, IInv, TypeOK, TasksOK, UntaggedNeverExpires, InTime, SiteInTime, ChannelInTime,
              RobotsPaid, RobotsInTime, Paid, Kept, Reached, Open, Delay
<1>2. CASE Next
  BY <1>2, StartKeeps, EndKeeps, TickKeeps, RestartKeeps, TaskKeeps, ChangeKeeps DEF Next
<1> QED BY <1>1, <1>2

-----------------------------------------------------------------------------
(* What holds of every run of the passive pass.                            *)

\* The inductive invariant: the age of every kept offer, with the skips and the
\* passes without robots.txt that lie ahead, is paid for by the faults so far and
\* the pass at hand (runner.py, domain_registry.py, robots.py).
THEOREM Invariance == Spec => []IInv
<1>1. Init => IInv
  BY InitHolds
<1>2. IInv /\ [Next]_vars => IInv'
  BY NextKeeps
<1> QED BY <1>1, <1>2, PTL DEF Spec

\* Every variable keeps its type; in particular a task that fetches or submits
\* has a page to do it with (runner.py, run_passive).
THEOREM TypeCorrect == Spec => []TypeOK
<1>1. IInv => TypeOK
  BY DEF IInv
<1> QED BY <1>1, Invariance, PTL

\* Whatever the sources, the pages, the worker count and the interleaving: as
\* long as no more goes wrong than the freshness period allows for, an offer
\* that its page still carries does not expire, if the page is served without
\* a validator and is not the one post of a channel (runner.py run_passive,
\* domain_registry.py, robots.py, telegram.py, offer.py expiry).
THEOREM UntaggedOffersStay == Spec => []UntaggedNeverExpires
<1>1. IInv => UntaggedNeverExpires
  BY DEF IInv
<1> QED BY <1>1, Invariance, PTL

-----------------------------------------------------------------------------
(* No filler displaces an offer.  What is left of a plan starts with the   *)
(* homepage only as long as it is the whole plan, and without a fault that *)
(* is the plan of a walk whose requests were all answered.                 *)

PlanInHand(s) ==
    /\ \A i \in DOMAIN work[s].todo : work[s].todo[i] = HomeOf[s] => i = 1
    /\ work[s].at = "fetch" /\ Head(work[s].todo) = HomeOf[s] /\ faults = 0 =>
          work[s].todo = Plan[s][{}][FALSE]

PlansInHand == \A s \in Websites : PlanInHand(s)

LEMMA PlanFair ==
    ASSUME TypeOK, PlansInHand PROVE FillerNeverDisplacesOffer
<1> SUFFICES ASSUME NEW s \in Websites, faults = 0, work[s].at = "fetch",
                    Head(work[s].todo) = HomeOf[s],
                    ToSet(work[s].todo) \ (PromoPages \cup {HomeOf[s]}) # {},
                    NEW p \in Collected[s] \cap PromoPages
             PROVE  \/ p \in GeoPages \cup Disallowed
                    \/ \E q \in ToSet(work[s].todo) : KeyOf[q] = KeyOf[p]
  BY Zenon DEF FillerNeverDisplacesOffer
<1> DEFINE home == HomeOf[s]
           todo == work[s].todo
<1>1. todo = Plan[s][{}][FALSE] /\ s \in Sources
  BY DEF PlansInHand, PlanInHand, Sources
<1>2. FairPlan(Plan[s][{}][FALSE], home, ToSet(Found(home, {})) \cap PromoPages, {})
  BY <1>1, PlanTyped, NothingMissing
<1>3. p \in ToSet(Found(home, {})) \cap PromoPages
  BY DEF Collected
<1> HIDE DEF home, todo
<1>4. Dealt(todo, p, home, {})
  <2>1. FairPlan(todo, home, ToSet(Found(home, {})) \cap PromoPages, {})
    BY <1>1, <1>2
  <2>2. ~(ToSet(todo) \subseteq PromoPages \cup {home})
    BY DEF home, todo
  <2> QED
    BY <1>3, <2>1, <2>2, Zenon DEF FairPlan
<1>5. home \in ToSet(todo)
  <2>1. todo \in Seq(Page) /\ todo # <<>> /\ Head(todo) = home
    BY <1>1 DEF TypeOK, home, todo
  <2>2. 1 \in DOMAIN todo /\ todo[1] = home
    BY <2>1
  <2> QED
    BY <2>2 DEF ToSet
<1>6. p = home \/ p \in GeoPages \/ p \in Disallowed \/ Covered(todo, p)
  BY <1>4, Zenon DEF Dealt, Refused, CanFetch
<1> QED
  BY <1>5, <1>6 DEF Covered, todo

\* What a step may make of the task of a website.
TodoStep(s) ==
    /\ faults' = 0 => faults = 0
    /\ \/ work'[s] = work[s]
       \/ work'[s].todo = <<>> /\ work'[s].at # "fetch"
       \/ work'[s].todo = Tail(work[s].todo) /\ work[s].todo # <<>>
       \/ work'[s].todo = work[s].todo /\ work'[s].at = "submit"
       \/ \E failed \in Failures, gone \in BOOLEAN :
             /\ work'[s].todo = Plan[s][failed][gone]
             /\ (failed = {} /\ ~gone) \/ faults' # 0

LEMMA FaultsCount ==
    ASSUME TypeOK, Fault \/ UNCHANGED faults
    PROVE  (faults' = 0 => faults = 0) /\ (Fault => faults' # 0)
<1>1. faults \in Nat
  BY CrawlAssumption DEF TypeOK
<1> QED
  BY <1>1 DEF Fault

LEMMA TaskPlans ==
    ASSUME TypeOK, TasksOK, RobotsPaid, NEW t \in Sources, Task(t), NEW s \in Websites
    PROVE  TodoStep(s)
<1>1. s \in Sources /\ work \in [Sources -> TaskState] /\ Idle.todo = <<>> /\ Idle.at # "fetch"
  BY DEF Sources, TasksOK, Idle
<1>2. faults' = 0 => faults = 0
  BY FaultsCount DEF Task, Skip, Begin, PlanPages, Fail, FetchUnchanged, FetchFails, FetchPage,
                     Submit, SubmitFails, Close
<1>3. PICK w : work' = [work EXCEPT ![t] = w]
  BY Zenon DEF Task, Skip, Begin, PlanPages, Fail, FetchUnchanged, FetchFails, FetchPage,
               Submit, SubmitFails, Close, Planned, Moved, NextPage
<1>4. CASE s # t
  <2>1. work'[s] = work[s]
    BY <1>1, <1>3, <1>4
  <2> QED
    BY <1>2, <2>1 DEF TodoStep
<1>5. CASE s = t
  <2>1. CASE work' = [work EXCEPT ![s] = Idle] \/ Begin(s)
    <3>1. work'[s].todo = <<>> /\ work'[s].at # "fetch"
      BY <1>1, <2>1 DEF Begin, Moved
    <3> QED
      BY <1>2, <3>1 DEF TodoStep
  <2>2. CASE PlanPages(s)
    <3>1. PICK failed \in Failures :
            /\ work' = Planned(s, Plan[s][failed][Gone(s, failed)])
            /\ (failed = {} /\ UNCHANGED faults) \/ Fault
      BY <2>2 DEF PlanPages
    <3>2. work'[s].todo = Plan[s][failed][Gone(s, failed)] /\ Gone(s, failed) \in BOOLEAN
      BY <1>1, <3>1 DEF Planned, Moved, Gone
    <3>3. (failed = {} /\ ~Gone(s, failed)) \/ faults' # 0
      <4>1. CASE Fault
        BY <4>1, FaultsCount
      <4>2. CASE failed = {} /\ Gone(s, failed) /\ UNCHANGED faults
        <5>1. robots[s].lost
          BY <4>2 DEF Gone, Looked
        <5>2. faults > 0
          BY <5>1 DEF RobotsPaid, RobotsInTime, Paid
        <5> QED
          BY <4>2, <5>2
      <4> QED
        BY <3>1, <4>1, <4>2
    <3> QED
      BY <1>2, <3>2, <3>3 DEF TodoStep
  <2>3. CASE \E got : work' = NextPage(s, got) /\ work[s].at \in {"fetch", "submit"}
    <3>1. work'[s].todo = Tail(work[s].todo)
      BY <1>1, <2>3 DEF NextPage, Moved
    <3>2. work[s].todo # <<>>
      BY <1>1, <2>3 DEF TypeOK
    <3> QED
      BY <1>2, <3>1, <3>2 DEF TodoStep
  <2>4. CASE work' = Moved(s, "submit", work[s].todo, work[s].got)
    <3>1. work'[s].todo = work[s].todo /\ work'[s].at = "submit"
      BY <1>1, <2>4 DEF Moved
    <3> QED
      BY <1>2, <3>1 DEF TodoStep
  <2> QED
    BY <1>5, <2>1, <2>2, <2>3, <2>4
       DEF Task, Skip, Fail, FetchUnchanged, FetchFails, FetchPage, Submit, SubmitFails, Close
<1> QED
  BY <1>4, <1>5

LEMMA PlansStep ==
    ASSUME IInv, Next, NEW s \in Websites
    PROVE  TodoStep(s)
<1>1. TypeOK /\ TasksOK /\ RobotsPaid /\ s \in Sources
  BY DEF IInv, Sources
<1>2. CASE \E t \in Sources : Task(t)
  BY <1>1, <1>2, TaskPlans
<1>3. CASE StartPass \/ Restart
  <2>1. faults' = 0 => faults = 0
    BY <1>1, <1>3, FaultsCount DEF StartPass, Restart
  <2>2. work'[s].todo = <<>> /\ work'[s].at # "fetch"
    BY <1>1, <1>3 DEF StartPass, Restart, Idle
  <2> QED
    BY <2>1, <2>2 DEF TodoStep
<1>4. CASE EndPass \/ Tick \/ \E p \in Offerable : SiteChanges(p)
  <2>1. faults' = 0 => faults = 0
    BY <1>1, <1>4, FaultsCount DEF EndPass, Tick, SiteChanges
  <2>2. work' = work
    BY <1>4 DEF EndPass, Tick, SiteChanges
  <2> QED
    BY <2>1, <2>2 DEF TodoStep
<1> QED
  BY <1>2, <1>3, <1>4 DEF Next

LEMMA PlanKept ==
    ASSUME TypeOK, TypeOK', NEW s \in Websites, PlanInHand(s), TodoStep(s)
    PROVE  PlanInHand(s)'
<1>1. /\ s \in Sources /\ work[s].todo \in Seq(Page) /\ work'[s].todo \in Seq(Page)
      /\ work'[s].at = "fetch" => work'[s].todo # <<>>
  BY DEF Sources, TypeOK
<1>2. CASE work'[s] = work[s]
  <2>1. faults' = 0 => faults = 0
    BY DEF TodoStep
  <2>2. PICK fair : fair = Plan[s][{}][FALSE]
    OBVIOUS
  <2> QED
    BY <1>2, <2>1, <2>2 DEF PlanInHand
<1>3. CASE work'[s].todo = <<>> /\ work'[s].at # "fetch"
  <2>1. DOMAIN work'[s].todo = {}
    BY <1>3
  <2> QED
    BY <1>3, <2>1 DEF PlanInHand
<1>4. CASE work'[s].todo = Tail(work[s].todo) /\ work[s].todo # <<>>
  <2>1. PICK old : old = work[s].todo
    OBVIOUS
  <2>2. PICK new : new = work'[s].todo
    OBVIOUS
  <2>3. old \in Seq(Page) /\ old # <<>> /\ new = Tail(old)
    BY <1>1, <1>4, <2>1, <2>2
  <2>4. \A i \in DOMAIN new : i + 1 \in DOMAIN old /\ i + 1 # 1 /\ new[i] = old[i + 1]
    BY <2>3
  <2>5. \A i \in DOMAIN new : new[i] # HomeOf[s]
    BY <2>1, <2>4 DEF PlanInHand
  <2>6. work'[s].at = "fetch" => Head(new) # HomeOf[s]
    <3>1. new # <<>> => 1 \in DOMAIN new /\ Head(new) = new[1]
      BY <1>1, <2>2
    <3> QED
      BY <1>1, <2>2, <2>5, <3>1
  <2> QED
    BY <2>2, <2>5, <2>6 DEF PlanInHand
<1>5. CASE work'[s].todo = work[s].todo /\ work'[s].at = "submit"
  BY <1>5 DEF PlanInHand
<1>6. CASE \E failed \in Failures, gone \in BOOLEAN :
             /\ work'[s].todo = Plan[s][failed][gone]
             /\ (failed = {} /\ ~gone) \/ faults' # 0
  <2>1. PICK failed \in Failures, gone \in BOOLEAN :
             /\ work'[s].todo = Plan[s][failed][gone]
             /\ (failed = {} /\ ~gone) \/ faults' # 0
    BY <1>6
  <2>2. \A i \in DOMAIN Plan[s][failed][gone] : Plan[s][failed][gone][i] = HomeOf[s] => i = 1
    BY <1>1, PlanTyped DEF FairPlan
  <2> QED
    BY <2>1, <2>2 DEF PlanInHand
<1> QED
  BY <1>2, <1>3, <1>4, <1>5, <1>6 DEF TodoStep

\* However large the site and whatever the page cap: a walk without a lost
\* request plans a page without offers only when every offer page it collected
\* is planned or may not be fetched (walker.py _finalize_and_fetch).
THEOREM FillerNeverDisplaces == Spec => []FillerNeverDisplacesOffer
<1>1. Init => PlansInHand
  <2> SUFFICES ASSUME Init, NEW s \in Websites PROVE PlanInHand(s)
    BY DEF PlansInHand
  <2>1. work[s].todo = <<>> /\ work[s].at = "out"
    BY DEF Init, Idle, Sources
  <2> QED
    BY <2>1 DEF PlanInHand
<1>2. IInv /\ IInv' /\ PlansInHand /\ [Next]_vars => PlansInHand'
  <2> SUFFICES ASSUME IInv, IInv', PlansInHand, [Next]_vars, NEW s \in Websites
               PROVE  PlanInHand(s)'
    BY DEF PlansInHand
  <2>1. TypeOK /\ TypeOK' /\ PlanInHand(s)
    BY DEF IInv, PlansInHand
  <2>2. TodoStep(s)
    <3>1. CASE Next
      BY <3>1, PlansStep
    <3>2. CASE UNCHANGED vars
      BY <3>2 DEF vars, TodoStep
    <3> QED
      BY <3>1, <3>2
  <2> QED
    BY <2>1, <2>2, PlanKept
<1>3. IInv /\ PlansInHand => FillerNeverDisplacesOffer
  BY PlanFair DEF IInv
<1> QED
  BY <1>1, <1>2, <1>3, Invariance, PTL DEF Spec
=============================================================================
