--------------------------- MODULE OffersProofs ---------------------------
(***************************************************************************)
(* Theorems of Offers, for every value of the constants.  First what the   *)
(* updates of the offers table preserve (OfferTable), then the inductive   *)
(* invariant of the types, the supersede graph, the judge's mark and what  *)
(* the public sees, then the action properties on sightings and rulings,   *)
(* then the invariants that rest on history: swept directories (Handled),  *)
(* shadows not yet ruled on (Ruled), the unique key (Keyed), and last the  *)
(* sources.                                                                *)
(***************************************************************************)
EXTENDS Offers, WellFoundedInduction, TLAPS

(***************************************************************************)
(* What the updates of the offers table preserve: the types of its rows,   *)
(* and Sound, the relations between a row's status, its link to the offer  *)
(* it would replace, its maker and its reviewer.                           *)
(***************************************************************************)

(* only an offer waiting for a ruling, or refused, points to another one *)
Shaped(T) ==
  \A o \in DOMAIN T : T[o].sup # NoOffer =>
    /\ T[o].sup \in DOMAIN T
    /\ T[o].by = "crawler"
    /\ T[o].status \in {"pending", "rejected"}

(* no set of offers is closed under the link to the parent *)
Acyclic(T) ==
  \A S \in SUBSET DOMAIN T : S # {} => \E o \in S : T[o].sup \notin S

(* the judge's mark is on refused crawler offers only *)
Marked(T) ==
  \A o \in DOMAIN T :
    T[o].reviewer = "judge" => T[o].status = "rejected" /\ T[o].by = "crawler"

(* what has a source was made by the crawler *)
Sourced(T) == \A o \in DOMAIN T : T[o].source # None => T[o].by = "crawler"

Sound(T) == Shaped(T) /\ Acyclic(T) /\ Marked(T) /\ Sourced(T)

(* U shows the public nothing that T did not show *)
ShowsNothingNew(T, U) ==
  \A o \in DOMAIN U : U[o].status = "published" =>
    o \in DOMAIN T /\ T[o].status = "published" /\ U[o].content = T[o].content

(* columns of a row that only a moderation step writes *)
SameRuling(r, t) ==
  /\ r.by = t.by /\ r.sup = t.sup /\ r.source = t.source /\ r.hash = t.hash
  /\ r.reviewer = t.reviewer /\ r.content = t.content

(* columns of a row that say what it proposes, and that no ruling writes *)
SameOrigin(r, t) ==
  /\ r.by = t.by /\ r.sup = t.sup /\ r.source = t.source /\ r.hash = t.hash
  /\ r.content = t.content

(* a row that lost at most its link or its source *)
SameButLink(r, t) ==
  /\ r.by = t.by /\ r.hash = t.hash /\ r.content = t.content
  /\ r.status = t.status /\ r.reviewer = t.reviewer
  /\ r.sup \in {t.sup, NoOffer}

---------------------------------------------------------------------------
(* The bounds used throughout: zero is an age, and no offer has the id 0.  *)
LEMMA Bounds == 0 \in 0..StaleAge /\ NoOffer \in 0..MaxOffers /\ NoOffer \notin OfferId
                /\ OfferId \subseteq 0..MaxOffers
  BY OfferTableAssumption DEF NoOffer, OfferId

(* A payload's hash and link are columns of a row. *)
LEMMA PayloadColumns ==
  ASSUME NEW p \in Payload
  PROVE  p.hash \in Hash /\ {LinkOf(p)} \in SUBSET Link
  BY DEF Hash, HashOf, Link

(* The rows create_offer and update_offer build are rows of the table. *)
LEMMA ContentRow ==
  ASSUME NEW p \in Payload, NEW r \in Row
  PROVE  /\ WithContent(r, p) \in Row
         /\ WithContent(r, p).status = r.status
         /\ WithContent(r, p).by = r.by
         /\ WithContent(r, p).sup = r.sup
         /\ WithContent(r, p).source = r.source
         /\ WithContent(r, p).reviewer = r.reviewer
         /\ WithContent(r, p).content = p
         /\ WithContent(r, p).hash = p.hash
  BY Bounds, PayloadColumns DEF WithContent, Row

(* A fresh row has the types of its columns. *)
LEMMA FreshRow ==
  ASSUME NEW p \in Payload, NEW s \in Source \cup {None}, NEW h \in Hash \cup {None},
         NEW by \in {"admin", "crawler"}, NEW st \in Status, NEW q \in 0..MaxOffers
  PROVE  NewRow(p, s, h, by, st, q) \in Row
  BY Bounds, PayloadColumns DEF NewRow, Row

(* Seeing offers again changes nothing but their age. *)
LEMMA TouchLemma ==
  ASSUME NEW T, IsTable(T), NEW S
  PROVE  /\ IsTable(Touch(T, S))
         /\ DOMAIN Touch(T, S) = DOMAIN T
         /\ \A o \in DOMAIN T : /\ SameRuling(Touch(T, S)[o], T[o])
                                /\ Touch(T, S)[o].status = T[o].status
                                /\ Touch(T, S)[o].links = T[o].links
                                /\ Touch(T, S)[o].age = IF o \in S THEN 0 ELSE T[o].age
  <1>1. \A o \in DOMAIN T : T[o] \in Row
    BY DEF IsTable
  <1>2. \A o \in DOMAIN T : [T[o] EXCEPT !.age = 0] \in Row
    BY <1>1, Bounds DEF Row
  <1>3. \A o \in DOMAIN T : /\ SameRuling([T[o] EXCEPT !.age = 0], T[o])
                            /\ [T[o] EXCEPT !.age = 0].status = T[o].status
                            /\ [T[o] EXCEPT !.age = 0].links = T[o].links
                            /\ [T[o] EXCEPT !.age = 0].age = 0
    BY <1>1 DEF Row, SameRuling
  <1> QED
    BY <1>1, <1>2, <1>3 DEF IsTable, Touch, SameRuling

(* Soft-rejecting offers changes nothing but their status. *)
LEMMA RejectAllLemma ==
  ASSUME NEW T, IsTable(T), NEW S
  PROVE  /\ IsTable(RejectAll(T, S))
         /\ DOMAIN RejectAll(T, S) = DOMAIN T
         /\ \A o \in DOMAIN T :
              /\ SameRuling(RejectAll(T, S)[o], T[o])
              /\ RejectAll(T, S)[o].status = IF o \in S THEN "rejected" ELSE T[o].status
              /\ RejectAll(T, S)[o].links = T[o].links /\ RejectAll(T, S)[o].age = T[o].age
  <1>1. \A o \in DOMAIN T : T[o] \in Row
    BY DEF IsTable
  <1>2. \A o \in DOMAIN T : [T[o] EXCEPT !.status = "rejected"] \in Row
    BY <1>1 DEF Row, Status
  <1>3. \A o \in DOMAIN T :
          LET r == [T[o] EXCEPT !.status = "rejected"]
          IN  /\ SameRuling(r, T[o]) /\ r.status = "rejected"
              /\ r.links = T[o].links /\ r.age = T[o].age
    BY <1>1 DEF Row, SameRuling
  <1> QED
    BY <1>1, <1>2, <1>3 DEF IsTable, RejectAll, SameRuling

(* A query with ORDER BY id LIMIT 1 finds a row whenever there is one. *)
LEMMA OldestExists ==
  ASSUME NEW S, S \subseteq OfferId
  PROVE  Oldest(S) = {} <=> S = {}
  <1> SUFFICES ASSUME S # {} PROVE \E o \in S : \A x \in S : o <= x
    BY DEF Oldest
  <1>1. S \subseteq Nat
    BY DEF OfferId
  <1>2. \E o \in S : \A x \in S : <<x, o>> \notin OpToRel(<, Nat)
    BY <1>1, WFMin, NatLessThanWellFounded
  <1>3. PICK o \in S : \A x \in S : <<x, o>> \notin OpToRel(<, Nat)
    BY <1>2
  <1>4. \A x \in S : ~(x < o)
    BY <1>1, <1>3 DEF OpToRel
  <1> QED
    BY <1>1, <1>4

(* Writing one row leaves the others alone. *)
LEMMA SetRowLemma ==
  ASSUME NEW T, IsTable(T), NEW o, NEW r
  PROVE  /\ DOMAIN SetRow(T, o, r) = DOMAIN T \cup {o}
         /\ SetRow(T, o, r)[o] = r
         /\ \A x \in DOMAIN T : x # o => SetRow(T, o, r)[x] = T[x]
         /\ (o \in OfferId /\ r \in Row) => IsTable(SetRow(T, o, r))
  BY DEF IsTable, SetRow

---------------------------------------------------------------------------
(* A step closes no loop when every link of U is an old one or leads to an *)
(* offer that itself has none: the argument of set_status's comment.       *)
LEMMA NoNewCycle ==
  ASSUME NEW T, NEW U, Acyclic(T), NoOffer \notin DOMAIN U,
         \A o \in DOMAIN U :
           \/ U[o].sup = NoOffer
           \/ o \in DOMAIN T /\ U[o].sup = T[o].sup
           \/ U[o].sup \in DOMAIN U /\ U[U[o].sup].sup = NoOffer
  PROVE  Acyclic(U)
  <1> SUFFICES ASSUME NEW S \in SUBSET DOMAIN U, S # {},
                      \A o \in S : U[o].sup \in S
               PROVE  FALSE
    BY DEF Acyclic
  <1>1. \A o \in S : U[o].sup # NoOffer
    OBVIOUS
  <1>2. \A o \in S : o \in DOMAIN T /\ U[o].sup = T[o].sup
    BY <1>1
  <1>3. S \in SUBSET DOMAIN T
    BY <1>2
  <1>4. PICK o \in S : T[o].sup \notin S
    BY <1>3 DEF Acyclic
  <1> QED
    BY <1>2, <1>4

---------------------------------------------------------------------------
(* How a row may come out of a step that no one ruled on: it only ages,    *)
(* leaves the queue or leaves the public view ...                          *)
Kept(T, U, o) ==
  /\ o \in DOMAIN T
  /\ SameRuling(U[o], T[o])
  /\ \/ U[o].status = T[o].status
     \/ T[o].status = "pending" /\ U[o].status = "rejected"
     \/ T[o].status = "published" /\ U[o].status = "expired"

(* ... or it waits for a first ruling, or was born rejected ...            *)
Waiting(r) ==
  /\ r.status \in {"pending", "rejected"}
  /\ r.reviewer # "judge"
  /\ r.sup = NoOffer
  /\ r.source # None => r.by = "crawler"

(* ... or it proposes to replace a live offer, itself kept.                *)
Proposing(T, r) ==
  /\ r.status = "pending"
  /\ r.reviewer # "judge"
  /\ r.by = "crawler"
  /\ r.sup \in DOMAIN T
  /\ T[r.sup].status = "published"

Unruled(T, U) ==
  \A o \in DOMAIN U :
    /\ \/ Kept(T, U, o)
       \/ Waiting(U[o])
       \/ Proposing(T, U[o]) /\ Kept(T, U, U[o].sup)
    /\ U[o].by = "crawler" \/ (o \in DOMAIN T /\ U[o].by = T[o].by)

(* A step no one ruled on keeps the table sound and shows nothing new.     *)
LEMMA UnruledSound ==
  ASSUME NEW T, NEW U, IsTable(T), IsTable(U), Sound(T),
         DOMAIN T \subseteq DOMAIN U, Unruled(T, U)
  PROVE  Sound(U) /\ ShowsNothingNew(T, U)
  <1>1. Shaped(U)
    <2> SUFFICES ASSUME NEW o \in DOMAIN U, U[o].sup # NoOffer
                 PROVE  /\ U[o].sup \in DOMAIN U
                        /\ U[o].by = "crawler"
                        /\ U[o].status \in {"pending", "rejected"}
      BY DEF Shaped
    <2>1. CASE Kept(T, U, o)
      BY <2>1 DEF Kept, SameRuling, Sound, Shaped
    <2>2. CASE Waiting(U[o])
      BY <2>2 DEF Waiting
    <2>3. CASE Proposing(T, U[o]) /\ Kept(T, U, U[o].sup)
      BY <2>3 DEF Proposing
    <2> QED
      BY <2>1, <2>2, <2>3 DEF Unruled
  <1>2. Acyclic(U)
    <2>1. NoOffer \notin DOMAIN U
      BY Bounds DEF IsTable
    <2>2. ASSUME NEW o \in DOMAIN U
          PROVE  \/ U[o].sup = NoOffer
                 \/ o \in DOMAIN T /\ U[o].sup = T[o].sup
                 \/ U[o].sup \in DOMAIN U /\ U[U[o].sup].sup = NoOffer
      <3>1. CASE Kept(T, U, o)
        BY <3>1 DEF Kept, SameRuling
      <3>2. CASE Waiting(U[o])
        BY <3>2 DEF Waiting
      <3>3. CASE Proposing(T, U[o]) /\ Kept(T, U, U[o].sup)
        <4> DEFINE q == U[o].sup
        <4>1. q \in DOMAIN T /\ T[q].status = "published" /\ U[q].sup = T[q].sup
          BY <3>3 DEF Proposing, Kept, SameRuling
        <4>2. T[q].sup = NoOffer
          BY <4>1 DEF Sound, Shaped
        <4> QED
          BY <4>1, <4>2
      <3> QED
        BY <3>1, <3>2, <3>3 DEF Unruled
    <2> QED
      BY <2>1, <2>2, NoNewCycle DEF Sound
  <1>3. Marked(U)
    BY DEF Marked, Unruled, Kept, Waiting, Proposing, SameRuling, Sound
  <1>4. Sourced(U)
    BY DEF Sourced, Unruled, Kept, Waiting, Proposing, SameRuling, Sound
  <1>5. ShowsNothingNew(T, U)
    BY DEF ShowsNothingNew, Unruled, Kept, Waiting, Proposing, SameRuling
  <1> QED
    BY <1>1, <1>2, <1>3, <1>4, <1>5 DEF Sound

---------------------------------------------------------------------------
(* The branches of create_offer                                            *)

(* A sighting of an offer, whatever else it does to its age: no ruling.    *)
LEMMA TouchUnruled ==
  ASSUME NEW T, IsTable(T), NEW S
  PROVE  IsTable(Touch(T, S)) /\ DOMAIN Touch(T, S) = DOMAIN T /\ Unruled(T, Touch(T, S))
  BY TouchLemma DEF Unruled, Kept, SameRuling

(* Branch 1, with the shadows it drops: no ruling.                         *)
LEMMA SeeAgainUnruled ==
  ASSUME NEW T, IsTable(T), NEW o \in DOMAIN T
  PROVE  /\ IsTable(SeeAgain(T, o)) /\ DOMAIN SeeAgain(T, o) = DOMAIN T
         /\ Unruled(T, SeeAgain(T, o))
  <1> DEFINE seen == Touch(T, {o, T[o].sup})
             stale == IF T[o].sup = NoOffer /\ T[o].status = "published"
                      THEN PendingShadows(T, o) ELSE {}
  <1>1. SeeAgain(T, o) = RejectAll(seen, stale)
    BY DEF SeeAgain
  <1>2. /\ IsTable(seen) /\ DOMAIN seen = DOMAIN T
        /\ \A x \in DOMAIN T : SameRuling(seen[x], T[x]) /\ seen[x].status = T[x].status
    BY TouchLemma
  <1>3. \A x \in stale : x \in DOMAIN T /\ T[x].status = "pending"
    BY DEF PendingShadows, Having
  <1> HIDE DEF seen, stale
  <1>4. /\ IsTable(RejectAll(seen, stale)) /\ DOMAIN RejectAll(seen, stale) = DOMAIN T
        /\ \A x \in DOMAIN T :
             /\ SameRuling(RejectAll(seen, stale)[x], seen[x])
             /\ RejectAll(seen, stale)[x].status
                  = IF x \in stale THEN "rejected" ELSE seen[x].status
    BY <1>2, RejectAllLemma
  <1>5. ASSUME NEW x \in DOMAIN T
        PROVE  Kept(T, RejectAll(seen, stale), x)
    BY <1>2, <1>3, <1>4 DEF Kept, SameRuling
  <1> QED
    BY <1>1, <1>4, <1>5 DEF Unruled, Kept, SameRuling

(* Branch 4, another provider's link: no ruling.                           *)
LEMMA MergeUnruled ==
  ASSUME NEW T, IsTable(T), NEW o \in DOMAIN T, NEW p \in Payload
  PROVE  /\ IsTable(Merge(T, o, p)) /\ DOMAIN Merge(T, o, p) = DOMAIN T
         /\ Unruled(T, Merge(T, o, p))
  <1> DEFINE r == [T[o] EXCEPT !.links = T[o].links \cup {LinkOf(p)}, !.age = 0]
  <1>1. T[o] \in Row /\ o \in OfferId
    BY DEF IsTable
  <1>2. Merge(T, o, p) = [T EXCEPT ![o] = r]
    BY <1>1 DEF Merge, IsTable, Row
  <1>3. r \in Row /\ SameRuling(r, T[o]) /\ r.status = T[o].status
    BY <1>1, Bounds, PayloadColumns DEF Row, SameRuling
  <1> HIDE DEF r
  <1> QED
    BY <1>1, <1>2, <1>3 DEF IsTable, Unruled, Kept, SameRuling

(* A row written over a table in which the others are kept. *)
LEMMA WriteUnruled ==
  ASSUME NEW T, IsTable(T), NEW V, IsTable(V), DOMAIN V = DOMAIN T,
         \A x \in DOMAIN T : Kept(T, V, x),
         NEW o \in OfferId, NEW r \in Row,
         Waiting(r) \/ (Proposing(T, r) /\ r.sup # o),
         r.by = "crawler" \/ (o \in DOMAIN T /\ r.by = T[o].by)
  PROVE  /\ IsTable(SetRow(V, o, r)) /\ DOMAIN SetRow(V, o, r) = DOMAIN T \cup {o}
         /\ Unruled(T, SetRow(V, o, r))
  <1> DEFINE U == SetRow(V, o, r)
  <1>1. /\ IsTable(U) /\ DOMAIN U = DOMAIN V \cup {o} /\ U[o] = r
        /\ \A x \in DOMAIN V : x # o => U[x] = V[x]
    <2>1. DOMAIN U = DOMAIN V \cup {o} /\ U[o] = r
      BY DEF SetRow
    <2>2. \A x \in DOMAIN V : x # o => U[x] = V[x]
      BY DEF SetRow
    <2>3. IsTable(U)
      BY SetRowLemma
    <2> QED
      BY <2>1, <2>2, <2>3
  <1> HIDE DEF U
  <1>2. \A x \in DOMAIN T \ {o} : Kept(T, U, x)
    BY <1>1 DEF Kept
  <1>3. Waiting(U[o]) \/ (Proposing(T, U[o]) /\ Kept(T, U, U[o].sup))
    BY <1>1, <1>2 DEF Proposing
  <1>4. Unruled(T, U)
    BY <1>1, <1>2, <1>3 DEF Unruled, Kept, SameRuling
  <1> QED
    BY <1>1, <1>4 DEF U

(* The row a change of the live offer q goes to proposes to replace q. *)
LEMMA ShadowRowProposes ==
  ASSUME NEW T, IsTable(T), Sound(T), NEW p \in Payload, NEW s \in Source,
         NEW q \in DOMAIN T, T[q].status = "published", NEW o,
         o \in DOMAIN T => \/ T[o].status = "expired" /\ T[o].source = s
                           \/ T[o].status = "pending" /\ T[o].sup = q
  PROVE  /\ ShadowRow(T, q, p, s, o) \in Row /\ ShadowRow(T, q, p, s, o).sup = q
         /\ Proposing(T, ShadowRow(T, q, p, s, o))
  <1>1. q \in 0..MaxOffers /\ q # NoOffer
    BY Bounds DEF IsTable
  <1>2. CASE o \notin DOMAIN T
    <2>1. NewRow(p, s, p.hash, "crawler", "pending", q) \in Row
      BY <1>1, FreshRow, PayloadColumns DEF Status
    <2> QED
      BY <1>2, <2>1 DEF NewRow, ShadowRow, Proposing
  <1>3. CASE o \in DOMAIN T
    <2> DEFINE r == [T[o] EXCEPT !.sup = q, !.status = "pending"]
    <2>1. T[o] \in Row
      BY <1>3 DEF IsTable
    <2>2. /\ r \in Row /\ r.status = "pending" /\ r.sup = q
          /\ r.by = T[o].by /\ r.reviewer = T[o].reviewer
      BY <2>1, <1>1 DEF Row, Status
    <2>3. s # None
      BY OfferTableAssumption
    <2>4. T[o].by = "crawler"
      BY <1>1, <1>3, <2>3 DEF Sound, Sourced, Shaped
    <2>5. T[o].reviewer # "judge"
      BY <1>3 DEF Sound, Marked
    <2>6. ShadowRow(T, q, p, s, o) = WithContent(r, p)
      BY <1>3 DEF ShadowRow
    <2> HIDE DEF r
    <2>7. /\ WithContent(r, p) \in Row /\ WithContent(r, p).status = "pending"
          /\ WithContent(r, p).sup = q /\ WithContent(r, p).by = "crawler"
          /\ WithContent(r, p).reviewer # "judge"
      BY <2>2, <2>4, <2>5, ContentRow
    <2> QED
      BY <2>6, <2>7 DEF Proposing
  <1> QED
    BY <1>2, <1>3

(* Branch 2: the change of a live offer becomes a proposal. *)
LEMMA ShadowUnruled ==
  ASSUME NEW T, IsTable(T), Sound(T), NEW p \in Payload, NEW s \in Source,
         NEW q \in DOMAIN T, T[q].status = "published", NEW n, n \notin DOMAIN T,
         \A x \in Revivable(T, p, s) : T[x].status = "expired",
         NEW U \in ShadowFor(T, q, p, s, n), DOMAIN U \subseteq OfferId
  PROVE  /\ IsTable(U) /\ DOMAIN T \subseteq DOMAIN U
         /\ DOMAIN U \subseteq DOMAIN T \cup {n} /\ Unruled(T, U)
  <1> DEFINE inFlight == Oldest(PendingShadows(T, q))
  <1>1. \A x \in inFlight : /\ x \in DOMAIN T /\ T[x].status = "pending" /\ T[x].sup = q
    BY DEF Oldest, PendingShadows, Having
  <1>2. \A x \in Revivable(T, p, s) :
          x \in DOMAIN T /\ T[x].status = "expired" /\ T[x].source = s
    BY DEF Revivable, Having
  <1>3. PICK o \in ShadowIds(T, q, p, s, n) :
          U = SetRow(RejectAll(Touch(T, {q}), inFlight \ {o}), o, ShadowRow(T, q, p, s, o))
    BY DEF ShadowFor
  <1>4. o \in Revivable(T, p, s) \cup inFlight \cup {n}
    BY DEF ShadowIds
  <1> HIDE DEF inFlight
  <1> DEFINE seen == Touch(T, {q})
             V == RejectAll(seen, inFlight \ {o})
  <1>5. /\ IsTable(seen) /\ DOMAIN seen = DOMAIN T
        /\ \A x \in DOMAIN T : SameRuling(seen[x], T[x]) /\ seen[x].status = T[x].status
    BY TouchLemma
  <1> HIDE DEF seen
  <1>6. /\ IsTable(V) /\ DOMAIN V = DOMAIN seen
        /\ \A x \in DOMAIN seen :
             /\ SameRuling(V[x], seen[x])
             /\ V[x].status = IF x \in inFlight \ {o} THEN "rejected" ELSE seen[x].status
    BY <1>5, RejectAllLemma
  <1> HIDE DEF V
  <1>7. IsTable(V) /\ DOMAIN V = DOMAIN T /\ \A x \in DOMAIN T : Kept(T, V, x)
    BY <1>1, <1>5, <1>6 DEF Kept, SameRuling
  <1>8. /\ ShadowRow(T, q, p, s, o) \in Row /\ ShadowRow(T, q, p, s, o).sup = q
        /\ Proposing(T, ShadowRow(T, q, p, s, o))
    BY <1>1, <1>2, <1>4, ShadowRowProposes
  <1>9. o # q
    BY <1>1, <1>2, <1>4
  <1>10. U = SetRow(V, o, ShadowRow(T, q, p, s, o))
    BY <1>3 DEF V, seen
  <1>11. o \in OfferId
    BY <1>10 DEF SetRow
  <1> DEFINE r == ShadowRow(T, q, p, s, o)
  <1> HIDE DEF r
  <1>12. r \in Row /\ Proposing(T, r) /\ r.sup # o /\ r.by = "crawler"
    BY <1>8, <1>9 DEF r, Proposing
  <1>13. /\ IsTable(SetRow(V, o, r)) /\ DOMAIN SetRow(V, o, r) = DOMAIN T \cup {o}
         /\ Unruled(T, SetRow(V, o, r))
    BY <1>7, <1>11, <1>12, WriteUnruled
  <1>14. U = SetRow(V, o, r)
    BY <1>10 DEF r
  <1> QED
    BY <1>1, <1>2, <1>4, <1>13, <1>14

(* Branch 3: a queued first submission is rewritten in place. *)
LEMMA RewriteUnruled ==
  ASSUME NEW T, IsTable(T), Sound(T), NEW p \in Payload, NEW s \in Source \cup {None},
         NEW o \in Queued(T, p, s)
  PROVE  /\ IsTable(SetRow(T, o, WithContent(T[o], p)))
         /\ DOMAIN SetRow(T, o, WithContent(T[o], p)) = DOMAIN T
         /\ Unruled(T, SetRow(T, o, WithContent(T[o], p)))
  <1> DEFINE r == WithContent(T[o], p)
  <1>1. o \in DOMAIN T /\ T[o].status = "pending" /\ T[o].sup = NoOffer
    BY DEF Queued, SamePage, Having
  <1>2. T[o] \in Row /\ o \in OfferId
    BY <1>1 DEF IsTable
  <1>3. /\ r \in Row /\ r.status = "pending" /\ r.sup = NoOffer /\ r.by = T[o].by
        /\ r.source = T[o].source /\ r.reviewer = T[o].reviewer
    BY <1>1, <1>2, ContentRow
  <1> HIDE DEF r
  <1>4. r \in Row /\ Waiting(r)
    BY <1>1, <1>3 DEF Waiting, Sound, Marked, Sourced
  <1>5. \A x \in DOMAIN T : Kept(T, T, x)
    BY DEF Kept, SameRuling
  <1>6. /\ IsTable(SetRow(T, o, r)) /\ DOMAIN SetRow(T, o, r) = DOMAIN T \cup {o}
        /\ Unruled(T, SetRow(T, o, r))
    BY <1>1, <1>2, <1>3, <1>4, <1>5, WriteUnruled
  <1> QED
    BY <1>1, <1>6 DEF r

(* The last branch: a row of its own. *)
LEMMA InsertUnruled ==
  ASSUME NEW T, IsTable(T), NEW p \in Payload, NEW s \in Source \cup {None},
         NEW st \in {"pending", "rejected"}, NEW n \in OfferId
  PROVE  /\ IsTable(SetRow(T, n, NewRow(p, s, p.hash, "crawler", st, NoOffer)))
         /\ DOMAIN SetRow(T, n, NewRow(p, s, p.hash, "crawler", st, NoOffer)) = DOMAIN T \cup {n}
         /\ Unruled(T, SetRow(T, n, NewRow(p, s, p.hash, "crawler", st, NoOffer)))
  <1> DEFINE r == NewRow(p, s, p.hash, "crawler", st, NoOffer)
  <1>1. r \in Row
    <2>1. NoOffer \in 0..MaxOffers /\ st \in Status /\ p.hash \in Hash \cup {None}
      BY Bounds, PayloadColumns DEF Status
    <2> QED
      BY <2>1, FreshRow
  <1>2. Waiting(r) /\ r.by = "crawler"
    BY DEF Waiting, NewRow
  <1> HIDE DEF r
  <1>3. \A x \in DOMAIN T : Kept(T, T, x)
    BY DEF Kept, SameRuling
  <1>4. /\ IsTable(SetRow(T, n, r)) /\ DOMAIN SetRow(T, n, r) = DOMAIN T \cup {n}
        /\ Unruled(T, SetRow(T, n, r))
    BY <1>1, <1>2, <1>3, WriteUnruled
  <1> QED
    BY <1>4 DEF r

(* create_offer, whatever branch it takes, rules on nothing. *)
LEMMA CreateOfferUnruled ==
  ASSUME NEW T, IsTable(T), Sound(T), NEW p \in Payload, NEW s \in Source \cup {None},
         NEW bad \in BOOLEAN, NEW n, n \notin DOMAIN T,
         NEW U \in CreateOffer(T, p, s, bad, n), DOMAIN U \subseteq OfferId
  PROVE  /\ IsTable(U) /\ DOMAIN T \subseteq DOMAIN U
         /\ DOMAIN U \subseteq DOMAIN T \cup {n} /\ Unruled(T, U)
  <1> DEFINE Good == /\ IsTable(U) /\ DOMAIN T \subseteq DOMAIN U
                     /\ DOMAIN U \subseteq DOMAIN T \cup {n} /\ Unruled(T, U)
             live == IF bad THEN {} ELSE Live(T, p, s)
             queued == IF bad THEN {} ELSE Queued(T, p, s)
             target == IF bad THEN {} ELSE SameTarget(T, p)
  <1>1. ASSUME NEW o \in SameHash(T, p, s), U = SeeAgain(T, o)
        PROVE  Good
    <2>1. o \in DOMAIN T
      BY DEF SameHash, Having
    <2> QED
      BY <1>1, <2>1, SeeAgainUnruled
  <1>2. ASSUME SameHash(T, p, s) = {}, NEW q \in Oldest(live),
               U \in ShadowFor(T, q, p, s, n)
        PROVE  Good
    <2>1. q \in DOMAIN T /\ T[q].status = "published" /\ s \in Source
      BY DEF Oldest, Live, SamePage, Having
    <2>2. \A x \in Revivable(T, p, s) : T[x].status = "expired"
      BY <1>2 DEF Revivable, SameHash, Having
    <2> QED
      BY <1>2, <2>1, <2>2, ShadowUnruled
  <1>3. ASSUME NEW S, U = Touch(T, S)
        PROVE  Good
    BY <1>3, TouchUnruled
  <1>4. ASSUME NEW o \in Oldest(queued), U = SetRow(T, o, WithContent(T[o], p))
        PROVE  Good
    <2>1. o \in Queued(T, p, s)
      BY DEF Oldest
    <2> QED
      BY <1>4, <2>1, RewriteUnruled
  <1>5. ASSUME NEW o \in Oldest(target), U = Merge(T, o, p)
        PROVE  Good
    <2>1. o \in DOMAIN T
      BY DEF Oldest, SameTarget, Having
    <2> QED
      BY <1>5, <2>1, MergeUnruled
  <1>6. ASSUME U = SetRow(T, n, NewRow(p, s, p.hash, "crawler", BirthStatus(bad), NoOffer))
        PROVE  Good
    <2>1. n \in OfferId
      BY <1>6 DEF SetRow
    <2> DEFINE st == BirthStatus(bad)
    <2>2. st \in {"pending", "rejected"}
      BY DEF BirthStatus
    <2>3. U = SetRow(T, n, NewRow(p, s, p.hash, "crawler", st, NoOffer))
      BY <1>6
    <2> HIDE DEF st
    <2> DEFINE W == SetRow(T, n, NewRow(p, s, p.hash, "crawler", st, NoOffer))
    <2>4. IsTable(W) /\ DOMAIN W = DOMAIN T \cup {n} /\ Unruled(T, W)
      BY <2>1, <2>2, InsertUnruled
    <2> QED
      BY <2>3, <2>4
  <1>7. \/ \E o \in SameHash(T, p, s) : U = SeeAgain(T, o)
        \/ SameHash(T, p, s) = {} /\ \E q \in Oldest(live) : U \in ShadowFor(T, q, p, s, n)
        \/ \E S : U = Touch(T, S)
        \/ \E o \in Oldest(queued) : U = SetRow(T, o, WithContent(T[o], p))
        \/ \E o \in Oldest(target) : U = Merge(T, o, p)
        \/ U = SetRow(T, n, NewRow(p, s, p.hash, "crawler", BirthStatus(bad), NoOffer))
    BY Zenon DEF CreateOffer
  <1> HIDE DEF Good, live, queued, target
  <1>8. Good
    BY <1>1, <1>2, <1>3, <1>4, <1>5, <1>6, <1>7
  <1> QED
    BY <1>8 DEF Good

---------------------------------------------------------------------------
(* Row by row, what a submission of p under source s may leave in U.       *)

(* an offer that is seen again, or leaves the queue with its live parent   *)
Resighted(T, U, bad, o) ==
  /\ o \in DOMAIN T
  /\ SameRuling(U[o], T[o])
  /\ \/ U[o].status = T[o].status
     \/ T[o].status = "pending" /\ U[o].status = "rejected"
  /\ bad => U[o].links = T[o].links

Carries(r, p) == r.status = "pending" /\ r.content = p /\ r.hash = p.hash

(* a pending offer, queued or a shadow in flight, that now says p          *)
Refilled(T, U, p, s, o) ==
  /\ o \in DOMAIN T /\ T[o].status = "pending"
  /\ Carries(U[o], p) /\ U[o].by = T[o].by /\ U[o].source = T[o].source
  /\ U[o].reviewer = T[o].reviewer /\ U[o].sup = T[o].sup
  /\ T[o].source = s \/ T[o].sup \in Live(T, p, s)

(* an expired offer that comes back as the shadow of the live one          *)
Revived(T, U, p, s, o) ==
  /\ o \in DOMAIN T /\ T[o].status = "expired"
  /\ p.hash # None /\ T[o].hash = p.hash /\ T[o].source = s
  /\ Carries(U[o], p) /\ U[o].by = T[o].by /\ U[o].source = T[o].source
  /\ U[o].reviewer = T[o].reviewer /\ U[o].sup \in Live(T, p, s)

(* a new offer: a first submission, or the first shadow of the live offer  *)
Born(T, U, p, s, bad, o) ==
  /\ o \notin DOMAIN T
  /\ U[o].by = "crawler" /\ U[o].source = s /\ U[o].hash = p.hash /\ U[o].content = p
  /\ \/ U[o].sup = NoOffer /\ U[o].status = BirthStatus(bad)
     \/ /\ ~bad /\ U[o].status = "pending" /\ U[o].sup \in Live(T, p, s)
        /\ PendingShadows(T, U[o].sup) = {}

Written(T, U, p, s, bad, o) ==
  /\ SameHash(T, p, s) = {}
  /\ \/ ~bad /\ (Refilled(T, U, p, s, o) \/ Revived(T, U, p, s, o))
     \/ Born(T, U, p, s, bad, o)

(* at most one row of U is written, the rest is seen again at most         *)
Answered(T, U, p, s, bad) ==
  \E w : \A o \in DOMAIN U :
    Resighted(T, U, bad, o) \/ (o = w /\ Written(T, U, p, s, bad, o))

(* Branch 1 writes no row. *)
LEMMA SeeAgainRows ==
  ASSUME NEW T, IsTable(T), NEW o \in DOMAIN T, NEW bad
  PROVE  \A x \in DOMAIN SeeAgain(T, o) : Resighted(T, SeeAgain(T, o), bad, x)
  <1> DEFINE seen == Touch(T, {o, T[o].sup})
             stale == IF T[o].sup = NoOffer /\ T[o].status = "published"
                      THEN PendingShadows(T, o) ELSE {}
  <1>1. SeeAgain(T, o) = RejectAll(seen, stale)
    BY DEF SeeAgain
  <1>2. /\ IsTable(seen) /\ DOMAIN seen = DOMAIN T
        /\ \A x \in DOMAIN T : /\ SameRuling(seen[x], T[x]) /\ seen[x].status = T[x].status
                               /\ seen[x].links = T[x].links
    BY TouchLemma
  <1>3. \A x \in stale : x \in DOMAIN T /\ T[x].status = "pending"
    BY DEF PendingShadows, Having
  <1> HIDE DEF seen, stale
  <1>4. /\ DOMAIN RejectAll(seen, stale) = DOMAIN T
        /\ \A x \in DOMAIN T :
             /\ SameRuling(RejectAll(seen, stale)[x], seen[x])
             /\ RejectAll(seen, stale)[x].status
                  = IF x \in stale THEN "rejected" ELSE seen[x].status
             /\ RejectAll(seen, stale)[x].links = seen[x].links
    BY <1>2, RejectAllLemma
  <1> QED
    BY <1>1, <1>2, <1>3, <1>4 DEF Resighted, SameRuling

(* A sighting that falls on other rows writes none either. *)
LEMMA TouchRows ==
  ASSUME NEW T, IsTable(T), NEW S, NEW bad
  PROVE  \A x \in DOMAIN Touch(T, S) : Resighted(T, Touch(T, S), bad, x)
  BY TouchLemma DEF Resighted

(* Another provider's link is added to an offer no bad host is behind. *)
LEMMA MergeRows ==
  ASSUME NEW T, IsTable(T), NEW o \in DOMAIN T, NEW p, NEW bad, ~bad
  PROVE  /\ DOMAIN Merge(T, o, p) = DOMAIN T
         /\ \A x \in DOMAIN T : Resighted(T, Merge(T, o, p), bad, x)
  <1> DEFINE r == [T[o] EXCEPT !.links = T[o].links \cup {LinkOf(p)}, !.age = 0]
  <1>1. T[o] \in Row
    BY DEF IsTable
  <1>2. Merge(T, o, p) = [T EXCEPT ![o] = r]
    BY <1>1 DEF Merge, IsTable, Row
  <1>3. SameRuling(r, T[o]) /\ r.status = T[o].status
    BY <1>1 DEF Row, SameRuling
  <1> HIDE DEF r
  <1>4. T = [x \in DOMAIN T |-> T[x]]
    BY DEF IsTable
  <1> QED
    BY <1>2, <1>3, <1>4 DEF Resighted, SameRuling

(* Branch 3 writes the queued row. *)
LEMMA RewriteRows ==
  ASSUME NEW T, IsTable(T), NEW p \in Payload, NEW s, NEW o \in Queued(T, p, s),
         SameHash(T, p, s) = {}, NEW bad, ~bad
  PROVE  /\ DOMAIN SetRow(T, o, WithContent(T[o], p)) = DOMAIN T
         /\ Answered(T, SetRow(T, o, WithContent(T[o], p)), p, s, bad)
  <1> DEFINE r == WithContent(T[o], p)
             U == SetRow(T, o, r)
  <1>1. /\ o \in DOMAIN T /\ T[o].status = "pending" /\ T[o].source = s
    BY DEF Queued, SamePage, Having
  <1>2. T[o] \in Row
    BY <1>1 DEF IsTable
  <1>3. /\ r.status = "pending" /\ r.sup = T[o].sup /\ r.by = T[o].by
        /\ r.source = T[o].source /\ r.reviewer = T[o].reviewer
        /\ r.content = p /\ r.hash = p.hash
    BY <1>1, <1>2, ContentRow
  <1> HIDE DEF r
  <1>4. DOMAIN U = DOMAIN T /\ U[o] = r /\ \A x \in DOMAIN T : x # o => U[x] = T[x]
    BY <1>1 DEF SetRow
  <1> HIDE DEF U
  <1>5. Refilled(T, U, p, s, o)
    BY <1>1, <1>3, <1>4 DEF Refilled, Carries
  <1>6. \A x \in DOMAIN U : Resighted(T, U, bad, x) \/ (x = o /\ Written(T, U, p, s, bad, x))
    BY <1>4, <1>5 DEF Resighted, SameRuling, Written
  <1>7. DOMAIN U = DOMAIN T /\ Answered(T, U, p, s, bad)
    BY <1>4, <1>6 DEF Answered
  <1> QED
    BY <1>7 DEF U, r

(* The last branch: a first submission, refused at birth from a bad host. *)
LEMMA InsertRows ==
  ASSUME NEW T, IsTable(T), NEW p, NEW s, NEW bad, NEW n, n \notin DOMAIN T,
         SameHash(T, p, s) = {}
  PROVE  LET U == SetRow(T, n, NewRow(p, s, p.hash, "crawler", BirthStatus(bad), NoOffer))
         IN  DOMAIN U = DOMAIN T \cup {n} /\ Answered(T, U, p, s, bad)
  <1> DEFINE r == NewRow(p, s, p.hash, "crawler", BirthStatus(bad), NoOffer)
             U == SetRow(T, n, r)
  <1>1. /\ r.by = "crawler" /\ r.source = s /\ r.hash = p.hash /\ r.content = p
        /\ r.sup = NoOffer /\ r.status = BirthStatus(bad)
    BY DEF NewRow
  <1> HIDE DEF r
  <1>3. DOMAIN U = DOMAIN T \cup {n} /\ U[n] = r /\ \A x \in DOMAIN T : x # n => U[x] = T[x]
    BY DEF SetRow
  <1> HIDE DEF U
  <1>4. Born(T, U, p, s, bad, n)
    BY <1>1, <1>3 DEF Born
  <1>5. \A x \in DOMAIN U : Resighted(T, U, bad, x) \/ (x = n /\ Written(T, U, p, s, bad, x))
    BY <1>3, <1>4 DEF Resighted, SameRuling, Written
  <1>6. DOMAIN U = DOMAIN T \cup {n} /\ Answered(T, U, p, s, bad)
    BY <1>3, <1>5 DEF Answered
  <1> QED
    BY <1>6 DEF U, r

(* Branch 2: the shadow of the live offer q takes the change, the shadow   *)
(* that was in flight instead of it is dropped, q itself stays and is      *)
(* fresh.                                                                  *)
LEMMA ShadowRows ==
  ASSUME NEW T, IsTable(T), NEW p \in Payload, NEW s, NEW q \in Live(T, p, s),
         SameHash(T, p, s) = {}, NEW bad, ~bad, NEW n, n \notin DOMAIN T,
         NEW U \in ShadowFor(T, q, p, s, n)
  PROVE  /\ DOMAIN T \subseteq DOMAIN U /\ DOMAIN U \subseteq DOMAIN T \cup {n}
         /\ Answered(T, U, p, s, bad)
         /\ U[q].status = "published" /\ U[q].age = 0
  <1> DEFINE inFlight == Oldest(PendingShadows(T, q))
  <1>1. q \in DOMAIN T /\ T[q].status = "published"
    BY DEF Live, SamePage, Having
  <1>2. \A x \in inFlight : /\ x \in DOMAIN T /\ T[x].status = "pending" /\ T[x].sup = q
    BY DEF Oldest, PendingShadows, Having
  <1>3. \A x \in Revivable(T, p, s) :
          /\ x \in DOMAIN T /\ p.hash # None /\ T[x].source = s /\ T[x].hash = p.hash
          /\ T[x].status = "expired"
    BY DEF Revivable, SameHash, Having
  <1>4. inFlight = {} => PendingShadows(T, q) = {}
    BY OldestExists DEF PendingShadows, Having, IsTable
  <1>5. PICK o \in ShadowIds(T, q, p, s, n) :
          U = SetRow(RejectAll(Touch(T, {q}), inFlight \ {o}), o, ShadowRow(T, q, p, s, o))
    BY DEF ShadowFor
  <1>6. o \in Revivable(T, p, s) \/ o \in inFlight \/ (o = n /\ inFlight = {})
    BY <1>5 DEF ShadowIds
  <1> HIDE DEF inFlight
  <1> DEFINE seen == Touch(T, {q})
             V == RejectAll(seen, inFlight \ {o})
             r == ShadowRow(T, q, p, s, o)
  <1>7. /\ IsTable(seen) /\ DOMAIN seen = DOMAIN T
        /\ \A x \in DOMAIN T : /\ SameRuling(seen[x], T[x]) /\ seen[x].status = T[x].status
                               /\ seen[x].age = IF x = q THEN 0 ELSE T[x].age
    BY TouchLemma
  <1> HIDE DEF seen
  <1>8. /\ DOMAIN V = DOMAIN seen
        /\ \A x \in DOMAIN seen :
             /\ SameRuling(V[x], seen[x]) /\ V[x].age = seen[x].age
             /\ V[x].status = IF x \in inFlight \ {o} THEN "rejected" ELSE seen[x].status
    BY <1>7, RejectAllLemma
  <1> HIDE DEF V
  <1>9. U = SetRow(V, o, r)
    BY <1>5 DEF V, seen, r
  <1> HIDE DEF r
  <1>10. /\ DOMAIN U = DOMAIN T \cup {o} /\ U[o] = r
         /\ \A x \in DOMAIN T : x # o => U[x] = V[x]
    BY <1>7, <1>8, <1>9 DEF SetRow
  <1>11. \A x \in DOMAIN T \ {o} : Resighted(T, U, bad, x)
    BY <1>2, <1>7, <1>8, <1>10 DEF Resighted, SameRuling
  <1>12. Written(T, U, p, s, bad, o)
    <2>1. CASE o \in DOMAIN T
      <3> DEFINE t == [T[o] EXCEPT !.sup = q, !.status = "pending"]
      <3>1. T[o] \in Row
        BY <2>1 DEF IsTable
      <3>2. q \in 0..MaxOffers
        BY <1>1, Bounds DEF IsTable
      <3>3. /\ t \in Row /\ t.sup = q /\ t.status = "pending" /\ t.by = T[o].by
            /\ t.source = T[o].source /\ t.reviewer = T[o].reviewer
        BY <3>1, <3>2 DEF Row, Status
      <3>4. r = WithContent(t, p)
        BY <2>1 DEF r, ShadowRow
      <3> HIDE DEF t
      <3>5. /\ Carries(r, p) /\ r.by = T[o].by /\ r.source = T[o].source
            /\ r.reviewer = T[o].reviewer /\ r.sup = q
        BY <3>3, <3>4, ContentRow DEF Carries
      <3>6. CASE o \in Revivable(T, p, s)
        BY <1>3, <1>10, <3>5, <3>6 DEF Written, Revived
      <3>7. CASE o \in inFlight
        BY <1>2, <1>10, <3>5, <3>7 DEF Written, Refilled
      <3> QED
        BY <1>6, <2>1, <3>6, <3>7
    <2>2. CASE o \notin DOMAIN T
      <3>1. PendingShadows(T, q) = {}
        BY <1>2, <1>3, <1>4, <1>6, <2>2
      <3>2. /\ r.by = "crawler" /\ r.source = s /\ r.hash = p.hash /\ r.content = p
            /\ r.sup = q /\ r.status = "pending"
        BY <2>2 DEF r, ShadowRow, NewRow
      <3> QED
        BY <1>10, <2>2, <3>1, <3>2 DEF Written, Born
    <2> QED
      BY <2>1, <2>2
  <1>13. Answered(T, U, p, s, bad)
    <2>1. \A x \in DOMAIN U : Resighted(T, U, bad, x) \/ (x = o /\ Written(T, U, p, s, bad, x))
      BY <1>10, <1>11, <1>12
    <2> QED
      BY <2>1 DEF Answered
  <1>14. U[q].status = "published" /\ U[q].age = 0
    <2>1. q # o /\ q \notin inFlight
      BY <1>1, <1>2, <1>3, <1>6
    <2> QED
      BY <1>1, <1>7, <1>8, <1>10, <2>1
  <1>15. DOMAIN T \subseteq DOMAIN U /\ DOMAIN U \subseteq DOMAIN T \cup {n}
    BY <1>2, <1>3, <1>6, <1>10
  <1> QED
    BY <1>13, <1>14, <1>15

(* create_offer writes one row at most, and only when branch 1 found none; *)
(* a bad source's submission writes none but a row refused at birth.       *)
LEMMA SubmissionRows ==
  ASSUME NEW T, IsTable(T), NEW p \in Payload, NEW s, NEW bad \in BOOLEAN,
         NEW n, n \notin DOMAIN T, NEW U \in CreateOffer(T, p, s, bad, n)
  PROVE  /\ DOMAIN T \subseteq DOMAIN U /\ DOMAIN U \subseteq DOMAIN T \cup {n}
         /\ Answered(T, U, p, s, bad)
  <1> DEFINE Good == /\ DOMAIN T \subseteq DOMAIN U /\ DOMAIN U \subseteq DOMAIN T \cup {n}
                     /\ Answered(T, U, p, s, bad)
             none == SameHash(T, p, s) = {}
  <1>1. ASSUME NEW o \in SameHash(T, p, s), U = SeeAgain(T, o)
        PROVE  Good
    <2>1. o \in DOMAIN T
      BY DEF SameHash, Having
    <2>2. DOMAIN U = DOMAIN T /\ \A x \in DOMAIN U : Resighted(T, U, bad, x)
      BY <1>1, <2>1, SeeAgainRows, SeeAgainUnruled
    <2> QED
      BY <2>2 DEF Answered
  <1>2. ASSUME none, ~bad, NEW q \in Oldest(Live(T, p, s)), U \in ShadowFor(T, q, p, s, n)
        PROVE  Good
    <2>1. q \in Live(T, p, s)
      BY DEF Oldest
    <2> QED
      BY <1>2, <2>1, ShadowRows
  <1>3. ASSUME NEW S, U = Touch(T, S)
        PROVE  Good
    <2>1. DOMAIN U = DOMAIN T /\ \A x \in DOMAIN U : Resighted(T, U, bad, x)
      BY <1>3, TouchRows, TouchLemma
    <2> QED
      BY <2>1 DEF Answered
  <1>4. ASSUME none, ~bad, NEW o \in Oldest(Queued(T, p, s)),
               U = SetRow(T, o, WithContent(T[o], p))
        PROVE  Good
    <2>1. o \in Queued(T, p, s)
      BY DEF Oldest
    <2> QED
      BY <1>4, <2>1, RewriteRows
  <1>5. ASSUME ~bad, NEW o \in Oldest(SameTarget(T, p)), U = Merge(T, o, p)
        PROVE  Good
    <2>1. o \in DOMAIN T
      BY DEF Oldest, SameTarget, Having
    <2>2. DOMAIN U = DOMAIN T /\ \A x \in DOMAIN T : Resighted(T, U, bad, x)
      BY <1>5, <2>1, MergeRows
    <2> QED
      BY <2>2 DEF Answered
  <1>6. ASSUME none, U = SetRow(T, n, NewRow(p, s, p.hash, "crawler", BirthStatus(bad), NoOffer))
        PROVE  Good
    <2> DEFINE W == SetRow(T, n, NewRow(p, s, p.hash, "crawler", BirthStatus(bad), NoOffer))
    <2>1. DOMAIN W = DOMAIN T \cup {n} /\ Answered(T, W, p, s, bad)
      BY <1>6, InsertRows
    <2> QED
      BY <1>6, <2>1
  <1>7. \/ \E o \in SameHash(T, p, s) : U = SeeAgain(T, o)
        \/ none /\ ~bad /\ \E q \in Oldest(Live(T, p, s)) : U \in ShadowFor(T, q, p, s, n)
        \/ \E S : U = Touch(T, S)
        \/ none /\ ~bad /\ \E o \in Oldest(Queued(T, p, s)) : U = SetRow(T, o, WithContent(T[o], p))
        \/ ~bad /\ \E o \in Oldest(SameTarget(T, p)) : U = Merge(T, o, p)
        \/ none /\ U = SetRow(T, n, NewRow(p, s, p.hash, "crawler", BirthStatus(bad), NoOffer))
    <2>1. CASE bad
      BY <2>1, Zenon DEF CreateOffer
    <2>2. CASE ~bad
      BY <2>2, Zenon DEF CreateOffer
    <2> QED
      BY <2>1, <2>2
  <1> HIDE DEF Good, none
  <1>8. Good
    BY <1>1, <1>2, <1>3, <1>4, <1>5, <1>6, <1>7
  <1> QED
    BY <1>8 DEF Good

(* The only live version of a page is fresh after a sighting of the page,  *)
(* unless the content found belongs to an offer that is not its shadow.    *)
LEMMA SightingFreshens ==
  ASSUME NEW T, IsTable(T), NEW p \in Payload, NEW s, NEW n, n \notin DOMAIN T,
         NEW bad, ~bad, NEW U \in CreateOffer(T, p, s, bad, n), NEW o, Live(T, p, s) = {o},
         \A x \in SameHash(T, p, s) \ {o} : T[x].sup = o
  PROVE  U[o].status = "published" /\ U[o].age = 0
  <1>1. o \in DOMAIN T /\ T[o].status = "published"
    BY DEF Live, SamePage, Having
  <1>2. ASSUME NEW x \in SameHash(T, p, s), U = SeeAgain(T, x)
        PROVE  U[o].status = "published" /\ U[o].age = 0
    <2> DEFINE S == {x, T[x].sup}
               seen == Touch(T, S)
               stale == IF T[x].sup = NoOffer /\ T[x].status = "published"
                        THEN PendingShadows(T, x) ELSE {}
    <2>1. o \in S
      BY <1>2
    <2>2. o \notin stale
      BY <1>1 DEF PendingShadows, Having
    <2>3. U = RejectAll(seen, stale)
      BY <1>2 DEF SeeAgain
    <2> HIDE DEF S, stale
    <2>4. IsTable(seen) /\ seen[o].status = "published" /\ seen[o].age = 0 /\ DOMAIN seen = DOMAIN T
      BY <1>1, <2>1, TouchLemma
    <2> HIDE DEF seen
    <2> QED
      BY <1>1, <2>2, <2>3, <2>4, RejectAllLemma
  <1>3. ASSUME U = Touch(T, {o})
        PROVE  U[o].status = "published" /\ U[o].age = 0
    BY <1>1, <1>3, TouchLemma
  <1>4. ASSUME SameHash(T, p, s) = {}, U \in ShadowFor(T, o, p, s, n)
        PROVE  U[o].status = "published" /\ U[o].age = 0
    BY <1>4, ShadowRows
  <1>5. \/ \E x \in SameHash(T, p, s) : U = SeeAgain(T, x)
        \/ /\ SameHash(T, p, s) = {}
           /\ \E q \in Oldest(Live(T, p, s)) : U = Touch(T, {q}) \/ U \in ShadowFor(T, q, p, s, n)
    <2>1. Live(T, p, s) # {}
      OBVIOUS
    <2> QED
      BY <2>1, Zenon DEF CreateOffer
  <1>6. \A q \in Oldest(Live(T, p, s)) : q = o
    BY DEF Oldest
  <1> QED
    BY <1>2, <1>3, <1>4, <1>5, <1>6

---------------------------------------------------------------------------
(* The rulings                                                             *)

(* What set_status leaves: the offer ruled on, its live parent expired when *)
(* it is published, the rest as it was.                                    *)
LEMMA SetStatusRows ==
  ASSUME NEW T, IsTable(T), NEW o \in DOMAIN T, NEW st \in Status,
         T[o].sup # o
  PROVE  /\ IsTable(SetStatus(T, o, st)) /\ DOMAIN SetStatus(T, o, st) = DOMAIN T
         /\ SetStatus(T, o, st)[o].status = st
         /\ SetStatus(T, o, st)[o].reviewer = "admin"
         /\ SetStatus(T, o, st)[o].sup = IF st = "published" THEN NoOffer ELSE T[o].sup
         /\ SetStatus(T, o, st)[o].by = T[o].by
         /\ SetStatus(T, o, st)[o].source = T[o].source
         /\ SetStatus(T, o, st)[o].content = T[o].content
         /\ SetStatus(T, o, st)[o].hash = T[o].hash
         /\ \A x \in DOMAIN T \ {o} :
              \/ SetStatus(T, o, st)[x] = T[x]
              \/ /\ T[x].status = "published" /\ SetStatus(T, o, st)[x].status = "expired"
                 /\ SameRuling(SetStatus(T, o, st)[x], T[x])
  <1> DEFINE q == T[o].sup
             r == [T[o] EXCEPT !.status = st, !.reviewer = "admin"]
             ruled == [T EXCEPT ![o] = r]
             live == q \in DOMAIN T /\ T[q].status = "published"
             w == [T[q] EXCEPT !.status = "expired"]
             expired == IF live THEN [ruled EXCEPT ![q] = w] ELSE ruled
             r2 == [r EXCEPT !.age = 0, !.sup = NoOffer]
  <1>1. o \in OfferId /\ \A x \in DOMAIN T : T[x] \in Row
    BY DEF IsTable
  <1>2. T = [x \in DOMAIN T |-> T[x]] /\ DOMAIN T \subseteq OfferId
    BY DEF IsTable
  <1>3. /\ r \in Row /\ r.status = st /\ r.reviewer = "admin" /\ r.sup = T[o].sup
        /\ r.by = T[o].by /\ r.source = T[o].source /\ r.content = T[o].content
        /\ r.hash = T[o].hash
    BY <1>1 DEF Row
  <1>4. /\ r2 \in Row /\ r2.status = st /\ r2.reviewer = "admin" /\ r2.sup = NoOffer
        /\ r2.by = T[o].by /\ r2.source = T[o].source /\ r2.content = T[o].content
        /\ r2.hash = T[o].hash
    BY <1>1, <1>3, Bounds DEF Row
  <1>5. live => w \in Row /\ w.status = "expired" /\ SameRuling(w, T[q])
    BY <1>1 DEF Row, Status, SameRuling
  <1>6. SetStatus(T, o, st) = IF st # "published" THEN ruled
                              ELSE [expired EXCEPT ![o] = r2]
    <2>1. [T EXCEPT ![o].status = st, ![o].reviewer = "admin"] = ruled
      BY <1>1, <1>2 DEF Row
    <2>2. live => [ruled EXCEPT ![q].status = "expired"] = [ruled EXCEPT ![q] = w]
      BY <1>2
    <2>3. DOMAIN expired = DOMAIN T /\ expired[o] = r
      BY <1>2
    <2> HIDE DEF r
    <2>4. [expired EXCEPT ![o].age = 0, ![o].sup = NoOffer] = [expired EXCEPT ![o] = r2]
      BY <1>2, <2>3
    <2> QED
      BY <2>1, <2>2, <2>4 DEF SetStatus
  <1> HIDE DEF r, r2, w
  <1> QED
    BY <1>1, <1>2, <1>3, <1>4, <1>5, <1>6 DEF IsTable

(* In an acyclic table no offer replaces itself. *)
LEMMA NoSelfLoop ==
  ASSUME NEW T, Acyclic(T), NEW o \in DOMAIN T
  PROVE  T[o].sup # o
  <1>1. {o} \in SUBSET DOMAIN T /\ {o} # {}
    OBVIOUS
  <1>2. PICK x \in {o} : T[x].sup \notin {o}
    BY <1>1 DEF Acyclic
  <1> QED
    BY <1>2

(* A ruling keeps the table sound and can make visible only the offer      *)
(* ruled on, with the content it has.                                      *)
LEMMA SetStatusSound ==
  ASSUME NEW T, IsTable(T), Sound(T), NEW o \in DOMAIN T,
         NEW st \in Status \ {"expired"}
  PROVE  /\ IsTable(SetStatus(T, o, st)) /\ DOMAIN SetStatus(T, o, st) = DOMAIN T
         /\ Sound(SetStatus(T, o, st))
         /\ SetStatus(T, o, st)[o].content = T[o].content
         /\ SetStatus(T, o, st)[o].status = st
         /\ \A x \in DOMAIN T \ {o} :
              SetStatus(T, o, st)[x].status = "published" => SetStatus(T, o, st)[x] = T[x]
         /\ \A x \in DOMAIN T : SetStatus(T, o, st)[x].by = T[x].by
  <1> DEFINE U == SetStatus(T, o, st)
  <1>1. T[o].sup # o /\ st \in Status
    BY NoSelfLoop DEF Sound, Status
  <1>2. /\ IsTable(U) /\ DOMAIN U = DOMAIN T
        /\ U[o].status = st /\ U[o].reviewer = "admin"
        /\ U[o].sup = IF st = "published" THEN NoOffer ELSE T[o].sup
        /\ U[o].by = T[o].by /\ U[o].source = T[o].source /\ U[o].content = T[o].content
        /\ \A x \in DOMAIN T \ {o} :
             \/ U[x] = T[x]
             \/ /\ T[x].status = "published" /\ U[x].status = "expired"
                /\ SameRuling(U[x], T[x])
    BY <1>1, SetStatusRows
  <1> HIDE DEF U
  <1>3. Shaped(U)
    BY <1>2 DEF Shaped, Sound, SameRuling, Status
  <1>4. Acyclic(U)
    <2>1. NoOffer \notin DOMAIN U
      BY <1>2, Bounds DEF IsTable
    <2>2. \A x \in DOMAIN U : U[x].sup = NoOffer \/ (x \in DOMAIN T /\ U[x].sup = T[x].sup)
      BY <1>2 DEF SameRuling
    <2> QED
      BY <2>1, <2>2, NoNewCycle DEF Sound
  <1>5. Marked(U)
    BY <1>2 DEF Marked, Sound, SameRuling
  <1>6. Sourced(U)
    BY <1>2 DEF Sourced, Sound, SameRuling
  <1>7. /\ IsTable(U) /\ DOMAIN U = DOMAIN T /\ Sound(U)
        /\ U[o].content = T[o].content /\ U[o].status = st
        /\ \A x \in DOMAIN T \ {o} : U[x].status = "published" => U[x] = T[x]
        /\ \A x \in DOMAIN T : U[x].by = T[x].by
    BY <1>2, <1>3, <1>4, <1>5, <1>6 DEF Sound, SameRuling
  <1> QED
    BY <1>7 DEF U

(* The judge's ruling. *)
LEMMA JudgeSound ==
  ASSUME NEW T, IsTable(T), Sound(T), NEW o \in Judgeable(T), NEW U, U = JudgeReject(T, o)
  PROVE  /\ IsTable(U) /\ DOMAIN U = DOMAIN T /\ Sound(U) /\ ShowsNothingNew(T, U)
         /\ U[o].status = "rejected" /\ U[o].reviewer = "judge" /\ SameOrigin(U[o], T[o])
         /\ \A x \in DOMAIN T \ {o} : U[x] = T[x]
  <1> DEFINE r == [T[o] EXCEPT !.status = "rejected", !.reviewer = "judge"]
  <1>1. o \in DOMAIN T /\ T[o].by = "crawler"
    BY DEF Judgeable, Having
  <1>2. /\ o \in OfferId /\ T[o] \in Row /\ DOMAIN T \subseteq OfferId
        /\ T = [x \in DOMAIN T |-> T[x]]
    BY <1>1 DEF IsTable
  <1>3. /\ r \in Row /\ r.status = "rejected" /\ r.by = "crawler"
        /\ r.reviewer = "judge" /\ SameOrigin(r, T[o])
    BY <1>1, <1>2 DEF Row, Status, SameOrigin
  <1>4. U = [T EXCEPT ![o] = r]
    BY <1>1, <1>2 DEF JudgeReject, Row
  <1> HIDE DEF r
  <1>5. /\ DOMAIN U = DOMAIN T /\ U[o] = r /\ \A x \in DOMAIN T \ {o} : U[x] = T[x]
    BY <1>1, <1>2, <1>4
  <1>6. IsTable(U)
    BY <1>2, <1>3, <1>4 DEF IsTable
  <1>7. Acyclic(U)
    <2>1. NoOffer \notin DOMAIN U
      BY <1>6, Bounds DEF IsTable
    <2>2. \A x \in DOMAIN U : x \in DOMAIN T /\ U[x].sup = T[x].sup
      BY <1>3, <1>5 DEF SameOrigin
    <2> QED
      BY <2>1, <2>2, NoNewCycle DEF Sound
  <1>8. Shaped(U) /\ Marked(U) /\ Sourced(U)
    BY <1>3, <1>5 DEF Shaped, Marked, Sourced, Sound, SameOrigin
  <1>9. ShowsNothingNew(T, U)
    BY <1>3, <1>5 DEF ShowsNothingNew
  <1> QED
    BY <1>3, <1>5, <1>6, <1>7, <1>8, <1>9 DEF Sound

---------------------------------------------------------------------------
(* The sweeps and the bookkeeping                                          *)

(* Expiry, the directory sweep, and a day passing rule on nothing. *)
LEMMA ExpireUnruled ==
  ASSUME NEW T, IsTable(T)
  PROVE  /\ IsTable(Expire(T)) /\ DOMAIN Expire(T) = DOMAIN T /\ Unruled(T, Expire(T))
         /\ \A o \in DOMAIN T : Kept(T, Expire(T), o)
  <1>1. \A o \in DOMAIN T : T[o] \in Row
    BY DEF IsTable
  <1>2. \A o \in DOMAIN T :
          LET r == [T[o] EXCEPT !.status = "expired"]
          IN  r \in Row /\ SameRuling(r, T[o]) /\ r.status = "expired"
    BY <1>1 DEF Row, Status, SameRuling
  <1>3. \A o \in Stale(T) : o \in DOMAIN T /\ T[o].status = "published"
    BY DEF Stale, Having
  <1>4. IsTable(Expire(T)) /\ DOMAIN Expire(T) = DOMAIN T
    BY <1>1, <1>2 DEF Expire, IsTable
  <1>5. \A o \in DOMAIN T : Kept(T, Expire(T), o)
    BY <1>1, <1>2, <1>3 DEF Expire, Kept, SameRuling
  <1> QED
    BY <1>4, <1>5 DEF Unruled, Kept, SameRuling

(* A sweep rejects pending offers only: no ruling on what is live.         *)
LEMMA SweepUnruled ==
  ASSUME NEW T, IsTable(T), NEW S, \A o \in S : o \in DOMAIN T => T[o].status = "pending"
  PROVE  /\ IsTable(RejectAll(T, S)) /\ DOMAIN RejectAll(T, S) = DOMAIN T
         /\ Unruled(T, RejectAll(T, S)) /\ \A o \in DOMAIN T : Kept(T, RejectAll(T, S), o)
  <1>1. /\ IsTable(RejectAll(T, S)) /\ DOMAIN RejectAll(T, S) = DOMAIN T
        /\ \A o \in DOMAIN T :
             /\ SameRuling(RejectAll(T, S)[o], T[o])
             /\ RejectAll(T, S)[o].status = IF o \in S THEN "rejected" ELSE T[o].status
    BY RejectAllLemma
  <1> QED
    BY <1>1 DEF Unruled, Kept, SameRuling

(* A day passing rules on nothing. *)
LEMMA AgeUnruled ==
  ASSUME NEW T, IsTable(T)
  PROVE  /\ IsTable(Age(T)) /\ DOMAIN Age(T) = DOMAIN T /\ Unruled(T, Age(T))
         /\ \A o \in DOMAIN T : Kept(T, Age(T), o)
  <1> DEFINE older(r) == [r EXCEPT !.age = IF r.age < StaleAge THEN r.age + 1 ELSE StaleAge]
  <1>1. \A o \in DOMAIN T : T[o] \in Row
    BY DEF IsTable
  <1>2. \A r \in Row : (IF r.age < StaleAge THEN r.age + 1 ELSE StaleAge) \in 0..StaleAge
    BY OfferTableAssumption DEF Row
  <1>3. \A r \in Row : /\ older(r) \in Row /\ SameRuling(older(r), r)
                       /\ older(r).status = r.status
    BY <1>2 DEF Row, SameRuling
  <1>4. Age(T) = [o \in DOMAIN T |-> older(T[o])]
    BY DEF Age
  <1> HIDE DEF older
  <1>5. IsTable(Age(T)) /\ DOMAIN Age(T) = DOMAIN T
    BY <1>1, <1>3, <1>4 DEF IsTable
  <1>6. \A o \in DOMAIN T : Kept(T, Age(T), o)
    BY <1>1, <1>3, <1>4 DEF Kept
  <1> QED
    BY <1>5, <1>6 DEF Unruled, Kept, SameRuling

(* ON DELETE SET NULL keeps the links whole. *)
LEMMA DeleteSound ==
  ASSUME NEW T, IsTable(T), Sound(T), NEW o \in DOMAIN T
  PROVE  /\ IsTable(Delete(T, o)) /\ DOMAIN Delete(T, o) = DOMAIN T \ {o} /\ Sound(Delete(T, o))
         /\ ShowsNothingNew(T, Delete(T, o))
         /\ \A x \in DOMAIN T \ {o} : SameButLink(Delete(T, o)[x], T[x])
                                       /\ Delete(T, o)[x].source = T[x].source
  <1> DEFINE cut(r) == [r EXCEPT !.sup = NoOffer]
             U == Delete(T, o)
  <1>1. \A x \in DOMAIN T : T[x] \in Row
    BY DEF IsTable
  <1>2. \A r \in Row : /\ cut(r) \in Row /\ cut(r).sup = NoOffer /\ cut(r).by = r.by
                       /\ cut(r).status = r.status /\ cut(r).source = r.source
                       /\ cut(r).reviewer = r.reviewer /\ cut(r).content = r.content
                       /\ cut(r).hash = r.hash
    BY Bounds DEF Row
  <1>3. U = [x \in DOMAIN T \ {o} |-> IF T[x].sup = o THEN cut(T[x]) ELSE T[x]]
    BY DEF Delete
  <1> HIDE DEF cut, U
  <1>4. IsTable(U) /\ DOMAIN U = DOMAIN T \ {o}
    BY <1>1, <1>2, <1>3 DEF IsTable
  <1>5. \A x \in DOMAIN U :
          /\ U[x].by = T[x].by /\ U[x].status = T[x].status /\ U[x].source = T[x].source
          /\ U[x].reviewer = T[x].reviewer /\ U[x].content = T[x].content
          /\ U[x].hash = T[x].hash /\ U[x].sup = IF T[x].sup = o THEN NoOffer ELSE T[x].sup
    BY <1>1, <1>2, <1>3
  <1>6. Shaped(U) /\ Marked(U) /\ Sourced(U)
    BY <1>4, <1>5 DEF Shaped, Marked, Sourced, Sound
  <1>7. Acyclic(U)
    <2>1. NoOffer \notin DOMAIN U
      BY <1>4, Bounds DEF IsTable
    <2>2. \A x \in DOMAIN U : U[x].sup = NoOffer \/ (x \in DOMAIN T /\ U[x].sup = T[x].sup)
      BY <1>4, <1>5
    <2> QED
      BY <2>1, <2>2, NoNewCycle DEF Sound
  <1>8. /\ IsTable(U) /\ DOMAIN U = DOMAIN T \ {o} /\ Sound(U) /\ ShowsNothingNew(T, U)
        /\ \A x \in DOMAIN T \ {o} : SameButLink(U[x], T[x])
                                       /\ U[x].source = T[x].source
    BY <1>4, <1>5, <1>6, <1>7 DEF Sound, ShowsNothingNew, SameButLink
  <1> QED
    BY <1>8 DEF U

(* A table whose rows keep all that Sound and the public look at. *)
LEMMA SameRulingsSound ==
  ASSUME NEW T, Sound(T), NEW U, IsTable(U), DOMAIN U = DOMAIN T,
         \A x \in DOMAIN T :
           /\ U[x].by = T[x].by /\ U[x].sup = T[x].sup
           /\ U[x].reviewer = T[x].reviewer /\ U[x].status = T[x].status
           /\ U[x].source # None => (U[x].source = T[x].source \/ U[x].by = "crawler")
  PROVE  Sound(U)
  <1>1. Acyclic(U)
    <2>1. NoOffer \notin DOMAIN U
      BY Bounds DEF IsTable
    <2> QED
      BY <2>1, NoNewCycle DEF Sound
  <1>2. Shaped(U) /\ Marked(U) /\ Sourced(U)
    BY DEF Shaped, Marked, Sourced, Sound
  <1> QED
    BY <1>1, <1>2 DEF Sound

(* Deleting a source keeps its offers, live ones included. *)
LEMMA OrphanSound ==
  ASSUME NEW T, IsTable(T), Sound(T), NEW s, NEW U, U = Orphan(T, s)
  PROVE  /\ IsTable(U) /\ DOMAIN U = DOMAIN T /\ Sound(U) /\ ShowsNothingNew(T, U)
         /\ \A x \in DOMAIN T :
              /\ SameButLink(U[x], T[x]) /\ U[x].sup = T[x].sup
              /\ U[x].source = IF T[x].source = s THEN None ELSE T[x].source
  <1> DEFINE freed(r) == [r EXCEPT !.source = None]
  <1>1. \A x \in DOMAIN T : T[x] \in Row
    BY DEF IsTable
  <1>2. \A r \in Row : /\ freed(r) \in Row /\ freed(r).sup = r.sup /\ freed(r).by = r.by
                       /\ freed(r).status = r.status /\ freed(r).source = None
                       /\ freed(r).reviewer = r.reviewer /\ freed(r).content = r.content
                       /\ freed(r).hash = r.hash
    BY DEF Row
  <1>3. U = [x \in DOMAIN T |-> IF T[x].source = s THEN freed(T[x]) ELSE T[x]]
    BY DEF Orphan
  <1> HIDE DEF freed
  <1>4. IsTable(U) /\ DOMAIN U = DOMAIN T
    BY <1>1, <1>2, <1>3 DEF IsTable
  <1>5. \A x \in DOMAIN T :
          /\ U[x].by = T[x].by /\ U[x].status = T[x].status /\ U[x].sup = T[x].sup
          /\ U[x].reviewer = T[x].reviewer /\ U[x].content = T[x].content
          /\ U[x].hash = T[x].hash
          /\ U[x].source = IF T[x].source = s THEN None ELSE T[x].source
    BY <1>1, <1>2, <1>3
  <1> QED
    BY <1>4, <1>5, SameRulingsSound DEF ShowsNothingNew, SameButLink

(* An admin's edit changes one offer's content and nothing it is ruled by. *)
LEMMA EditSound ==
  ASSUME NEW T, IsTable(T), Sound(T), NEW o \in DOMAIN T, NEW p \in Payload,
         NEW U, U = Edit(T, o, p)
  PROVE  /\ IsTable(U) /\ DOMAIN U = DOMAIN T /\ Sound(U) /\ U[o].content = p
         /\ U[o].by = T[o].by /\ U[o].hash = T[o].hash /\ U[o].source = T[o].source
         /\ U[o].sup = T[o].sup /\ U[o].status = T[o].status /\ U[o].reviewer = T[o].reviewer
         /\ \A x \in DOMAIN T \ {o} : U[x] = T[x]
  <1> DEFINE r == [T[o] EXCEPT !.content = p, !.links = EditLinks(T[o], p)]
  <1>1. /\ o \in OfferId /\ T[o] \in Row /\ DOMAIN T \subseteq OfferId
        /\ T = [x \in DOMAIN T |-> T[x]]
    BY DEF IsTable
  <1>2. EditLinks(T[o], p) \in SUBSET Link
    <2>1. T[o].links \in SUBSET Link /\ {LinkOf(p)} \in SUBSET Link
      BY <1>1, PayloadColumns DEF Row
    <2> QED
      BY <2>1 DEF EditLinks
  <1>3. /\ r \in Row /\ r.content = p /\ r.by = T[o].by /\ r.sup = T[o].sup
        /\ r.reviewer = T[o].reviewer /\ r.status = T[o].status /\ r.source = T[o].source
        /\ r.hash = T[o].hash
    BY <1>1, <1>2 DEF Row
  <1>4. U = [T EXCEPT ![o] = r]
    BY <1>1 DEF Edit, Row
  <1> HIDE DEF r
  <1>5. DOMAIN U = DOMAIN T /\ U[o] = r /\ \A x \in DOMAIN T \ {o} : U[x] = T[x]
    BY <1>1, <1>4
  <1>6. IsTable(U)
    BY <1>1, <1>3, <1>4 DEF IsTable
  <1>7. Sound(U)
    BY <1>3, <1>5, <1>6, SameRulingsSound
  <1> QED
    BY <1>3, <1>5, <1>6, <1>7

(* An admin types in an offer: live at once, without source or parent. *)
LEMMA AdminRowSound ==
  ASSUME NEW T, IsTable(T), Sound(T), NEW n \in OfferId \ DOMAIN T, NEW p \in Payload,
         NEW U, U = SetRow(T, n, NewRow(p, None, None, "admin", "published", NoOffer))
  PROVE  /\ IsTable(U) /\ DOMAIN U = DOMAIN T \cup {n} /\ Sound(U) /\ U[n].content = p
         /\ U[n].by = "admin" /\ U[n].source = None /\ U[n].sup = NoOffer
         /\ U[n].status = "published" /\ \A x \in DOMAIN T : U[x] = T[x]
  <1> DEFINE r == NewRow(p, None, None, "admin", "published", NoOffer)
  <1>1. r \in Row
    BY FreshRow, Bounds DEF Status
  <1>2. /\ r.status = "published" /\ r.sup = NoOffer /\ r.source = None
        /\ r.reviewer = "none" /\ r.content = p /\ r.by = "admin"
    BY DEF NewRow
  <1>3. U = SetRow(T, n, r)
    OBVIOUS
  <1> HIDE DEF r
  <1>4. /\ IsTable(U) /\ DOMAIN U = DOMAIN T \cup {n} /\ U[n] = r
        /\ \A x \in DOMAIN T : U[x] = T[x]
    <2>1. DOMAIN U = DOMAIN T \cup {n} /\ U[n] = r /\ \A x \in DOMAIN T : U[x] = T[x]
      BY <1>3 DEF SetRow
    <2>2. IsTable(U)
      BY <1>1, <1>3 DEF IsTable, SetRow
    <2> QED
      BY <2>1, <2>2
  <1>5. Acyclic(U)
    <2>1. NoOffer \notin DOMAIN U
      BY <1>4, Bounds DEF IsTable
    <2>2. \A x \in DOMAIN U : U[x].sup = NoOffer \/ (x \in DOMAIN T /\ U[x].sup = T[x].sup)
      BY <1>2, <1>4
    <2> QED
      BY <2>1, <2>2, NoNewCycle DEF Sound
  <1>6. Shaped(U) /\ Marked(U) /\ Sourced(U)
    BY <1>2, <1>4 DEF Shaped, Marked, Sourced, Sound
  <1> QED
    BY <1>2, <1>4, <1>5, <1>6 DEF Sound

----------------------------------------------------------------------------
(***************************************************************************)
(* The inductive invariant.  The four properties are inductive only        *)
(* together with two facts about sources (only crawler offers have one, or *)
(* are about to get one: a revived shadow is then the crawler's own) and   *)
(* with the freshness of the auto-increment counter (an insert never falls *)
(* on a live row).                                                         *)
(***************************************************************************)
IdsIssued == \A o \in DOMAIN offers : o <= lastId

PromotingIsCrawler ==
  \A o \in OfferId : promoting[o] # "no" =>
    o <= lastId /\ (o \in DOMAIN offers => offers[o].by = "crawler")

IInv == TypeOK /\ Sound(offers) /\ LiveIsApproved /\ IdsIssued /\ PromotingIsCrawler

(* A step of the offers table on which no one ruled keeps the invariant. *)
LEMMA UnruledStep ==
  ASSUME IInv, UNCHANGED <<blocked, directories, sweeping, unswept, sources, promoting, approved>>,
         IsTable(offers'), DOMAIN offers \subseteq DOMAIN offers', Unruled(offers, offers'),
         lastId' \in lastId..MaxOffers, \A o \in DOMAIN offers' : o <= lastId'
  PROVE  IInv'
  <1>1. Sound(offers') /\ ShowsNothingNew(offers, offers')
    BY UnruledSound DEF IInv, TypeOK
  <1>2. TypeOK'
    BY DEF IInv, TypeOK
  <1>3. LiveIsApproved'
    BY <1>1 DEF IInv, LiveIsApproved, ShowsNothingNew
  <1>4. PromotingIsCrawler'
    BY OfferTableAssumption DEF IInv, TypeOK, PromotingIsCrawler, Unruled, OfferId
  <1>5. IdsIssued'
    BY DEF IdsIssued
  <1> QED
    BY <1>1, <1>2, <1>3, <1>4, <1>5 DEF IInv

(* A step that leaves the table, its counter and the history alone. *)
LEMMA ElsewhereStep ==
  ASSUME IInv, UNCHANGED moderation, TypeOK',
         \A o \in OfferId : promoting'[o] = promoting[o] \/ promoting'[o] = "no"
                                 \/ promoting[o] # "no"
  PROVE  IInv'
  <1>1. offers' = offers /\ lastId' = lastId /\ approved' = approved
    BY DEF moderation
  <1> QED
    BY <1>1 DEF IInv, LiveIsApproved, IdsIssued, PromotingIsCrawler

(* A submission, whichever branch takes it. *)
LEMMA SubmitInv ==
  ASSUME IInv, NEW x \in Sighting, Submit(x[1], x[2])
  PROVE  IInv'
  <1> DEFINE p == x[1]
             s == x[2]
             n == lastId + 1
  <1>1. p \in Payload /\ s \in Source \cup {None}
    BY OffersAssumption
  <1>2. lastId \in 0..MaxOffers /\ n \notin DOMAIN offers
    BY DEF IInv, TypeOK, IsTable, IdsIssued, OfferId
  <1>3. BadSource(p) \in BOOLEAN
    BY DEF BadSource
  <1>4. /\ offers' \in CreateOffer(offers, p, s, BadSource(p), n)
        /\ DOMAIN offers' \subseteq OfferId
        /\ lastId' = IF n \in DOMAIN offers' THEN n ELSE lastId
        /\ UNCHANGED <<blocked, directories, sweeping, unswept, sources, promoting, approved>>
    BY DEF Submit, hosts
  <1>5. IsTable(offers) /\ Sound(offers)
    BY DEF IInv, TypeOK
  <1> DEFINE bad == BadSource(p)
  <1> HIDE DEF p, s, n, bad
  <1>6. /\ IsTable(offers') /\ DOMAIN offers \subseteq DOMAIN offers'
        /\ DOMAIN offers' \subseteq DOMAIN offers \cup {n} /\ Unruled(offers, offers')
    <2>1. bad \in BOOLEAN /\ offers' \in CreateOffer(offers, p, s, bad, n)
      BY <1>3, <1>4 DEF bad
    <2> QED
      BY <1>1, <1>2, <1>4, <1>5, <2>1, CreateOfferUnruled
  <1>7. lastId' \in lastId..MaxOffers /\ \A o \in DOMAIN offers' : o <= lastId'
    <2>1. \A o \in DOMAIN offers : o \in Nat /\ o <= lastId
      BY <1>5 DEF IInv, IdsIssued, IsTable, OfferId
    <2>2. n \in DOMAIN offers' => n \in 1..MaxOffers
      BY <1>4 DEF OfferId
    <2> QED
      BY <1>2, <1>4, <1>6, <2>1, <2>2, OfferTableAssumption DEF n
  <1> QED
    BY <1>4, <1>6, <1>7, UnruledStep

(* The judge's verdict. *)
LEMMA JudgeInv ==
  ASSUME IInv, NEW o, Judge(o)
  PROVE  IInv'
  <1>1. /\ o \in Judgeable(offers) /\ offers' = JudgeReject(offers, o)
        /\ UNCHANGED <<lastId, blocked, directories, sweeping, unswept, sources, promoting, approved>>
    BY DEF Judge, hosts
  <1>2. /\ IsTable(offers') /\ DOMAIN offers' = DOMAIN offers /\ Sound(offers')
        /\ ShowsNothingNew(offers, offers')
    BY <1>1, JudgeSound DEF IInv, TypeOK
  <1>3. \A x \in DOMAIN offers : offers'[x].by = offers[x].by
    <2>1. o \in DOMAIN offers /\ offers \in [DOMAIN offers -> Row]
      BY <1>1 DEF Judgeable, Having, IInv, TypeOK, IsTable
    <2> QED
      BY <1>1, <2>1 DEF JudgeReject, Row
  <1>4. TypeOK'
    BY <1>1, <1>2 DEF IInv, TypeOK
  <1> QED
    BY <1>1, <1>2, <1>3, <1>4
    DEF IInv, LiveIsApproved, ShowsNothingNew, IdsIssued, PromotingIsCrawler

(* The daily expiry. *)
LEMMA ExpireStaleInv ==
  ASSUME IInv, ExpireStale
  PROVE  IInv'
  <1>1. /\ offers' = Expire(offers)
        /\ UNCHANGED <<lastId, blocked, directories, sweeping, unswept, sources, promoting, approved>>
    BY DEF ExpireStale, hosts
  <1>2. /\ IsTable(offers') /\ DOMAIN offers' = DOMAIN offers /\ Unruled(offers, offers')
    BY <1>1, ExpireUnruled DEF IInv, TypeOK
  <1>3. lastId' \in lastId..MaxOffers /\ \A o \in DOMAIN offers' : o <= lastId'
    BY <1>1, <1>2 DEF IInv, TypeOK, IdsIssued
  <1> QED
    BY <1>1, <1>2, <1>3, UnruledStep

(* A day without a sighting. *)
LEMMA DayPassesInv ==
  ASSUME IInv, DayPasses
  PROVE  IInv'
  <1>1. /\ offers' = Age(offers)
        /\ UNCHANGED <<lastId, blocked, directories, sweeping, unswept, sources, promoting, approved>>
    BY DEF DayPasses, hosts
  <1>2. /\ IsTable(offers') /\ DOMAIN offers' = DOMAIN offers /\ Unruled(offers, offers')
    BY <1>1, AgeUnruled DEF IInv, TypeOK
  <1>3. lastId' \in lastId..MaxOffers /\ \A o \in DOMAIN offers' : o <= lastId'
    BY <1>1, <1>2 DEF IInv, TypeOK, IdsIssued
  <1> QED
    BY <1>1, <1>2, <1>3, UnruledStep

(* The sweep of a directory host. *)
LEMMA SweepInv ==
  ASSUME IInv, NEW h, Sweep(h)
  PROVE  IInv'
  <1>1. /\ offers' = RejectAll(offers, Swept(offers, h)) /\ sweeping' = sweeping \ {h}
        /\ UNCHANGED <<lastId, blocked, directories, unswept, sources, promoting, approved>>
    BY DEF Sweep
  <1>2. \A o \in Swept(offers, h) : o \in DOMAIN offers => offers[o].status = "pending"
    BY DEF Swept, Having
  <1>3. /\ IsTable(offers') /\ DOMAIN offers' = DOMAIN offers /\ Unruled(offers, offers')
    BY <1>1, <1>2, SweepUnruled DEF IInv, TypeOK
  <1>4. Sound(offers') /\ ShowsNothingNew(offers, offers')
    BY <1>3, UnruledSound DEF IInv, TypeOK
  <1>5. TypeOK'
    BY <1>1, <1>3 DEF IInv, TypeOK
  <1>6. PromotingIsCrawler'
    BY <1>1, <1>3 DEF IInv, PromotingIsCrawler, Unruled
  <1> QED
    BY <1>1, <1>3, <1>4, <1>5, <1>6 DEF IInv, LiveIsApproved, ShowsNothingNew, IdsIssued

---------------------------------------------------------------------------
(* Steps outside the offers table                                          *)

(* Blocking, unblocking, registering, losing a sweep. *)
LEMMA HostsInv ==
  ASSUME IInv,
         \/ \E h \in DirectoryHost : RegisterDirectory(h) \/ LoseSweep(h)
         \/ \E h \in BlockableHost : BlockHost(h) \/ Unblock(h)
  PROVE  IInv'
  <1>1. UNCHANGED moderation /\ promoting' = promoting
    BY DEF RegisterDirectory, LoseSweep, BlockHost, Unblock
  <1>2. TypeOK'
    <2>1. CASE \E h \in DirectoryHost : RegisterDirectory(h) \/ LoseSweep(h)
      BY <2>1, OffersAssumption DEF RegisterDirectory, LoseSweep, IInv, TypeOK, moderation
    <2>2. CASE \E h \in BlockableHost : BlockHost(h) \/ Unblock(h)
      BY <2>2, OffersAssumption DEF BlockHost, Unblock, IInv, TypeOK, moderation, HostStatus
    <2> QED
      BY <2>1, <2>2
  <1> QED
    BY <1>1, <1>2, ElsewhereStep

(* What an admin does to the sources but for deleting one. *)
Entered(s) ==
  \E a \in Address, active \in BOOLEAN : AddSource(s, a, active) \/ UpdateSource(s, a, active)

LEMMA AdminCases ==
  AdminNext => \/ ModerationNext
               \/ \E h \in BlockableHost : BlockHost(h) \/ Unblock(h)
               \/ \E s \in Source : DeleteSource(s) \/ Entered(s)
  BY DEF AdminNext, Entered

(* Adding a source, and changing its address or switching it on or off. *)
LEMMA SourcesInv ==
  ASSUME IInv, NEW s \in Source, Entered(s)
  PROVE  IInv'
  <1>1. UNCHANGED moderation /\ promoting' = promoting /\ UNCHANGED hosts
    BY DEF Entered, UpdateSource, AddSource
  <1>2. sources' \in [Source -> SourceRow]
    <2>1. PICK a \in Address, st \in {"active", "inactive"} :
            sources' = [sources EXCEPT ![s] = [state |-> st, at |-> a]]
      BY DEF Entered, AddSource, UpdateSource
    <2>2. [state |-> st, at |-> a] \in SourceRow
      BY DEF SourceRow, SourceState
    <2> QED
      BY <2>1, <2>2 DEF IInv, TypeOK
  <1>3. TypeOK'
    BY <1>1, <1>2 DEF IInv, TypeOK, moderation, hosts
  <1> QED
    BY <1>1, <1>3, ElsewhereStep

(* The source of a promotion: one that follows the host, or a row at its   *)
(* origin where none does.                                                 *)
Reopened(s, a) ==
  /\ sources' = [sources EXCEPT ![s] = [state |-> "active", at |-> a]]
  /\ \A x \in Source : Followed(sources[x]) # HostOf[a]

Promoted(o, s) ==
  /\ promoting' = [promoting EXCEPT ![o] = s]
  /\ sources' = sources \/ \E a \in Address : Reopened(s, a)

LEMMA PromotedSource ==
  ASSUME NEW o \in OfferId, PromoteSource(o)
  PROVE  \E s \in Source : Promoted(o, s)
  <1> DEFINE h == PageHost(offers[o].content)
             active == {s \in Source : Followed(sources[s]) = h}
             listed(a) == {s \in Source : Present(s) /\ sources[s].at = a}
             unused == {s \in Source : sources[s].state = "absent"}
             fresh(a) == IF listed(a) # {} THEN listed(a) ELSE unused
             Known == /\ \E s \in active : promoting' = [promoting EXCEPT ![o] = s]
                      /\ UNCHANGED sources
             New == /\ active = {}
                    /\ \E a \in {x \in Origin : HostOf[x] = h} :
                         \E s \in fresh(a) :
                           /\ sources' = [sources EXCEPT ![s] = [state |-> "active", at |-> a]]
                           /\ promoting' = [promoting EXCEPT ![o] = s]
  <1>1. Known \/ New
    BY Zenon DEF PromoteSource
  <1>2. CASE Known
    BY <1>2 DEF Promoted
  <1>3. CASE New
    <2>1. PICK a \in Origin : /\ HostOf[a] = h
                              /\ \E s \in fresh(a) :
                                   /\ sources' = [sources EXCEPT ![s] = [state |-> "active", at |-> a]]
                                   /\ promoting' = [promoting EXCEPT ![o] = s]
      BY <1>3, Zenon
    <2>2. fresh(a) \subseteq Source
      OBVIOUS
    <2>3. PICK s \in Source : /\ sources' = [sources EXCEPT ![s] = [state |-> "active", at |-> a]]
                              /\ promoting' = [promoting EXCEPT ![o] = s]
      BY <2>1, <2>2
    <2>4. a \in Address
      BY OffersAssumption
    <2>5. \A x \in Source : Followed(sources[x]) # HostOf[a]
      BY <1>3, <2>1
    <2> QED
      BY <2>3, <2>4, <2>5 DEF Promoted, Reopened
  <1> QED
    BY <1>1, <1>2, <1>3

(* The first half of a promotion, or its end without a link. *)
LEMMA PromotionInv ==
  ASSUME IInv, NEW o \in OfferId, PromoteSource(o) \/ AbandonPromotion(o)
  PROVE  IInv'
  <1>1. CASE AbandonPromotion(o)
    <2>1. UNCHANGED moderation /\ promoting' = [promoting EXCEPT ![o] = "no"]
      BY <1>1 DEF AbandonPromotion
    <2>2. TypeOK'
      BY <1>1 DEF AbandonPromotion, IInv, TypeOK, moderation, hosts
    <2>3. \A x \in OfferId : promoting'[x] = promoting[x] \/ promoting'[x] = "no"
      BY <2>1 DEF IInv, TypeOK, IsTable
    <2> QED
      BY <2>1, <2>2, <2>3, ElsewhereStep
  <1>2. CASE PromoteSource(o)
    <2>1. UNCHANGED moderation /\ UNCHANGED hosts /\ promoting[o] # "no"
      BY <1>2, Zenon DEF PromoteSource
    <2>a. PICK s \in Source : Promoted(o, s)
      BY <1>2, PromotedSource
    <2>b. sources' \in [Source -> SourceRow]
      <3>1. \A a \in Address : [state |-> "active", at |-> a] \in SourceRow
        BY DEF SourceRow, SourceState
      <3> QED
        BY <2>a, <3>1 DEF Promoted, Reopened, IInv, TypeOK
    <2>c. promoting' = [promoting EXCEPT ![o] = s]
      BY <2>a DEF Promoted
    <2>2. TypeOK'
      BY <2>1, <2>b, <2>c DEF IInv, TypeOK, moderation, hosts
    <2>3. \A x \in OfferId : promoting'[x] = promoting[x] \/ promoting[x] # "no"
      BY <2>1, <2>c DEF IInv, TypeOK, IsTable
    <2> QED
      BY <2>1, <2>2, <2>3, ElsewhereStep
  <1> QED
    BY <1>1, <1>2

---------------------------------------------------------------------------
(* The admin's steps on the offers table                                   *)

(* What a ruling of set_status leaves, the three of them alike. *)
LEMMA RulingTable ==
  ASSUME IInv, NEW o \in DOMAIN offers, NEW st \in {"published", "pending", "rejected"},
         offers' = SetStatus(offers, o, st)
  PROVE  /\ IsTable(offers') /\ DOMAIN offers' = DOMAIN offers /\ Sound(offers')
         /\ offers'[o].content = offers[o].content /\ offers'[o].status = st
         /\ \A x \in DOMAIN offers \ {o} :
              offers'[x].status = "published" => offers'[x] = offers[x]
         /\ \A x \in DOMAIN offers : offers'[x].by = offers[x].by
  <1>1. IsTable(offers) /\ Sound(offers)
    BY DEF IInv, TypeOK
  <1> DEFINE T == offers
             U == SetStatus(T, o, st)
  <1>2. IsTable(T) /\ Sound(T) /\ o \in DOMAIN T /\ st \in Status \ {"expired"}
    BY <1>1 DEF Status
  <1> HIDE DEF T
  <1>3. /\ IsTable(U) /\ DOMAIN U = DOMAIN T /\ Sound(U)
        /\ U[o].content = T[o].content /\ U[o].status = st
        /\ \A x \in DOMAIN T \ {o} : U[x].status = "published" => U[x] = T[x]
        /\ \A x \in DOMAIN T : U[x].by = T[x].by
    BY <1>2, SetStatusSound
  <1>4. offers' = U
    BY DEF T
  <1> HIDE DEF U
  <1>5. /\ IsTable(offers') /\ DOMAIN offers' = DOMAIN T /\ Sound(offers')
        /\ offers'[o].content = T[o].content /\ offers'[o].status = st
        /\ \A x \in DOMAIN T \ {o} : offers'[x].status = "published" => offers'[x] = T[x]
        /\ \A x \in DOMAIN T : offers'[x].by = T[x].by
    BY <1>3, <1>4
  <1> QED
    BY <1>5 DEF T

(* Publishing vouches for the content the offer has. *)
LEMMA PublishInv ==
  ASSUME IInv, NEW o \in OfferId, Publish(o)
  PROVE  IInv'
  <1>1. /\ o \in DOMAIN offers /\ offers' = SetStatus(offers, o, "published")
        /\ approved' = [approved EXCEPT ![o] = offers[o].content]
        /\ promoting' = [promoting EXCEPT ![o] = IF Promotable(o) THEN "due" ELSE "no"]
        /\ UNCHANGED <<lastId, blocked, directories, sweeping, unswept, sources>>
    BY DEF Publish, hosts
  <1>2. /\ IsTable(offers') /\ DOMAIN offers' = DOMAIN offers /\ Sound(offers')
        /\ offers'[o].content = offers[o].content
        /\ \A x \in DOMAIN offers \ {o} :
             offers'[x].status = "published" => offers'[x] = offers[x]
        /\ \A x \in DOMAIN offers : offers'[x].by = offers[x].by
    BY <1>1, RulingTable
  <1>3. offers[o].content \in Payload
    BY <1>1 DEF IInv, TypeOK, IsTable, Row
  <1>4. TypeOK'
    BY <1>1, <1>2, <1>3 DEF IInv, TypeOK
  <1>5. LiveIsApproved'
    BY <1>1, <1>2 DEF IInv, TypeOK, LiveIsApproved, IsTable
  <1>6. PromotingIsCrawler'
    BY <1>1, <1>2 DEF IInv, TypeOK, PromotingIsCrawler, IdsIssued, IsTable, Promotable
  <1> QED
    BY <1>1, <1>2, <1>4, <1>5, <1>6 DEF IInv, IdsIssued

(* Restoring puts a refused offer back in the queue. *)
LEMMA RestoreInv ==
  ASSUME IInv, NEW o \in OfferId, Restore(o)
  PROVE  IInv'
  <1>1. /\ o \in DOMAIN offers /\ offers' = SetStatus(offers, o, "pending")
        /\ approved' = [approved EXCEPT ![o] = offers[o].content]
        /\ UNCHANGED <<lastId, blocked, directories, sweeping, unswept, sources, promoting>>
    BY DEF Restore, hosts
  <1>2. /\ IsTable(offers') /\ DOMAIN offers' = DOMAIN offers /\ Sound(offers')
        /\ offers'[o].content = offers[o].content
        /\ \A x \in DOMAIN offers \ {o} :
             offers'[x].status = "published" => offers'[x] = offers[x]
        /\ \A x \in DOMAIN offers : offers'[x].by = offers[x].by
    BY <1>1, RulingTable
  <1>3. offers[o].content \in Payload
    BY <1>1 DEF IInv, TypeOK, IsTable, Row
  <1>4. TypeOK'
    BY <1>1, <1>2, <1>3 DEF IInv, TypeOK
  <1>5. LiveIsApproved'
    BY <1>1, <1>2 DEF IInv, TypeOK, LiveIsApproved, IsTable
  <1> QED
    BY <1>1, <1>2, <1>4, <1>5 DEF IInv, IdsIssued, PromotingIsCrawler

(* Rejecting, with the hosts it blocks. *)
LEMMA RejectInv ==
  ASSUME IInv, NEW o \in OfferId, Reject(o)
  PROVE  IInv'
  <1>1. /\ o \in DOMAIN offers /\ offers' = SetStatus(offers, o, "rejected")
        /\ UNCHANGED <<lastId, directories, sweeping, unswept, sources, promoting, approved>>
    BY DEF Reject
  <1>2. /\ IsTable(offers') /\ DOMAIN offers' = DOMAIN offers /\ Sound(offers')
        /\ offers'[o].status = "rejected"
        /\ \A x \in DOMAIN offers \ {o} :
             offers'[x].status = "published" => offers'[x] = offers[x]
        /\ \A x \in DOMAIN offers : offers'[x].by = offers[x].by
    BY <1>1, RulingTable
  <1>3. blocked' \in [Host -> HostStatus]
    BY DEF Reject, IInv, TypeOK, HostStatus
  <1>4. TypeOK'
    BY <1>1, <1>2, <1>3 DEF IInv, TypeOK
  <1>5. LiveIsApproved'
    BY <1>1, <1>2 DEF IInv, LiveIsApproved
  <1> QED
    BY <1>1, <1>2, <1>4, <1>5 DEF IInv, IdsIssued, PromotingIsCrawler

(* An admin's own offer, live at once. *)
LEMMA AdminCreateInv ==
  ASSUME IInv, NEW p \in AdminEntry, AdminCreate(p)
  PROVE  IInv'
  <1> DEFINE n == lastId + 1
  <1>1. /\ n \in OfferId
        /\ offers' = SetRow(offers, n, NewRow(p, None, None, "admin", "published", NoOffer))
        /\ lastId' = n /\ approved' = [approved EXCEPT ![n] = p]
        /\ UNCHANGED <<blocked, directories, sweeping, unswept, sources, promoting>>
    BY DEF AdminCreate, hosts
  <1>2. p \in Payload /\ lastId \in 0..MaxOffers /\ n = lastId + 1
        /\ n \in OfferId \ DOMAIN offers /\ \A o \in DOMAIN offers : o <= lastId /\ o \in Nat
    BY <1>1, OffersAssumption DEF IInv, TypeOK, IsTable, IdsIssued, OfferId
  <1> HIDE DEF n
  <1>3. /\ IsTable(offers') /\ DOMAIN offers' = DOMAIN offers \cup {n} /\ Sound(offers')
        /\ offers'[n].content = p /\ \A x \in DOMAIN offers : offers'[x] = offers[x]
    <2> DEFINE U == SetRow(offers, n, NewRow(p, None, None, "admin", "published", NoOffer))
    <2>1. IsTable(offers) /\ Sound(offers) /\ offers' = U
      BY <1>1 DEF IInv, TypeOK
    <2>2. /\ IsTable(U) /\ DOMAIN U = DOMAIN offers \cup {n} /\ Sound(U)
          /\ U[n].content = p /\ \A x \in DOMAIN offers : U[x] = offers[x]
      BY <1>2, <2>1, AdminRowSound
    <2> QED
      BY <2>1, <2>2
  <1>4. TypeOK'
    BY <1>1, <1>2, <1>3 DEF IInv, TypeOK, OfferId
  <1>5. LiveIsApproved'
    BY <1>1, <1>2, <1>3 DEF IInv, TypeOK, LiveIsApproved
  <1>6. IdsIssued'
    BY <1>1, <1>2, <1>3, OfferTableAssumption DEF IdsIssued
  <1>7. PromotingIsCrawler'
    <2> SUFFICES ASSUME NEW o \in OfferId, promoting[o] # "no"
                 PROVE  o <= n /\ (o \in DOMAIN offers' => offers'[o].by = "crawler")
      BY <1>1 DEF PromotingIsCrawler
    <2>1. o <= lastId /\ (o \in DOMAIN offers => offers[o].by = "crawler")
      BY DEF IInv, PromotingIsCrawler
    <2>2. o <= n /\ o # n
      BY <1>2, <2>1, OfferTableAssumption DEF OfferId
    <2> QED
      BY <1>3, <2>1, <2>2
  <1> QED
    BY <1>3, <1>4, <1>5, <1>6, <1>7 DEF IInv

(* An admin's edit vouches for the new content. *)
LEMMA EditInv ==
  ASSUME IInv, NEW o \in OfferId, NEW p \in AdminEntry, EditOffer(o, p)
  PROVE  IInv'
  <1>1. /\ o \in DOMAIN offers /\ offers' = Edit(offers, o, p)
        /\ approved' = [approved EXCEPT ![o] = p]
        /\ UNCHANGED <<lastId, blocked, directories, sweeping, unswept, sources, promoting>>
    BY DEF EditOffer, hosts
  <1>2. p \in Payload
    BY OffersAssumption
  <1>3. /\ IsTable(offers') /\ DOMAIN offers' = DOMAIN offers /\ Sound(offers')
        /\ offers'[o].content = p /\ offers'[o].by = offers[o].by
        /\ \A x \in DOMAIN offers \ {o} : offers'[x] = offers[x]
    BY <1>1, <1>2, EditSound DEF IInv, TypeOK
  <1>4. TypeOK'
    BY <1>1, <1>2, <1>3 DEF IInv, TypeOK
  <1>5. LiveIsApproved'
    BY <1>1, <1>3 DEF IInv, TypeOK, LiveIsApproved
  <1>6. PromotingIsCrawler'
    BY <1>1, <1>3 DEF IInv, PromotingIsCrawler
  <1> QED
    BY <1>1, <1>3, <1>4, <1>5, <1>6 DEF IInv, IdsIssued

(* Deleting an offer clears the links to it. *)
LEMMA DeleteInv ==
  ASSUME IInv, NEW o \in OfferId, DeleteOffer(o)
  PROVE  IInv'
  <1>1. /\ o \in DOMAIN offers /\ offers' = Delete(offers, o)
        /\ approved' = [approved EXCEPT ![o] = None]
        /\ UNCHANGED <<lastId, blocked, directories, sweeping, unswept, sources, promoting>>
    BY DEF DeleteOffer, hosts
  <1>2. /\ IsTable(offers') /\ DOMAIN offers' = DOMAIN offers \ {o} /\ Sound(offers')
        /\ ShowsNothingNew(offers, offers')
        /\ \A x \in DOMAIN offers \ {o} : offers'[x].by = offers[x].by
    <2>1. IsTable(offers) /\ Sound(offers)
      BY DEF IInv, TypeOK
    <2> DEFINE T == offers
    <2> HIDE DEF T
    <2>2. /\ IsTable(Delete(T, o)) /\ DOMAIN Delete(T, o) = DOMAIN T \ {o}
          /\ Sound(Delete(T, o)) /\ ShowsNothingNew(T, Delete(T, o))
          /\ \A x \in DOMAIN T \ {o} : SameButLink(Delete(T, o)[x], T[x])
      BY <1>1, <2>1, DeleteSound DEF T
    <2> QED
      BY <1>1, <2>2 DEF T, SameButLink
  <1>3. TypeOK'
    BY <1>1, <1>2 DEF IInv, TypeOK
  <1>4. LiveIsApproved'
    BY <1>1, <1>2 DEF IInv, TypeOK, LiveIsApproved, ShowsNothingNew
  <1> QED
    BY <1>1, <1>2, <1>3, <1>4 DEF IInv, IdsIssued, PromotingIsCrawler

(* Deleting a source frees its offers. *)
LEMMA DeleteSourceInv ==
  ASSUME IInv, NEW s \in Source, DeleteSource(s)
  PROVE  IInv'
  <1>1. /\ offers' = Orphan(offers, s) /\ sources' = [sources EXCEPT ![s] = [state |-> "deleted", at |-> None]]
        /\ UNCHANGED <<lastId, approved, blocked, directories, sweeping, unswept, promoting>>
    BY DEF DeleteSource, hosts
  <1>2. /\ IsTable(offers') /\ DOMAIN offers' = DOMAIN offers /\ Sound(offers')
        /\ ShowsNothingNew(offers, offers')
        /\ \A x \in DOMAIN offers : offers'[x].by = offers[x].by
    BY <1>1, OrphanSound DEF IInv, TypeOK, SameButLink
  <1>3. TypeOK'
    BY <1>1, <1>2 DEF IInv, TypeOK, SourceState, SourceRow
  <1>4. LiveIsApproved'
    BY <1>1, <1>2 DEF IInv, LiveIsApproved, ShowsNothingNew
  <1> QED
    BY <1>1, <1>2, <1>3, <1>4 DEF IInv, IdsIssued, PromotingIsCrawler

(* The second half of a promotion links a crawler offer to its source. *)
LEMMA PromoteLinkInv ==
  ASSUME IInv, NEW o \in OfferId, PromoteLink(o)
  PROVE  IInv'
  <1>1. /\ o \in DOMAIN offers /\ promoting[o] \in Source
        /\ promoting' = [promoting EXCEPT ![o] = "no"]
        /\ UNCHANGED <<lastId, approved, blocked, directories, sweeping, unswept, sources>>
    BY DEF PromoteLink, hosts
  <1>2. PICK c \in BOOLEAN : offers' = [offers EXCEPT ![o].age = 0,
                     ![o].source = IF c THEN @ ELSE promoting[o]]
    BY DEF PromoteLink
  <1> DEFINE s == IF c THEN offers[o].source ELSE promoting[o]
             r == [offers[o] EXCEPT !.age = 0, !.source = s]
  <1>3. /\ IsTable(offers) /\ Sound(offers)
        /\ offers = [x \in DOMAIN offers |-> offers[x]]
        /\ DOMAIN offers \subseteq OfferId /\ offers[o] \in Row
    BY <1>1 DEF IInv, TypeOK, IsTable
  <1>4. offers' = [offers EXCEPT ![o] = r]
    BY <1>1, <1>2, <1>3 DEF Row
  <1>5. /\ r \in Row /\ r.content = offers[o].content /\ r.by = offers[o].by
        /\ r.sup = offers[o].sup /\ r.reviewer = offers[o].reviewer
        /\ r.status = offers[o].status
    BY <1>1, <1>3, Bounds DEF Row
  <1>6. offers[o].by = "crawler"
    BY <1>1, OffersAssumption DEF IInv, PromotingIsCrawler
  <1> HIDE DEF r
  <1>7. /\ IsTable(offers') /\ DOMAIN offers' = DOMAIN offers /\ offers'[o] = r
        /\ \A x \in DOMAIN offers \ {o} : offers'[x] = offers[x]
    <2>1. /\ DOMAIN offers' = DOMAIN offers /\ offers'[o] = r
          /\ \A x \in DOMAIN offers \ {o} : offers'[x] = offers[x]
      BY <1>1, <1>3, <1>4
    <2>2. IsTable(offers')
      BY <1>3, <1>4, <1>5 DEF IsTable
    <2> QED
      BY <2>1, <2>2
  <1>8. Sound(offers')
    BY <1>3, <1>5, <1>6, <1>7, SameRulingsSound
  <1>9. TypeOK'
    BY <1>1, <1>7 DEF IInv, TypeOK
  <1>10. LiveIsApproved'
    BY <1>1, <1>5, <1>7 DEF IInv, LiveIsApproved
  <1>11. PromotingIsCrawler'
    BY <1>1, <1>5, <1>6, <1>7 DEF IInv, TypeOK, PromotingIsCrawler, IsTable
  <1> QED
    BY <1>1, <1>7, <1>8, <1>9, <1>10, <1>11 DEF IInv, IdsIssued

---------------------------------------------------------------------------
(* The invariant is inductive                                              *)

(* It holds of an empty database. *)
LEMMA InitInv == Init => IInv
  <1> SUFFICES ASSUME Init PROVE IInv
    OBVIOUS
  <1>1. DOMAIN offers = {} /\ IsTable(offers)
    BY DEF Init, IsTable
  <1>2. Sound(offers)
    BY <1>1 DEF Sound, Shaped, Acyclic, Marked, Sourced
  <1>3. TypeOK
    BY <1>1, OfferTableAssumption DEF Init, TypeOK, HostStatus, SourceState, SourceRow
  <1> QED
    BY <1>1, <1>2, <1>3 DEF Init, IInv, LiveIsApproved, IdsIssued, PromotingIsCrawler

(* Every request, and every half of a request, preserves it. *)
LEMMA NextInv == IInv /\ [Next]_vars => IInv'
  <1> SUFFICES ASSUME IInv, [Next]_vars PROVE IInv'
    OBVIOUS
  <1>1. CASE CrawlerNext
    <2>1. CASE \E x \in Sighting : Submit(x[1], x[2])
      BY <2>1, SubmitInv
    <2>2. CASE \E o \in DOMAIN offers : Judge(o)
      BY <2>2, JudgeInv
    <2>3. CASE ExpireStale
      BY <2>3, ExpireStaleInv
    <2>4. CASE \E h \in DirectoryHost : RegisterDirectory(h) \/ Sweep(h) \/ LoseSweep(h)
      BY <2>4, HostsInv, SweepInv
    <2> QED
      BY <1>1, <2>1, <2>2, <2>3, <2>4 DEF CrawlerNext
  <1>2. CASE ModerationNext
    <2>1. CASE \E p \in AdminEntry : AdminCreate(p)
      BY <2>1, AdminCreateInv
    <2>2. ASSUME NEW o \in OfferId, PromoteSource(o) \/ AbandonPromotion(o) PROVE IInv'
      BY <2>2, PromotionInv
    <2>3. ASSUME NEW o \in OfferId, Publish(o) \/ PromoteLink(o) PROVE IInv'
      BY <2>3, PublishInv, PromoteLinkInv
    <2>4. ASSUME NEW o \in OfferId, Reject(o) \/ Restore(o) \/ DeleteOffer(o) PROVE IInv'
      BY <2>4, RejectInv, RestoreInv, DeleteInv
    <2>5. ASSUME NEW o \in OfferId, NEW p \in AdminEntry, EditOffer(o, p) PROVE IInv'
      BY <2>5, EditInv
    <2> QED
      BY <1>2, <2>1, <2>2, <2>3, <2>4, <2>5 DEF ModerationNext
  <1>3. CASE \E h \in BlockableHost : BlockHost(h) \/ Unblock(h)
    BY <1>3, HostsInv
  <1>4. CASE \E s \in Source : DeleteSource(s) \/ Entered(s)
    BY <1>4, SourcesInv, DeleteSourceInv
  <1>5. CASE DayPasses
    BY <1>5, DayPassesInv
  <1>6. CASE UNCHANGED vars
    <2>1. UNCHANGED moderation /\ UNCHANGED hosts /\ sources' = sources /\ promoting' = promoting
      BY <1>6 DEF vars, moderation, hosts
    <2>2. TypeOK'
      BY <2>1 DEF IInv, TypeOK, moderation, hosts
    <2> QED
      BY <2>1, <2>2, ElsewhereStep
  <1> QED
    BY <1>1, <1>2, <1>3, <1>4, <1>5, <1>6, AdminCases DEF Next

---------------------------------------------------------------------------
(* The invariant holds in every reachable state: the basis of all below.   *)
THEOREM Invariance == Spec => []IInv
  BY InitInv, NextInv, PTL DEF Spec

(* Whatever the crawler submits and the admins rule, the tables keep the   *)
(* types of their columns: no ruling or verdict leaves the enumeration of  *)
(* statuses, and no link or id leaves the ids handed out.                  *)
THEOREM TypeCorrect == Spec => []TypeOK
  <1>1. IInv => TypeOK
    BY DEF IInv
  <1> QED
    BY <1>1, Invariance, PTL

(* The chain from an offer to the one it would replace never loops, though *)
(* a former parent may be revived as a shadow of its successor             *)
(* (set_status and branch 2 of create_offer).                              *)
THEOREM NoSupersedeCycle == Spec => []SupersedeAcyclic
  <1>1. IInv => SupersedeAcyclic
    BY DEF IInv, Sound, Acyclic, SupersedeAcyclic
  <1> QED
    BY <1>1, Invariance, PTL

(* Only crawler offers that wait or were refused point to a parent, and it *)
(* exists: publishing drops the link, deletion clears it, expiry never     *)
(* meets one.                                                              *)
THEOREM ShadowsWellFormed == Spec => []ShadowShape
  <1>1. IInv => ShadowShape
    BY DEF IInv, Sound, Shaped, ShadowShape
  <1> QED
    BY <1>1, Invariance, PTL

(* The judge's mark never outlives his ruling: an admin's ruling overwrites *)
(* it, and no sighting revives an offer that carries it.                    *)
THEOREM JudgeMarkTruthful == Spec => []JudgeMarkMeansRejected
  <1>1. IInv => JudgeMarkMeansRejected
    BY DEF IInv, Sound, Marked, JudgeMarkMeansRejected
  <1> QED
    BY <1>1, Invariance, PTL

(* No content reaches the public without an admin: each published offer    *)
(* shows exactly what an admin typed in, published, edited or had already  *)
(* seen live, whichever branch of create_offer later matched it.           *)
THEOREM PublicIsVouchedFor == Spec => []LiveIsApproved
  <1>1. IInv => LiveIsApproved
    BY DEF IInv
  <1> QED
    BY <1>1, Invariance, PTL

(* What a step blocks that was not blocked: nothing, what an admin names,  *)
(* or the hosts a rejection teaches.                                       *)
LEMMA BlockingSteps ==
  ASSUME Next
  PROVE  \/ blocked' = blocked
         \/ \E b \in BlockableHost : BlockHost(b)
         \/ \E b \in BlockableHost : Unblock(b)
         \/ \E o \in OfferId : Reject(o)
  <1>1. CASE CrawlerNext
    BY <1>1 DEF CrawlerNext, Submit, Judge, ExpireStale, RegisterDirectory, Sweep,
                LoseSweep, hosts
  <1>2. CASE ModerationNext
    BY <1>2 DEF ModerationNext, AdminCreate, Publish, PromoteSource, PromoteLink,
                AbandonPromotion, Restore, DeleteOffer, EditOffer, hosts
  <1>3. CASE \E s \in Source : DeleteSource(s) \/ Entered(s)
    BY <1>3 DEF Entered, UpdateSource, DeleteSource, AddSource, hosts
  <1>4. CASE DayPasses
    BY <1>4 DEF DayPasses, hosts
  <1> QED
    BY <1>1, <1>2, <1>3, <1>4, AdminCases DEF Next

(* Learning from rejections never hides a live offer: a rejection blocks   *)
(* no host a published offer comes from, nor one above it (the guard of    *)
(* _maybe_autoblock_hosts).                                                *)
THEOREM LearningSparesLive == Spec => LearnedBlockSparesLive
  <1> DEFINE Gained(h) == HostBlocked(BlockedNow', h) /\ ~HostBlocked(BlockedNow, h)
             Spared ==
               \A x \in DOMAIN offers' : offers'[x].status = "published" =>
                 \A h \in CandidateHosts(offers'[x].content) :
                   Gained(h) => \E b \in BlockableHost : BlockHost(b)
  <1>1. ASSUME Next PROVE Spared
    <2> SUFFICES ASSUME NEW x \in DOMAIN offers', offers'[x].status = "published",
                        NEW h \in CandidateHosts(offers'[x].content), Gained(h)
                 PROVE  \E b \in BlockableHost : BlockHost(b)
      OBVIOUS
    <2>1. PICK b \in Host : blocked'[b] = "approved" /\ blocked[b] # "approved" /\ h \in Under[b]
      BY DEF HostBlocked, BlockedNow
    <2>2. CASE \E c \in BlockableHost : Unblock(c)
      <3>1. PICK c \in BlockableHost : blocked' = [blocked EXCEPT ![c] = "rejected"]
        BY <2>2 DEF Unblock
      <3> QED
        BY <2>1, <3>1
    <2>3. CASE \E o \in OfferId : Reject(o)
      <3>1. PICK o \in OfferId :
              blocked' = [g \in Host |-> IF g \in HostsToBlock(offers', o, BlockedNow)
                                         THEN "approved" ELSE blocked[g]]
        BY <2>3 DEF Reject
      <3>2. b \in HostsToBlock(offers', o, BlockedNow)
        BY <2>1, <3>1
      <3>3. x \in OffersUnder(offers', b)
        BY <2>1 DEF OffersUnder, Having
      <3> QED
        BY <3>2, <3>3 DEF HostsToBlock
    <2> QED
      BY <1>1, <2>1, <2>2, <2>3, BlockingSteps
  <1>2. [Next]_vars => [Spared]_vars
    BY <1>1
  <1> QED
    BY <1>2, PTL DEF Spec, LearnedBlockSparesLive

---------------------------------------------------------------------------
(* What a sighting may do                                                  *)

(* The rows a submission leaves; it touches no other variable. *)
LEMMA SubmitRows ==
  ASSUME IInv, NEW x \in Sighting, Submit(x[1], x[2])
  PROVE  /\ Answered(offers, offers', x[1], x[2], BadSource(x[1]))
         /\ DOMAIN offers \subseteq DOMAIN offers'
         /\ DOMAIN offers' \subseteq DOMAIN offers \cup {lastId + 1}
         /\ KeysUnique(offers')
         /\ UNCHANGED <<hosts, sources, promoting, approved>>
  <1> DEFINE p == x[1]
             s == x[2]
             n == lastId + 1
             bad == BadSource(p)
  <1>1. p \in Payload /\ bad \in BOOLEAN
    BY OffersAssumption DEF BadSource
  <1>2. n \notin DOMAIN offers /\ IsTable(offers)
    BY DEF IInv, TypeOK, IsTable, IdsIssued, OfferId
  <1>3. /\ offers' \in CreateOffer(offers, p, s, bad, n) /\ KeysUnique(offers')
        /\ UNCHANGED <<hosts, sources, promoting, approved>>
    BY DEF Submit
  <1> HIDE DEF p, s, n, bad
  <1>4. /\ DOMAIN offers \subseteq DOMAIN offers' /\ DOMAIN offers' \subseteq DOMAIN offers \cup {n}
        /\ Answered(offers, offers', p, s, bad)
    BY <1>1, <1>2, <1>3, SubmissionRows
  <1> QED
    BY <1>3, <1>4 DEF p, s, n, bad

(* A blocked or directory host gains nothing by submitting: what exists    *)
(* keeps its links and its content and does not advance, what is new is    *)
(* refused at birth (the guards on branches 2 to 4 of create_offer and its *)
(* last statement).                                                        *)
THEOREM BadSourcesAddNothing == Spec => BadSourceAddsNothing
  <1> DEFINE Barren ==
               \A x \in Sighting :
                 (BadSource(x[1]) /\ Submit(x[1], x[2])) =>
                   \A o \in DOMAIN offers' :
                     IF o \in DOMAIN offers
                     THEN /\ offers'[o].links = offers[o].links
                          /\ offers'[o].content = offers[o].content
                          /\ offers'[o].status \in {offers[o].status, "rejected"}
                     ELSE offers'[o].status = "rejected"
  <1>1. ASSUME IInv PROVE Barren
    <2> SUFFICES ASSUME NEW x \in Sighting, BadSource(x[1]), Submit(x[1], x[2]),
                        NEW o \in DOMAIN offers'
                 PROVE  IF o \in DOMAIN offers
                        THEN /\ offers'[o].links = offers[o].links
                             /\ offers'[o].content = offers[o].content
                             /\ offers'[o].status \in {offers[o].status, "rejected"}
                        ELSE offers'[o].status = "rejected"
      OBVIOUS
    <2> DEFINE bad == BadSource(x[1])
    <2>1. bad
      OBVIOUS
    <2>2. Answered(offers, offers', x[1], x[2], bad)
      BY <1>1, SubmitRows
    <2> HIDE DEF bad
    <2>3. CASE Resighted(offers, offers', bad, o)
      BY <2>1, <2>3 DEF Resighted, SameRuling
    <2>4. CASE Born(offers, offers', x[1], x[2], bad, o)
      BY <2>1, <2>4 DEF Born, BirthStatus
    <2> QED
      BY <2>1, <2>2, <2>3, <2>4 DEF Answered, Written
  <1>2. IInv /\ [Next]_vars => [Barren]_vars
    BY <1>1
  <1> QED
    BY <1>2, Invariance, PTL DEF Spec, BadSourceAddsNothing

(* While a page is crawled its live offer does not age: whichever branch   *)
(* takes the sighting, the live version of the page is stamped seen        *)
(* (last_seen_at in branches 1 and 2).                                     *)
THEOREM CrawledStaysFresh == Spec => SightingKeepsLiveFresh
  <1> DEFINE Fresh ==
               \A x \in Sighting : \A o \in Live(offers, x[1], x[2]) :
                 (/\ Submit(x[1], x[2]) /\ ~BadSource(x[1])
                  /\ Live(offers, x[1], x[2]) = {o}
                  /\ \A r \in SameHash(offers, x[1], x[2]) \ {o} : offers[r].sup = o)
                   => offers'[o].status = "published" /\ offers'[o].age = 0
  <1>1. ASSUME IInv PROVE Fresh
    <2> SUFFICES ASSUME NEW x \in Sighting, NEW o \in Live(offers, x[1], x[2]),
                        Submit(x[1], x[2]), ~BadSource(x[1]),
                        Live(offers, x[1], x[2]) = {o},
                        \A r \in SameHash(offers, x[1], x[2]) \ {o} : offers[r].sup = o
                 PROVE  offers'[o].status = "published" /\ offers'[o].age = 0
      OBVIOUS
    <2> DEFINE p == x[1]
               s == x[2]
               n == lastId + 1
               bad == BadSource(p)
    <2>1. p \in Payload /\ ~bad
      BY OffersAssumption
    <2>2. n \notin DOMAIN offers /\ IsTable(offers)
      BY <1>1 DEF IInv, TypeOK, IsTable, IdsIssued, OfferId
    <2>3. offers' \in CreateOffer(offers, p, s, bad, n)
      BY DEF Submit
    <2>4. Live(offers, p, s) = {o} /\ \A r \in SameHash(offers, p, s) \ {o} : offers[r].sup = o
      OBVIOUS
    <2> HIDE DEF p, s, n, bad
    <2> QED
      BY <2>1, <2>2, <2>3, <2>4, SightingFreshens
  <1>2. IInv /\ [Next]_vars => [Fresh]_vars
    BY <1>1
  <1> QED
    BY <1>2, Invariance, PTL DEF Spec, SightingKeepsLiveFresh

---------------------------------------------------------------------------
(* What every other step may do                                            *)

(* An offer keeps its maker and its hash and gains no link.  Its content   *)
(* changes only under an admin's hand; its status changes by a refusal, an *)
(* expiry, or a ruling that vouches for its content.                       *)
Handled(o) ==
  /\ offers'[o].by = offers[o].by /\ offers'[o].hash = offers[o].hash
  /\ offers'[o].sup \in {offers[o].sup, NoOffer}
  /\ \/ offers'[o].content = offers[o].content /\ approved'[o] = approved[o]
     \/ approved'[o] = offers'[o].content
  /\ \/ offers'[o].status = offers[o].status /\ offers'[o].reviewer = offers[o].reviewer
     \/ offers'[o].status = "rejected"
     \/ /\ offers[o].status = "published" /\ offers'[o].status = "expired"
        /\ offers'[o].reviewer = offers[o].reviewer
     \/ offers'[o].reviewer = "admin" /\ approved'[o] = offers'[o].content

(* A refused offer stays refused, for the content it was refused for. *)
Settled(o) ==
  offers[o].status = "rejected" =>
    offers'[o].status = "rejected" /\ offers'[o].content = offers[o].content

(* An offer an admin typed in. *)
TypedIn(o) ==
  /\ offers'[o].by = "admin" /\ offers'[o].source = None /\ offers'[o].sup = NoOffer
  /\ offers'[o].status = "published"

(* A step no admin takes. *)
LEMMA KeptIsHandled ==
  ASSUME approved' = approved, NEW o \in DOMAIN offers, Kept(offers, offers', o)
  PROVE  Handled(o) /\ Settled(o)
  BY DEF Kept, SameRuling, Handled, Settled

(* A ruling of set_status, which vouches for the content unless it refuses. *)
LEMMA RulingRows ==
  ASSUME IInv, NEW o \in DOMAIN offers, NEW st \in {"published", "pending", "rejected"},
         offers' = SetStatus(offers, o, st),
         \/ approved' = [approved EXCEPT ![o] = offers[o].content]
         \/ approved' = approved /\ st = "rejected"
  PROVE  /\ \A x \in DOMAIN offers : Handled(x) /\ offers'[x].source = offers[x].source
         /\ \A x \in DOMAIN offers \ {o} : Settled(x)
         /\ offers'[o].status = st /\ offers'[o].content = offers[o].content
  <1>1. IsTable(offers) /\ Sound(offers) /\ approved \in [OfferId -> Payload \cup {None}]
    BY DEF IInv, TypeOK
  <1> DEFINE T == offers
             U == SetStatus(T, o, st)
  <1>2. IsTable(T) /\ o \in DOMAIN T /\ st \in Status /\ T[o].sup # o
    BY <1>1, NoSelfLoop DEF Status, Sound
  <1> HIDE DEF T
  <1>3. /\ DOMAIN U = DOMAIN T /\ U[o].status = st /\ U[o].reviewer = "admin"
        /\ U[o].sup = IF st = "published" THEN NoOffer ELSE T[o].sup
        /\ U[o].by = T[o].by /\ U[o].source = T[o].source /\ U[o].content = T[o].content
        /\ U[o].hash = T[o].hash
        /\ \A x \in DOMAIN T \ {o} :
             \/ U[x] = T[x]
             \/ /\ T[x].status = "published" /\ U[x].status = "expired"
                /\ SameRuling(U[x], T[x])
    BY <1>2, SetStatusRows
  <1>4. offers' = U
    BY DEF T
  <1> HIDE DEF U
  <1>5. \A x \in DOMAIN T : approved'[x] = approved[x] \/ (x = o /\ approved'[x] = U[x].content)
    BY <1>1, <1>3, Zenon DEF T, IsTable
  <1>6. st # "rejected" => approved'[o] = U[o].content
    BY <1>1, <1>2, <1>3 DEF T, IsTable
  <1>7. ASSUME NEW x \in DOMAIN T
        PROVE  /\ U[x].by = T[x].by /\ U[x].hash = T[x].hash /\ U[x].source = T[x].source
               /\ U[x].sup \in {T[x].sup, NoOffer} /\ U[x].content = T[x].content
               /\ \/ U[x].status = T[x].status /\ U[x].reviewer = T[x].reviewer
                  \/ U[x].status = "rejected"
                  \/ /\ T[x].status = "published" /\ U[x].status = "expired"
                     /\ U[x].reviewer = T[x].reviewer
                  \/ U[x].reviewer = "admin" /\ approved'[x] = U[x].content
    BY <1>3, <1>6 DEF SameRuling
  <1>8. /\ \A x \in DOMAIN offers : Handled(x) /\ offers'[x].source = offers[x].source
        /\ offers'[o].status = st /\ offers'[o].content = offers[o].content
    BY <1>3, <1>4, <1>5, <1>7 DEF T, Handled
  <1>9. \A x \in DOMAIN offers \ {o} : Settled(x)
    BY <1>3, <1>4 DEF T, Settled
  <1> QED
    BY <1>8, <1>9

(* Publishing, rejecting, restoring. *)
LEMMA RulingSteps ==
  ASSUME IInv, NEW o \in OfferId, Publish(o) \/ Reject(o) \/ Restore(o)
  PROVE  /\ DOMAIN offers' = DOMAIN offers
         /\ \A x \in DOMAIN offers : Handled(x) /\ offers'[x].source = offers[x].source
         /\ \A x \in DOMAIN offers \ {o} : Settled(x)
         /\ Reject(o) => Settled(o)
         /\ Publish(o) \/ Restore(o) => approved'[o] = offers'[o].content
  <1>1. PICK st \in {"published", "pending", "rejected"} :
          /\ o \in DOMAIN offers /\ offers' = SetStatus(offers, o, st)
          /\ \/ approved' = [approved EXCEPT ![o] = offers[o].content]
             \/ approved' = approved /\ st = "rejected"
    BY DEF Publish, Reject, Restore
  <1>2. /\ DOMAIN offers' = DOMAIN offers
        /\ \A x \in DOMAIN offers : Handled(x) /\ offers'[x].source = offers[x].source
        /\ \A x \in DOMAIN offers \ {o} : Settled(x)
        /\ offers'[o].status = st /\ offers'[o].content = offers[o].content
    BY <1>1, RulingRows, RulingTable
  <1>3. ASSUME Reject(o) PROVE Settled(o)
    <2>1. o \in DOMAIN offers /\ offers' = SetStatus(offers, o, "rejected")
          /\ approved' = approved
      BY <1>3 DEF Reject
    <2>2. offers'[o].status = "rejected"
      BY <2>1, RulingTable
    <2> QED
      BY <1>2, <2>2 DEF Settled
  <1>4. ASSUME Publish(o) \/ Restore(o) PROVE approved'[o] = offers'[o].content
    <2>1. approved' = [approved EXCEPT ![o] = offers[o].content]
      BY <1>4 DEF Publish, Restore
    <2> QED
      BY <1>2, <2>1 DEF IInv, TypeOK
  <1> QED
    BY <1>2, <1>3, <1>4

(* An edit, which vouches for what the admin wrote. *)
LEMMA EditRows ==
  ASSUME IInv, NEW o \in OfferId, NEW p \in AdminEntry, EditOffer(o, p)
  PROVE  /\ DOMAIN offers' = DOMAIN offers
         /\ \A x \in DOMAIN offers : Handled(x) /\ offers'[x].source = offers[x].source
         /\ \A x \in DOMAIN offers \ {o} : Settled(x)
         /\ approved'[o] = offers'[o].content
  <1>1. /\ o \in DOMAIN offers /\ offers' = Edit(offers, o, p)
        /\ approved' = [approved EXCEPT ![o] = p]
    BY DEF EditOffer
  <1>2. p \in Payload /\ IsTable(offers) /\ Sound(offers)
        /\ approved \in [OfferId -> Payload \cup {None}]
    BY OffersAssumption DEF IInv, TypeOK
  <1>3. /\ DOMAIN offers' = DOMAIN offers /\ offers'[o].content = p
        /\ offers'[o].by = offers[o].by /\ offers'[o].hash = offers[o].hash
        /\ offers'[o].source = offers[o].source /\ offers'[o].sup = offers[o].sup
        /\ offers'[o].status = offers[o].status /\ offers'[o].reviewer = offers[o].reviewer
        /\ \A x \in DOMAIN offers \ {o} : offers'[x] = offers[x]
    BY <1>1, <1>2, EditSound
  <1>4. approved'[o] = p /\ \A x \in DOMAIN offers \ {o} : approved'[x] = approved[x]
    BY <1>1, <1>2
  <1> QED
    BY <1>3, <1>4 DEF Handled, Settled

(* A deletion, which clears the links to the offer. *)
LEMMA DeleteRows ==
  ASSUME IInv, NEW o \in OfferId, DeleteOffer(o)
  PROVE  /\ DOMAIN offers' = DOMAIN offers \ {o}
         /\ \A x \in DOMAIN offers' : Handled(x) /\ Settled(x) /\ offers'[x].source = offers[x].source
  <1>1. /\ o \in DOMAIN offers /\ offers' = Delete(offers, o)
        /\ approved' = [approved EXCEPT ![o] = None]
    BY DEF DeleteOffer
  <1>2. IsTable(offers) /\ Sound(offers) /\ approved \in [OfferId -> Payload \cup {None}]
    BY DEF IInv, TypeOK
  <1> DEFINE T == offers
             U == Delete(T, o)
  <1>3. IsTable(T) /\ Sound(T) /\ o \in DOMAIN T
    BY <1>1, <1>2
  <1> HIDE DEF T
  <1>4. /\ DOMAIN U = DOMAIN T \ {o}
        /\ \A x \in DOMAIN T \ {o} : SameButLink(U[x], T[x])
                                       /\ U[x].source = T[x].source
    BY <1>3, DeleteSound
  <1>5. offers' = U
    BY <1>1 DEF T
  <1> HIDE DEF U
  <1>6. \A x \in DOMAIN T \ {o} : approved'[x] = approved[x]
    BY <1>1, <1>2 DEF T
  <1> QED
    BY <1>4, <1>5, <1>6 DEF T, SameButLink, Handled, Settled

(* A link made by a promotion, and a source's end. *)
LEMMA PromoteLinkRows ==
  ASSUME IInv, NEW o \in OfferId, PromoteLink(o)
  PROVE  /\ o \in DOMAIN offers /\ DOMAIN offers' = DOMAIN offers
         /\ \A x \in DOMAIN offers : Handled(x) /\ Settled(x) /\ offers'[x].sup = offers[x].sup
         /\ \A x \in DOMAIN offers \ {o} : offers'[x] = offers[x]
         /\ \/ offers'[o].source = offers[o].source
            \/ /\ offers'[o].source = promoting[o]
               /\ \A x \in DOMAIN offers \ {o} :
                    ~(offers[o].hash # None /\ offers[x].source = promoting[o]
                        /\ offers[x].hash = offers[o].hash)
  <1> DEFINE clash == \E x \in DOMAIN offers \ {o} :
                        /\ offers[o].hash # None
                        /\ offers[x].source = promoting[o] /\ offers[x].hash = offers[o].hash
  <1>1. o \in DOMAIN offers /\ approved' = approved
    <2>1. o \in DOMAIN offers /\ UNCHANGED <<lastId, approved, hosts, sources>>
      BY Zenon DEF PromoteLink
    <2> QED
      BY <2>1
  <1>2. /\ offers' = [offers EXCEPT ![o].age = 0,
                                    ![o].source = IF clash THEN @ ELSE promoting[o]]
        /\ ~clash => \A x \in DOMAIN offers \ {o} :
             ~(offers[o].hash # None /\ offers[x].source = promoting[o]
                 /\ offers[x].hash = offers[o].hash)
    BY Zenon DEF PromoteLink
  <1> HIDE DEF clash
  <1> DEFINE s == IF clash THEN offers[o].source ELSE promoting[o]
             r == [offers[o] EXCEPT !.age = 0, !.source = s]
  <1>3. /\ offers = [x \in DOMAIN offers |-> offers[x]] /\ offers[o] \in Row
    BY <1>1 DEF IInv, TypeOK, IsTable
  <1>4. offers' = [offers EXCEPT ![o] = r]
    BY <1>1, <1>2, <1>3 DEF Row
  <1>5. /\ r.content = offers[o].content /\ r.by = offers[o].by /\ r.hash = offers[o].hash
        /\ r.sup = offers[o].sup /\ r.reviewer = offers[o].reviewer
        /\ r.status = offers[o].status
        /\ r.source = s
    BY <1>3 DEF Row
  <1> HIDE DEF r
  <1>6. /\ DOMAIN offers' = DOMAIN offers /\ offers'[o] = r
        /\ \A x \in DOMAIN offers \ {o} : offers'[x] = offers[x]
    BY <1>1, <1>3, <1>4
  <1> QED
    BY <1>1, <1>2, <1>5, <1>6 DEF Handled, Settled

LEMMA DeleteSourceRows ==
  ASSUME IInv, NEW s \in Source, DeleteSource(s)
  PROVE  /\ DOMAIN offers' = DOMAIN offers
         /\ \A x \in DOMAIN offers :
              /\ Handled(x) /\ Settled(x) /\ offers'[x].sup = offers[x].sup
              /\ offers'[x].source = IF offers[x].source = s THEN None ELSE offers[x].source
  <1>1. offers' = Orphan(offers, s) /\ approved' = approved
    BY DEF DeleteSource
  <1>2. IsTable(offers) /\ Sound(offers)
    BY DEF IInv, TypeOK
  <1>3. /\ DOMAIN offers' = DOMAIN offers
        /\ \A x \in DOMAIN offers :
             /\ SameButLink(offers'[x], offers[x]) /\ offers'[x].sup = offers[x].sup
             /\ offers'[x].source = IF offers[x].source = s THEN None ELSE offers[x].source
    BY <1>1, <1>2, OrphanSound
  <1> QED
    BY <1>1, <1>3 DEF SameButLink, Handled, Settled

(* The judge, the sweeps and the passing of a day. *)
LEMMA QueueSteps ==
  ASSUME IInv,
         (\E o : Judge(o)) \/ ExpireStale \/ (\E h : Sweep(h)) \/ DayPasses
  PROVE  /\ DOMAIN offers' = DOMAIN offers
         /\ \A x \in DOMAIN offers : Handled(x) /\ Settled(x) /\ offers'[x].source = offers[x].source
  <1>1. IsTable(offers) /\ Sound(offers)
    BY DEF IInv, TypeOK
  <1>2. CASE ExpireStale \/ (\E h : Sweep(h)) \/ DayPasses
    <2>1. \A h : \A o \in Swept(offers, h) : o \in DOMAIN offers => offers[o].status = "pending"
      BY DEF Swept, Having
    <2>2. /\ DOMAIN offers' = DOMAIN offers /\ approved' = approved
          /\ \A o \in DOMAIN offers : Kept(offers, offers', o)
      <3>1. CASE ExpireStale
        BY <1>1, <3>1, ExpireUnruled DEF ExpireStale
      <3>2. CASE \E h : Sweep(h)
        BY <1>1, <2>1, <3>2, SweepUnruled DEF Sweep
      <3>3. CASE DayPasses
        BY <1>1, <3>3, AgeUnruled DEF DayPasses
      <3> QED
        BY <1>2, <3>1, <3>2, <3>3
    <2> QED
      BY <2>2, KeptIsHandled DEF Kept, SameRuling
  <1>3. ASSUME NEW o, Judge(o)
        PROVE  /\ DOMAIN offers' = DOMAIN offers
               /\ \A x \in DOMAIN offers : Handled(x) /\ Settled(x) /\ offers'[x].source = offers[x].source
    <2>1. o \in Judgeable(offers) /\ offers' = JudgeReject(offers, o) /\ approved' = approved
      BY <1>3 DEF Judge
    <2>2. /\ DOMAIN offers' = DOMAIN offers /\ offers'[o].status = "rejected"
          /\ SameOrigin(offers'[o], offers[o])
          /\ \A x \in DOMAIN offers \ {o} : offers'[x] = offers[x]
      BY <1>1, <2>1, JudgeSound
    <2> QED
      BY <2>1, <2>2 DEF SameOrigin, Handled, Settled
  <1> QED
    BY <1>2, <1>3

(* An offer typed in joins rows that stay as they were. *)
LEMMA TypedInRows ==
  ASSUME IInv, NEW p \in AdminEntry, AdminCreate(p)
  PROVE  /\ lastId + 1 \notin DOMAIN offers /\ DOMAIN offers' = DOMAIN offers \cup {lastId + 1}
         /\ TypedIn(lastId + 1)
         /\ \A x \in DOMAIN offers : Handled(x) /\ Settled(x) /\ offers'[x] = offers[x]
  <1> DEFINE n == lastId + 1
  <1>1. /\ n \in OfferId /\ approved' = [approved EXCEPT ![n] = p]
        /\ offers' = SetRow(offers, n, NewRow(p, None, None, "admin", "published", NoOffer))
    BY DEF AdminCreate
  <1>2. /\ p \in Payload /\ IsTable(offers) /\ Sound(offers)
        /\ n \in OfferId \ DOMAIN offers
        /\ approved \in [OfferId -> Payload \cup {None}]
    BY <1>1, OffersAssumption DEF IInv, TypeOK, IsTable, IdsIssued, OfferId
  <1> HIDE DEF n
  <1>3. /\ IsTable(offers') /\ Sound(offers')
        /\ DOMAIN offers' = DOMAIN offers \cup {n} /\ offers'[n].by = "admin"
        /\ offers'[n].source = None /\ offers'[n].sup = NoOffer
        /\ offers'[n].status = "published" /\ \A x \in DOMAIN offers : offers'[x] = offers[x]
    BY <1>1, <1>2, AdminRowSound
  <1>4. \A x \in DOMAIN offers : approved'[x] = approved[x]
    BY <1>1, <1>2
  <1>5. /\ n \notin DOMAIN offers /\ DOMAIN offers' = DOMAIN offers \cup {n} /\ TypedIn(n)
        /\ \A x \in DOMAIN offers : Handled(x) /\ Settled(x) /\ offers'[x] = offers[x]
    BY <1>2, <1>3, <1>4 DEF Handled, Settled, TypedIn
  <1> QED
    BY <1>5 DEF n

(* Every step but a submission, row by row: offers are handled or typed in. *)
LEMMA OtherSteps ==
  ASSUME IInv, [Next]_vars
  PROVE  \/ \E x \in Sighting : Submit(x[1], x[2])
         \/ \A o \in DOMAIN offers' : IF o \in DOMAIN offers THEN Handled(o) ELSE TypedIn(o)
  <1> DEFINE Rows == \A o \in DOMAIN offers' :
                       IF o \in DOMAIN offers THEN Handled(o) ELSE TypedIn(o)
  <1>1. ASSUME UNCHANGED moderation PROVE Rows
    BY <1>1 DEF moderation, Handled
  <1>2. CASE CrawlerNext
    <2>1. CASE (\E o \in DOMAIN offers : Judge(o)) \/ ExpireStale \/ (\E h : Sweep(h))
      BY <2>1, QueueSteps
    <2>2. CASE \E h \in DirectoryHost : RegisterDirectory(h) \/ LoseSweep(h)
      BY <1>1, <2>2 DEF RegisterDirectory, LoseSweep
    <2> QED
      BY <1>2, <2>1, <2>2 DEF CrawlerNext
  <1>3. CASE ModerationNext
    <2>1. ASSUME NEW p \in AdminEntry, AdminCreate(p) PROVE Rows
      BY <2>1, TypedInRows
    <2>2. ASSUME NEW o \in OfferId, PromoteSource(o) \/ AbandonPromotion(o) PROVE Rows
      BY <1>1, <2>2 DEF PromoteSource, AbandonPromotion
    <2>3. ASSUME NEW o \in OfferId, PromoteLink(o) PROVE Rows
      BY <2>3, PromoteLinkRows
    <2>4. ASSUME NEW o \in OfferId, Publish(o) \/ Reject(o) \/ Restore(o) PROVE Rows
      BY <2>4, RulingSteps
    <2>5. ASSUME NEW o \in OfferId, DeleteOffer(o) PROVE Rows
      BY <2>5, DeleteRows
    <2>6. ASSUME NEW o \in OfferId, NEW p \in AdminEntry, EditOffer(o, p) PROVE Rows
      BY <2>6, EditRows
    <2> HIDE DEF Rows
    <2>7. Rows
      BY <1>3, <2>1, <2>2, <2>3, <2>4, <2>5, <2>6 DEF ModerationNext
    <2> QED
      BY <2>7 DEF Rows
  <1>4. CASE \E h \in BlockableHost : BlockHost(h) \/ Unblock(h)
    BY <1>1, <1>4 DEF BlockHost, Unblock
  <1>5. ASSUME NEW s \in Source,
               DeleteSource(s) \/ Entered(s)
        PROVE  Rows
    <2>1. CASE DeleteSource(s)
      BY <2>1, DeleteSourceRows
    <2>2. CASE Entered(s)
      BY <1>1, <2>2 DEF Entered, UpdateSource, AddSource
    <2> QED
      BY <1>5, <2>1, <2>2
  <1>6. CASE DayPasses
    BY <1>6, QueueSteps
  <1>7. CASE UNCHANGED vars
    BY <1>1, <1>7 DEF vars, moderation
  <1> HIDE DEF Rows
  <1>8. (\E x \in Sighting : Submit(x[1], x[2])) \/ Rows
    BY <1>2, <1>3, <1>4, <1>5, <1>6, <1>7, AdminCases DEF Next, Rows
  <1> QED
    BY <1>8 DEF Rows

(* Whoever ruled on another offer, and whatever the crawler sends, a       *)
(* refused offer stays refused for the content it was refused for: only a  *)
(* publication, a restoration or an edit of that very offer changes it     *)
(* (branch 1 of create_offer stops at a rejected row, set_status writes    *)
(* the offer ruled on and a live parent, the sweeps write pending and      *)
(* published rows).                                                        *)
THEOREM RejectionsAreFinal == Spec => RejectedStaysFinal
  <1> DEFINE Pardoned(o) ==
               /\ approved'[o] = offers'[o].content
               /\ Publish(o) \/ Restore(o) \/ \E p \in AdminEntry : EditOffer(o, p)
             Final == \A o \in DOMAIN offers \cap DOMAIN offers' :
                        offers[o].status = "rejected" =>
                          \/ offers'[o].status = "rejected" /\ offers'[o].content = offers[o].content
                          \/ approved'[o] = offers'[o].content /\ (Publish(o) \/ Restore(o)
                                \/ \E p \in AdminEntry : EditOffer(o, p))
  <1>1. ASSUME IInv, Next PROVE Final
    <2> SUFFICES ASSUME NEW o \in DOMAIN offers \cap DOMAIN offers'
                 PROVE  Settled(o) \/ Pardoned(o)
      BY DEF Settled
    <2>1. ASSUME NEW x \in Sighting, Submit(x[1], x[2]) PROVE Settled(o)
      <3> DEFINE bad == BadSource(x[1])
      <3>1. Answered(offers, offers', x[1], x[2], bad)
        BY <1>1, <2>1, SubmitRows
      <3> HIDE DEF bad
      <3>2. CASE Resighted(offers, offers', bad, o)
        BY <3>2 DEF Resighted, SameRuling, Settled
      <3>3. CASE Written(offers, offers', x[1], x[2], bad, o)
        BY <3>3 DEF Written, Refilled, Revived, Born, Settled
      <3> QED
        BY <3>1, <3>2, <3>3 DEF Answered
    <2>2. ASSUME UNCHANGED moderation PROVE Settled(o)
      BY <2>2 DEF moderation, Settled
    <2>3. CASE CrawlerNext
      <3>1. CASE (\E a \in DOMAIN offers : Judge(a)) \/ ExpireStale \/ (\E h : Sweep(h))
        BY <1>1, <3>1, QueueSteps
      <3>2. CASE \E h \in DirectoryHost : RegisterDirectory(h) \/ LoseSweep(h)
        BY <2>2, <3>2 DEF RegisterDirectory, LoseSweep
      <3> QED
        BY <2>1, <2>3, <3>1, <3>2 DEF CrawlerNext
    <2>4. CASE ModerationNext
      <3>1. ASSUME NEW p \in AdminEntry, AdminCreate(p) PROVE Settled(o)
        BY <1>1, <3>1, TypedInRows
      <3>2. ASSUME NEW a \in OfferId, PromoteSource(a) \/ AbandonPromotion(a) PROVE Settled(o)
        BY <2>2, <3>2 DEF PromoteSource, AbandonPromotion
      <3>3. ASSUME NEW a \in OfferId, PromoteLink(a) PROVE Settled(o)
        BY <1>1, <3>3, PromoteLinkRows
      <3>4. ASSUME NEW a \in OfferId, Publish(a) \/ Reject(a) \/ Restore(a)
            PROVE  Settled(o) \/ Pardoned(o)
        <4>1. CASE a = o
          <5> HIDE DEF Pardoned
          <5>1. CASE Reject(o)
            BY <1>1, <4>1, <5>1, RulingSteps
          <5>2. CASE Publish(o) \/ Restore(o)
            <6>1. approved'[o] = offers'[o].content
              BY <1>1, <4>1, <5>2, RulingSteps
            <6> QED
              BY <5>2, <6>1 DEF Pardoned
          <5> QED
            BY <3>4, <4>1, <5>1, <5>2
        <4>2. CASE a # o
          BY <1>1, <3>4, <4>2, RulingSteps
        <4> QED
          BY <4>1, <4>2
      <3>5. ASSUME NEW a \in OfferId, DeleteOffer(a) PROVE Settled(o)
        BY <1>1, <3>5, DeleteRows
      <3>6. ASSUME NEW a \in OfferId, NEW p \in AdminEntry, EditOffer(a, p)
            PROVE  Settled(o) \/ Pardoned(o)
        BY <1>1, <3>6, EditRows
      <3> HIDE DEF Pardoned
      <3> QED
        BY <2>4, <3>1, <3>2, <3>3, <3>4, <3>5, <3>6 DEF ModerationNext
    <2>5. CASE \E h \in BlockableHost : BlockHost(h) \/ Unblock(h)
      BY <2>2, <2>5 DEF BlockHost, Unblock
    <2>6. CASE \E s \in Source : DeleteSource(s) \/ Entered(s)
      BY <1>1, <2>2, <2>6, DeleteSourceRows DEF Entered, UpdateSource, AddSource
    <2>7. CASE DayPasses
      BY <1>1, <2>7, QueueSteps
    <2> HIDE DEF Pardoned
    <2> QED
      BY <1>1, <2>3, <2>4, <2>5, <2>6, <2>7, AdminCases DEF Next
  <1>2. IInv /\ [Next]_vars => [Final]_vars
    BY <1>1
  <1> QED
    BY <1>2, Invariance, PTL DEF Spec, RejectedStaysFinal

---------------------------------------------------------------------------
(* Directory hosts and the queue                                           *)

(* The steps that change which directory hosts are registered or swept. *)
LEMMA DirectorySteps ==
  ASSUME [Next]_vars
  PROVE  \/ UNCHANGED <<directories, sweeping, unswept>>
         \/ \E h \in DirectoryHost : RegisterDirectory(h) \/ Sweep(h) \/ LoseSweep(h)
  <1>1. CASE CrawlerNext
    BY <1>1 DEF CrawlerNext, Submit, Judge, ExpireStale, hosts
  <1>2. CASE ModerationNext
    BY <1>2 DEF ModerationNext, AdminCreate, Publish, PromoteSource, PromoteLink,
                AbandonPromotion, Reject, Restore, DeleteOffer, EditOffer, hosts
  <1>3. CASE \E h \in BlockableHost : BlockHost(h) \/ Unblock(h)
    BY <1>3 DEF BlockHost, Unblock
  <1>4. CASE \E s \in Source : DeleteSource(s) \/ Entered(s)
    BY <1>4 DEF Entered, UpdateSource, DeleteSource, AddSource, hosts
  <1>5. CASE DayPasses
    BY <1>5 DEF DayPasses, hosts
  <1>6. CASE UNCHANGED vars
    BY <1>6 DEF vars
  <1> QED
    BY <1>1, <1>2, <1>3, <1>4, <1>5, <1>6, AdminCases DEF Next

PageHosts(o) == {offers[o].content.site, offers[o].content.page}

(* A sweep spares a pending crawler offer only when it is not of the host. *)
LEMMA SweepClears ==
  ASSUME IInv, NEW h, Sweep(h), NEW o \in Judgeable(offers)'
  PROVE  o \in Judgeable(offers) /\ offers'[o].content = offers[o].content /\ h \notin PageHosts(o)
  <1> DEFINE S == Swept(offers, h)
  <1>1. IsTable(offers) /\ offers' = RejectAll(offers, S)
    BY DEF Sweep, IInv, TypeOK
  <1>2. o \in DOMAIN offers' /\ offers'[o].status = "pending" /\ offers'[o].by = "crawler"
    BY DEF Judgeable, Having
  <1> HIDE DEF S
  <1>3. /\ o \in DOMAIN offers /\ o \notin S /\ SameRuling(offers'[o], offers[o])
        /\ offers[o].status = "pending"
    BY <1>1, <1>2, RejectAllLemma
  <1> QED
    BY <1>2, <1>3 DEF S, Swept, Having, Judgeable, SameRuling, PageHosts

(* Once a directory host is registered and swept, no crawler offer from it *)
(* waits in the queue but those an admin put there: what the sweep refused *)
(* stays refused, and _directory_source_host refuses what comes after.     *)
THEOREM DirectoriesStaySwept == Spec => []DirectoryQueueSwept
  <1>1. Init => DirectoryQueueSwept
    BY DEF Init, DirectoryQueueSwept, Judgeable, Having
  <1>2. IInv /\ DirectoryQueueSwept /\ [Next]_vars => DirectoryQueueSwept'
    <2> SUFFICES ASSUME IInv, DirectoryQueueSwept, [Next]_vars,
                        NEW o \in Judgeable(offers)',
                        (PageHosts(o) \cap directories)' # {},
                        (PageHosts(o) \cap directories \cap (sweeping \cup unswept))' = {}
                 PROVE  approved'[o] = offers'[o].content
      BY DEF DirectoryQueueSwept, PageHosts, Judgeable, Having
    <2>1. o \in DOMAIN offers' /\ offers'[o].status = "pending" /\ offers'[o].by = "crawler"
      BY DEF Judgeable, Having
    <2>2. ASSUME o \in Judgeable(offers), PageHosts(o) \cap directories # {},
                 PageHosts(o) \cap directories \cap (sweeping \cup unswept) = {}
          PROVE  approved[o] = offers[o].content
      BY <2>2 DEF DirectoryQueueSwept, PageHosts, Judgeable, Having
    <2>3. CASE UNCHANGED <<directories, sweeping, unswept>>
      <3>1. ASSUME o \in Judgeable(offers), offers'[o].content = offers[o].content,
                   approved'[o] = approved[o]
            PROVE  approved'[o] = offers'[o].content
        BY <2>2, <2>3, <3>1 DEF PageHosts
      <3>2. ASSUME NEW x \in Sighting, Submit(x[1], x[2])
            PROVE  approved'[o] = offers'[o].content
        <4> DEFINE bad == BadSource(x[1])
        <4>1. Answered(offers, offers', x[1], x[2], bad) /\ approved' = approved
          BY <3>2, SubmitRows
        <4>2. ~bad => {x[1].site, x[1].page} \cap directories = {}
          BY DEF BadSource
        <4> HIDE DEF bad
        <4>3. CASE Resighted(offers, offers', bad, o)
          BY <2>1, <3>1, <4>1, <4>3 DEF Resighted, SameRuling, Judgeable, Having
        <4>4. CASE Written(offers, offers', x[1], x[2], bad, o)
          <5>1. ~bad /\ offers'[o].content = x[1]
            BY <2>1, <4>4 DEF Written, Refilled, Revived, Born, Carries, BirthStatus
          <5> QED
            BY <2>3, <4>2, <5>1 DEF PageHosts
        <4> QED
          BY <2>1, <4>1, <4>3, <4>4 DEF Answered
      <3>3. ASSUME IF o \in DOMAIN offers THEN Handled(o) ELSE TypedIn(o)
            PROVE  approved'[o] = offers'[o].content
        BY <2>1, <3>1, <3>3 DEF Handled, TypedIn, Judgeable, Having
      <3> QED
        BY <2>1, <3>2, <3>3, OtherSteps
    <2>4. ASSUME NEW h \in DirectoryHost, RegisterDirectory(h) \/ LoseSweep(h)
          PROVE  approved'[o] = offers'[o].content
      <3>1. UNCHANGED moderation
        BY <2>4 DEF RegisterDirectory, LoseSweep
      <3>2. offers' = offers /\ approved' = approved
        BY <3>1 DEF moderation
      <3>3. o \in Judgeable(offers) /\ PageHosts(o)' = PageHosts(o)
        BY <2>1, <3>2 DEF Judgeable, Having, PageHosts
      <3>4. PageHosts(o) \cap directories # {}
            /\ PageHosts(o) \cap directories \cap (sweeping \cup unswept) = {}
        BY <2>4, <3>3 DEF RegisterDirectory, LoseSweep
      <3> QED
        BY <2>2, <3>2, <3>3, <3>4
    <2>5. ASSUME NEW h \in DirectoryHost, Sweep(h)
          PROVE  approved'[o] = offers'[o].content
      <3>1. o \in Judgeable(offers) /\ offers'[o].content = offers[o].content
            /\ h \notin PageHosts(o)
        BY <2>5, SweepClears
      <3>2. /\ sweeping' = sweeping \ {h} /\ directories' = directories
            /\ unswept' = unswept /\ approved' = approved
        BY <2>5 DEF Sweep
      <3>3. PageHosts(o)' = PageHosts(o)
        BY <3>1 DEF PageHosts
      <3> QED
        BY <2>2, <3>1, <3>2, <3>3
    <2> QED
      BY <2>3, <2>4, <2>5, DirectorySteps
  <1> QED
    BY <1>1, <1>2, Invariance, PTL DEF Spec

---------------------------------------------------------------------------
(* Shadows                                                                 *)

(* What the crawler made and the public saw was ruled on by an admin. *)
Ruled ==
  \A o \in DOMAIN offers :
    (offers[o].by = "crawler" /\ offers[o].status \in {"published", "expired"})
      => offers[o].reviewer = "admin"

(* No sighting publishes an offer, and a ruling that does is signed. *)
LEMMA RuledStep == IInv /\ Ruled /\ [Next]_vars => Ruled'
  <1> SUFFICES ASSUME IInv, Ruled, [Next]_vars, NEW o \in DOMAIN offers',
                      offers'[o].by = "crawler", offers'[o].status \in {"published", "expired"}
               PROVE  offers'[o].reviewer = "admin"
    BY DEF Ruled
  <1>1. ASSUME NEW x \in Sighting, Submit(x[1], x[2])
        PROVE  offers'[o].reviewer = "admin"
    <2> DEFINE bad == BadSource(x[1])
    <2>1. Answered(offers, offers', x[1], x[2], bad)
      BY <1>1, SubmitRows
    <2> HIDE DEF bad
    <2>2. CASE Resighted(offers, offers', bad, o)
      BY <2>2 DEF Resighted, SameRuling, Ruled
    <2>3. CASE Written(offers, offers', x[1], x[2], bad, o)
      BY <2>3 DEF Written, Refilled, Revived, Born, Carries, BirthStatus
    <2> QED
      BY <2>1, <2>2, <2>3 DEF Answered
  <1>2. CASE IF o \in DOMAIN offers THEN Handled(o) ELSE TypedIn(o)
    BY <1>2 DEF Handled, TypedIn, Ruled
  <1> QED
    BY <1>1, <1>2, OtherSteps

(* One of two pending shadows of an offer was ruled on by an admin. *)
Distinguished(T, a, b) ==
  (/\ a # b
   /\ T[a].sup # NoOffer /\ T[a].sup = T[b].sup
   /\ T[a].status = "pending" /\ T[b].status = "pending")
    => "admin" \in {T[a].reviewer, T[b].reviewer}

(* A sighting that writes offer a leaves it the only fresh shadow: an      *)
(* expired offer that is revived was ruled on, and a shadow is inserted    *)
(* only when none is pending.                                              *)
LEMMA WrittenShadow ==
  ASSUME IInv, Ruled, OneFreshShadow, NEW x \in Sighting, NEW bad,
         NEW a \in DOMAIN offers', NEW b \in DOMAIN offers',
         Written(offers, offers', x[1], x[2], bad, a), Resighted(offers, offers', bad, b)
  PROVE  Distinguished(offers', a, b)
  <1> SUFFICES ASSUME a # b, offers'[a].sup # NoOffer, offers'[a].sup = offers'[b].sup,
                      offers'[a].status = "pending", offers'[b].status = "pending"
               PROVE  "admin" \in {offers'[a].reviewer, offers'[b].reviewer}
    BY DEF Distinguished
  <1>1. /\ b \in DOMAIN offers /\ offers[b].status = "pending"
        /\ offers[b].sup = offers'[b].sup /\ offers[b].reviewer = offers'[b].reviewer
    BY DEF Resighted, SameRuling
  <1>2. CASE Refilled(offers, offers', x[1], x[2], a)
    BY <1>1, <1>2 DEF Refilled, OneFreshShadow
  <1>3. CASE Revived(offers, offers', x[1], x[2], a)
    <2>1. x[2] # None
      BY <1>3 DEF Revived, Live
    <2>2. offers[a].by = "crawler"
      BY <1>3, <2>1 DEF Revived, IInv, Sound, Sourced
    <2> QED
      BY <1>3, <2>2 DEF Revived, Ruled
  <1>4. CASE Born(offers, offers', x[1], x[2], bad, a)
    BY <1>1, <1>4 DEF Born, PendingShadows, Having
  <1> QED
    BY <1>2, <1>3, <1>4 DEF Written

(* Of the pending shadows of an offer at most one has never been ruled on: *)
(* a change of the page goes to the shadow in flight, and a former version *)
(* revived beside it has been live before (branch 2 of create_offer).      *)
THEOREM ShadowsNeverFlood == Spec => []OneFreshShadow
  <1>1. Init => Ruled /\ OneFreshShadow
    BY DEF Init, Ruled, OneFreshShadow
  <1>2. IInv /\ Ruled /\ OneFreshShadow /\ [Next]_vars => OneFreshShadow'
    <2> SUFFICES ASSUME IInv, Ruled, OneFreshShadow, [Next]_vars,
                        NEW a \in DOMAIN offers', NEW b \in DOMAIN offers'
                 PROVE  Distinguished(offers', a, b)
      BY DEF OneFreshShadow, Distinguished
    <2>1. ASSUME NEW x \in Sighting, Submit(x[1], x[2])
          PROVE  Distinguished(offers', a, b)
      <3> DEFINE bad == BadSource(x[1])
      <3>1. Answered(offers, offers', x[1], x[2], bad)
        BY <2>1, SubmitRows
      <3> HIDE DEF bad
      <3>2. CASE Resighted(offers, offers', bad, a) /\ Resighted(offers, offers', bad, b)
        BY <3>2 DEF Resighted, SameRuling, OneFreshShadow, Distinguished
      <3>3. ASSUME Written(offers, offers', x[1], x[2], bad, a), Resighted(offers, offers', bad, b)
            PROVE  Distinguished(offers', a, b)
        BY <3>3, WrittenShadow
      <3>4. ASSUME Written(offers, offers', x[1], x[2], bad, b), Resighted(offers, offers', bad, a)
            PROVE  Distinguished(offers', a, b)
        <4>1. Distinguished(offers', b, a)
          BY <3>4, WrittenShadow
        <4> QED
          BY <4>1 DEF Distinguished
      <3>5. a = b => Distinguished(offers', a, b)
        BY DEF Distinguished
      <3> QED
        BY <3>1, <3>2, <3>3, <3>4, <3>5 DEF Answered
    <2>2. CASE \A o \in DOMAIN offers' : IF o \in DOMAIN offers THEN Handled(o) ELSE TypedIn(o)
      BY <2>2 DEF Handled, TypedIn, OneFreshShadow, Distinguished
    <2> QED
      BY <2>1, <2>2, OtherSteps
  <1> QED
    BY <1>1, <1>2, RuledStep, Invariance, PTL DEF Spec

---------------------------------------------------------------------------
(* The unique key                                                          *)

(* A shadow belongs to the source of the offer it would replace, as long   *)
(* as it belongs to one; an offer about to be linked belongs to none and   *)
(* is no shadow.                                                           *)
ShadowSource ==
  \A o \in DOMAIN offers :
    offers[o].sup # NoOffer => offers[o].source \in {None, offers[offers[o].sup].source}

PromotingUnlinked ==
  \A o \in DOMAIN offers :
    promoting[o] # "no" => offers[o].source = None /\ offers[o].sup = NoOffer

Keyed == KeysUnique(offers) /\ ShadowSource /\ PromotingUnlinked

(* A submission keeps the sources of the offers it finds. *)
LEMMA SubmitKeyed == \A x \in Sighting : IInv /\ Keyed /\ Submit(x[1], x[2]) => Keyed'
  <1> SUFFICES ASSUME NEW x \in Sighting, IInv, Keyed, Submit(x[1], x[2])
               PROVE  Keyed'
    OBVIOUS
  <1> DEFINE bad == BadSource(x[1])
  <1>1. /\ Answered(offers, offers', x[1], x[2], bad) /\ KeysUnique(offers')
        /\ DOMAIN offers \subseteq DOMAIN offers'
        /\ DOMAIN offers' \subseteq DOMAIN offers \cup {lastId + 1}
        /\ promoting' = promoting
    BY SubmitRows
  <1> HIDE DEF bad
  <1>2. \A o \in DOMAIN offers : offers'[o].source = offers[o].source
    BY <1>1 DEF Answered, Resighted, SameRuling, Written, Refilled, Revived, Born
  <1>3. ASSUME NEW o \in DOMAIN offers', offers'[o].sup # NoOffer
        PROVE  offers'[o].source \in {None, offers'[offers'[o].sup].source}
    <2>1. CASE o \in DOMAIN offers /\ offers'[o].sup = offers[o].sup
      <3>1. offers[o].sup \in DOMAIN offers
        BY <1>3, <2>1 DEF IInv, Sound, Shaped
      <3> QED
        BY <1>2, <1>3, <2>1, <3>1 DEF Keyed, ShadowSource
    <2>2. CASE offers'[o].sup \in Live(offers, x[1], x[2]) /\ offers'[o].source = x[2]
      <3>1. offers'[o].sup \in DOMAIN offers /\ offers[offers'[o].sup].source = x[2]
        BY <2>2 DEF Live, SamePage, Having
      <3> QED
        BY <1>2, <2>2, <3>1
    <2> QED
      BY <1>1, <1>3, <2>1, <2>2
         DEF Answered, Resighted, SameRuling, Written, Refilled, Revived, Born
  <1>4. ASSUME NEW o \in DOMAIN offers', promoting'[o] # "no"
        PROVE  offers'[o].source = None /\ offers'[o].sup = NoOffer
    <2>1. o \in DOMAIN offers
      <3>1. DOMAIN offers' \subseteq OfferId /\ lastId \in Nat
        BY DEF Submit, IInv, TypeOK
      <3>2. o <= lastId
        BY <1>1, <1>4, <3>1 DEF IInv, PromotingIsCrawler
      <3> QED
        BY <1>1, <3>1, <3>2
    <2>2. offers[o].source = None /\ offers[o].sup = NoOffer
      BY <1>1, <1>4, <2>1 DEF Keyed, PromotingUnlinked
    <2>3. ~Revived(offers, offers', x[1], x[2], o)
      BY <2>2 DEF Revived, Live
    <2> QED
      BY <1>1, <1>4, <2>1, <2>2, <2>3
         DEF Answered, Resighted, SameRuling, Written, Refilled, Born
  <1> QED
    BY <1>1, <1>3, <1>4 DEF Keyed, ShadowSource, PromotingUnlinked

(* An offer awaits its link only from a publication that found it without  *)
(* a source, and that cleared its parent.                                  *)
Awaiting(o) ==
  promoting'[o] # "no" =>
    \/ promoting[o] # "no"
    \/ o \in DOMAIN offers /\ offers[o].source = None /\ offers'[o].sup = NoOffer

(* Every step but a submission, a link and a source's end keeps sources. *)
LEMMA LinkSteps ==
  ASSUME IInv, [Next]_vars
  PROVE  \/ \E x \in Sighting : Submit(x[1], x[2])
         \/ \E o \in OfferId : PromoteLink(o)
         \/ \E s \in Source : DeleteSource(s)
         \/ /\ \A o \in DOMAIN offers \cap DOMAIN offers' : offers'[o].source = offers[o].source
            /\ \A o \in OfferId : Awaiting(o)
  <1> DEFINE Keeps == \A o \in DOMAIN offers \cap DOMAIN offers' :
                        offers'[o].source = offers[o].source
             Awaits == \A o \in OfferId : Awaiting(o)
  <1>1. ASSUME promoting' = promoting PROVE Awaits
    BY <1>1 DEF Awaiting
  <1>2. ASSUME UNCHANGED moderation PROVE Keeps
    BY <1>2 DEF moderation
  <1>3. CASE CrawlerNext
    <2>1. CASE (\E o \in DOMAIN offers : Judge(o)) \/ ExpireStale \/ (\E h : Sweep(h))
      <3>1. promoting' = promoting
        BY <2>1 DEF Judge, ExpireStale, Sweep
      <3> QED
        BY <1>1, <2>1, <3>1, QueueSteps
    <2>2. CASE \E h \in DirectoryHost : RegisterDirectory(h) \/ LoseSweep(h)
      BY <1>1, <1>2, <2>2 DEF RegisterDirectory, LoseSweep
    <2> QED
      BY <1>3, <2>1, <2>2 DEF CrawlerNext
  <1>4. CASE ModerationNext
    <2>1. ASSUME NEW p \in AdminEntry, AdminCreate(p) PROVE Keeps /\ Awaits
      <3>1. promoting' = promoting
        BY <2>1 DEF AdminCreate
      <3> QED
        BY <1>1, <2>1, <3>1, TypedInRows
    <2>2. ASSUME NEW o \in OfferId, PromoteSource(o) \/ AbandonPromotion(o)
          PROVE  Keeps /\ Awaits
      <3>1. UNCHANGED moderation
        BY <2>2 DEF PromoteSource, AbandonPromotion
      <3>2. \A x \in OfferId : promoting'[x] # "no" => promoting[x] # "no"
        BY <2>2 DEF PromoteSource, AbandonPromotion, IInv, TypeOK
      <3> QED
        BY <1>2, <3>1, <3>2 DEF Awaiting
    <2>3. ASSUME NEW o \in OfferId, Publish(o)
          PROVE  Keeps /\ Awaits
      <3>1. Keeps
        BY <2>3, RulingSteps
      <3>2. o \in DOMAIN offers /\ offers' = SetStatus(offers, o, "published")
            /\ promoting' = [promoting EXCEPT ![o] = IF Promotable(o) THEN "due" ELSE "no"]
        BY <2>3 DEF Publish
      <3>3. offers'[o].sup = NoOffer
        <4>1. IsTable(offers) /\ offers[o].sup # o
          BY <3>2, NoSelfLoop DEF IInv, TypeOK, Sound
        <4> QED
          BY <3>2, <4>1, SetStatusRows DEF Status
      <3>4. promoting'[o] # "no" => offers[o].source = None
        BY <3>2 DEF Promotable, IInv, TypeOK
      <3>5. \A x \in OfferId \ {o} : promoting'[x] = promoting[x]
        BY <3>2 DEF IInv, TypeOK
      <3> QED
        BY <3>1, <3>2, <3>3, <3>4, <3>5 DEF Awaiting
    <2>4. ASSUME NEW o \in OfferId, Reject(o) \/ Restore(o)
          PROVE  Keeps /\ Awaits
      <3>1. promoting' = promoting
        BY <2>4 DEF Reject, Restore
      <3> QED
        BY <1>1, <2>4, <3>1, RulingSteps
    <2>5. ASSUME NEW o \in OfferId, DeleteOffer(o) PROVE Keeps /\ Awaits
      <3>1. promoting' = promoting
        BY <2>5 DEF DeleteOffer
      <3> QED
        BY <1>1, <2>5, <3>1, DeleteRows
    <2>6. ASSUME NEW o \in OfferId, NEW p \in AdminEntry, EditOffer(o, p)
          PROVE  Keeps /\ Awaits
      <3>1. promoting' = promoting
        BY <2>6 DEF EditOffer
      <3> QED
        BY <1>1, <2>6, <3>1, EditRows
    <2> HIDE DEF Keeps, Awaits
    <2>7. (Keeps /\ Awaits) \/ \E o \in OfferId : PromoteLink(o)
      BY <1>4, <2>1, <2>2, <2>3, <2>4, <2>5, <2>6 DEF ModerationNext
    <2> QED
      BY <2>7 DEF Keeps, Awaits
  <1>5. CASE \E h \in BlockableHost : BlockHost(h) \/ Unblock(h)
    BY <1>1, <1>2, <1>5 DEF BlockHost, Unblock
  <1>6. CASE \E s \in Source : Entered(s)
    BY <1>1, <1>2, <1>6 DEF Entered, UpdateSource, AddSource
  <1>7. CASE DayPasses
    <2>1. promoting' = promoting
      BY <1>7 DEF DayPasses
    <2> QED
      BY <1>1, <1>7, <2>1, QueueSteps
  <1>8. CASE UNCHANGED vars
    BY <1>1, <1>8 DEF vars
  <1> HIDE DEF Keeps, Awaits
  <1>9. \/ \E x \in Sighting : Submit(x[1], x[2])
        \/ \E o \in OfferId : PromoteLink(o)
        \/ \E s \in Source : DeleteSource(s)
        \/ Keeps /\ Awaits
    BY <1>3, <1>4, <1>5, <1>6, <1>7, <1>8, AdminCases DEF Next, CrawlerNext, Keeps, Awaits
  <1> QED
    BY <1>9 DEF Keeps, Awaits

(* The other steps: a link is made only where the key stays unique, and a  *)
(* source that ends leaves all of its offers.                              *)
LEMMA OtherKeyed ==
  ASSUME IInv, IInv', Keyed, [Next]_vars, ~\E x \in Sighting : Submit(x[1], x[2])
  PROVE  Keyed'
  <1>1. /\ \A o \in DOMAIN offers' \cap DOMAIN offers :
             offers'[o].hash = offers[o].hash /\ offers'[o].sup \in {offers[o].sup, NoOffer}
        /\ \A o \in DOMAIN offers' \ DOMAIN offers :
             offers'[o].source = None /\ offers'[o].sup = NoOffer
    BY OtherSteps DEF Handled, TypedIn
  <1>2. \A o \in DOMAIN offers' : offers'[o].sup # NoOffer =>
          /\ o \in DOMAIN offers /\ offers'[o].sup = offers[o].sup
          /\ offers[o].sup \in DOMAIN offers /\ offers[o].sup \in DOMAIN offers'
    BY <1>1 DEF IInv, Sound, Shaped
  <1>3. DOMAIN offers' \subseteq OfferId
    BY DEF IInv, TypeOK, IsTable
  <1>4. CASE /\ \A o \in DOMAIN offers \cap DOMAIN offers' : offers'[o].source = offers[o].source
             /\ \A o \in OfferId : Awaiting(o)
    <2>1. KeysUnique(offers')
      <3> SUFFICES ASSUME NEW a \in DOMAIN offers', NEW b \in DOMAIN offers', a # b,
                          offers'[a].source # None, offers'[a].hash # None
                   PROVE  <<offers'[a].source, offers'[a].hash>> # <<offers'[b].source, offers'[b].hash>>
        BY DEF KeysUnique
      <3> QED
        BY <1>1, <1>4 DEF Keyed, KeysUnique
    <2>2. ShadowSource'
      BY <1>2, <1>4 DEF Keyed, ShadowSource
    <2>3. PromotingUnlinked'
      BY <1>1, <1>3, <1>4 DEF Keyed, PromotingUnlinked, Awaiting
    <2> QED
      BY <2>1, <2>2, <2>3 DEF Keyed
  <1>5. ASSUME NEW s \in Source, DeleteSource(s)
        PROVE  Keyed'
    <2>1. /\ DOMAIN offers' = DOMAIN offers
          /\ \A o \in DOMAIN offers :
               /\ offers'[o].hash = offers[o].hash /\ offers'[o].sup = offers[o].sup
               /\ offers'[o].source = IF offers[o].source = s THEN None ELSE offers[o].source
      BY <1>5, DeleteSourceRows DEF Handled
    <2>2. promoting' = promoting
      BY <1>5 DEF DeleteSource
    <2>3. KeysUnique(offers')
      <3> SUFFICES ASSUME NEW a \in DOMAIN offers', NEW b \in DOMAIN offers', a # b,
                          offers'[a].source # None, offers'[a].hash # None
                   PROVE  <<offers'[a].source, offers'[a].hash>> # <<offers'[b].source, offers'[b].hash>>
        BY DEF KeysUnique
      <3> QED
        BY <2>1 DEF Keyed, KeysUnique
    <2>4. ShadowSource'
      BY <1>2, <2>1 DEF Keyed, ShadowSource
    <2>5. PromotingUnlinked'
      BY <2>1, <2>2 DEF Keyed, PromotingUnlinked
    <2> QED
      BY <2>3, <2>4, <2>5 DEF Keyed
  <1>6. ASSUME NEW w \in OfferId, PromoteLink(w)
        PROVE  Keyed'
    <2>1. /\ w \in DOMAIN offers /\ DOMAIN offers' = DOMAIN offers
          /\ \A x \in DOMAIN offers : offers'[x].hash = offers[x].hash /\ offers'[x].sup = offers[x].sup
          /\ \A x \in DOMAIN offers \ {w} : offers'[x].source = offers[x].source
          /\ \/ offers'[w].source = offers[w].source
             \/ /\ offers'[w].source = promoting[w]
                /\ \A x \in DOMAIN offers \ {w} :
                     ~(offers[w].hash # None /\ offers[x].source = promoting[w]
                         /\ offers[x].hash = offers[w].hash)
      BY <1>6, PromoteLinkRows DEF Handled
    <2>2. promoting[w] # "no" /\ promoting' = [promoting EXCEPT ![w] = "no"]
      BY <1>6, OffersAssumption, Zenon DEF PromoteLink
    <2>3. offers[w].source = None /\ offers[w].sup = NoOffer
      BY <2>1, <2>2 DEF Keyed, PromotingUnlinked
    <2>4. KeysUnique(offers')
      <3> SUFFICES ASSUME NEW a \in DOMAIN offers', NEW b \in DOMAIN offers', a # b,
                          offers'[a].source # None, offers'[a].hash # None
                   PROVE  <<offers'[a].source, offers'[a].hash>> # <<offers'[b].source, offers'[b].hash>>
        BY DEF KeysUnique
      <3>1. CASE a # w /\ b # w
        BY <2>1, <3>1 DEF Keyed, KeysUnique
      <3>2. CASE a = w \/ b = w
        BY <2>1, <2>3, <3>2
      <3> QED
        BY <3>1, <3>2
    <2>5. ShadowSource'
      BY <1>2, <2>1, <2>3 DEF Keyed, ShadowSource
    <2>6. PromotingUnlinked'
      <3>1. promoting'[w] = "no" /\ \A x \in OfferId \ {w} : promoting'[x] = promoting[x]
        BY <2>2 DEF IInv, TypeOK
      <3> QED
        BY <1>3, <2>1, <3>1 DEF Keyed, PromotingUnlinked
    <2> QED
      BY <2>4, <2>5, <2>6 DEF Keyed
  <1> QED
    BY <1>4, <1>5, <1>6, LinkSteps

(* The table's unique key holds, with the sources of shadows and of offers *)
(* about to be linked.                                                     *)
LEMMA KeyedAlways == Spec => []Keyed
  <1>1. Init => Keyed
    BY DEF Init, Keyed, KeysUnique, ShadowSource, PromotingUnlinked
  <1>2. IInv /\ IInv' /\ Keyed /\ [Next]_vars => Keyed'
    BY SubmitKeyed, OtherKeyed
  <1> QED
    BY <1>1, <1>2, Invariance, PTL DEF Spec

(* What a submission writes can collide with an offer of its source only,  *)
(* and branch 1 would have met any that is not expired.                    *)
LEMMA WrittenCollides ==
  ASSUME IInv, Keyed, NEW p, NEW s, NEW bad, NEW T, NEW a \in DOMAIN T, NEW b \in DOMAIN T,
         Written(offers, T, p, s, bad, a), Resighted(offers, T, bad, b), a # b,
         T[a].source # None, T[a].hash # None,
         T[a].source = T[b].source, T[a].hash = T[b].hash
  PROVE  \E o \in DOMAIN offers :
           /\ offers[o].status = "expired" /\ offers[o].source = s /\ offers[o].hash = p.hash
  <1>1. /\ b \in DOMAIN offers /\ offers[b].source = T[b].source /\ offers[b].hash = T[b].hash
    BY DEF Resighted, SameRuling
  <1>2. T[a].hash = p.hash
    BY DEF Written, Refilled, Revived, Born, Carries
  <1>3. T[a].source = s
    <2>1. CASE Refilled(offers, T, p, s, a)
      <3>1. CASE offers[a].sup \in Live(offers, p, s)
        <4>1. offers[a].sup \in DOMAIN offers /\ offers[offers[a].sup].source = s
          BY <3>1 DEF Live, SamePage, Having
        <4>2. offers[a].sup # NoOffer
          BY <4>1, Bounds DEF IInv, TypeOK, IsTable
        <4> QED
          BY <2>1, <4>1, <4>2 DEF Refilled, Keyed, ShadowSource
      <3> QED
        BY <2>1, <3>1 DEF Refilled
    <2>2. CASE Revived(offers, T, p, s, a)
      BY <2>2 DEF Revived
    <2>3. CASE Born(offers, T, p, s, bad, a)
      BY <2>3 DEF Born
    <2> QED
      BY <2>1, <2>2, <2>3 DEF Written
  <1>4. b \notin SameHash(offers, p, s)
    BY DEF Written
  <1> QED
    BY <1>1, <1>2, <1>3, <1>4 DEF SameHash, Having

(* A submission runs into the unique key only when an expired offer of the *)
(* same source holds the content: every other path of create_offer keeps   *)
(* the key (branch 1 looks at all but expired rows, a shadow in flight is  *)
(* of the source of its parent, a revived one holds the key already).      *)
THEOREM OnlyExpiredRowsCollide == Spec => []OnlyExpiredCollides
  <1>1. IInv /\ Keyed => OnlyExpiredCollides
    <2> SUFFICES ASSUME IInv, Keyed, NEW x \in Sighting,
                        NEW T \in CreateOffer(offers, x[1], x[2], BadSource(x[1]), lastId + 1),
                        ~KeysUnique(T)
                 PROVE  \E o \in DOMAIN offers :
                          /\ offers[o].status = "expired"
                          /\ offers[o].source = x[2] /\ offers[o].hash = x[1].hash
      BY Zenon DEF OnlyExpiredCollides
    <2> DEFINE p == x[1]
               s == x[2]
               n == lastId + 1
               bad == BadSource(p)
    <2>1. p \in Payload /\ bad \in BOOLEAN
      BY OffersAssumption DEF BadSource
    <2>2. n \notin DOMAIN offers /\ IsTable(offers)
      BY DEF IInv, TypeOK, IsTable, IdsIssued, OfferId
    <2>3. T \in CreateOffer(offers, p, s, bad, n)
      OBVIOUS
    <2> HIDE DEF p, s, n, bad
    <2>4. Answered(offers, T, p, s, bad)
      BY <2>1, <2>2, <2>3, SubmissionRows
    <2>5. PICK a \in DOMAIN T, b \in DOMAIN T :
            /\ a # b /\ T[a].source # None /\ T[a].hash # None
            /\ T[a].source = T[b].source /\ T[a].hash = T[b].hash
      BY DEF KeysUnique
    <2>6. ~(Resighted(offers, T, bad, a) /\ Resighted(offers, T, bad, b))
      BY <2>5 DEF Resighted, SameRuling, Keyed, KeysUnique
    <2>7. PICK c \in {a, b}, d \in {a, b} :
            Written(offers, T, p, s, bad, c) /\ Resighted(offers, T, bad, d) /\ c # d
      BY <2>4, <2>5, <2>6 DEF Answered
    <2>8. /\ c \in DOMAIN T /\ d \in DOMAIN T /\ T[c].source # None /\ T[c].hash # None
          /\ T[c].source = T[d].source /\ T[c].hash = T[d].hash
      BY <2>5, <2>7
    <2>9. \E o \in DOMAIN offers :
            /\ offers[o].status = "expired" /\ offers[o].source = s /\ offers[o].hash = p.hash
      BY <2>7, <2>8, WrittenCollides
    <2> QED
      BY <2>9 DEF p, s
  <1> QED
    BY <1>1, Invariance, KeyedAlways, PTL

---------------------------------------------------------------------------
(* Sources                                                                 *)

(* How a source comes to follow a host other than by an update. *)
LEMMA SourceSteps ==
  ASSUME IInv, [Next]_vars
  PROVE  \/ \E u \in Source, a \in Address, active \in BOOLEAN : UpdateSource(u, a, active)
         \/ \A s \in Source : Followed(sources'[s]) \in {None, Followed(sources[s])}
         \/ \E u \in Source :
              /\ \A s \in Source \ {u} : sources'[s] = sources[s]
              /\ Followed(sources'[u]) = None
                   \/ \A s \in Source : Followed(sources[s]) # Followed(sources'[u])
  <1> DEFINE Ends == \A s \in Source : Followed(sources'[s]) \in {None, Followed(sources[s])}
             First == \E u \in Source :
                        /\ \A s \in Source \ {u} : sources'[s] = sources[s]
                        /\ Followed(sources'[u]) = None
                             \/ \A s \in Source : Followed(sources[s]) # Followed(sources'[u])
             Updated == \E u \in Source, a \in Address, active \in BOOLEAN : UpdateSource(u, a, active)
  <1>1. ASSUME sources' = sources PROVE Ends
    BY <1>1
  <1>2. sources \in [Source -> SourceRow]
    BY DEF IInv, TypeOK
  <1>3. CASE CrawlerNext
    BY <1>1, <1>3 DEF CrawlerNext, Submit, Judge, ExpireStale, RegisterDirectory, Sweep, LoseSweep
  <1>4. CASE ModerationNext
    <2>1. ASSUME NEW o \in OfferId, PromoteSource(o)
          PROVE  Ends \/ First
      <3>1. PICK u \in Source : Promoted(o, u)
        BY <2>1, PromotedSource
      <3>2. CASE sources' = sources
        BY <1>1, <3>2
      <3>3. ASSUME NEW a \in Address, Reopened(u, a) PROVE First
        <4>1. \A s \in Source \ {u} : sources'[s] = sources[s]
          BY <1>2, <3>3 DEF Reopened
        <4>2. sources'[u] = [state |-> "active", at |-> a]
          BY <1>2, <3>3 DEF Reopened
        <4>3. Followed(sources'[u]) = HostOf[a]
          BY <4>2 DEF Followed
        <4>4. \A s \in Source : Followed(sources[s]) # HostOf[a]
          BY <3>3 DEF Reopened
        <4> QED
          BY <4>1, <4>3, <4>4
      <3> HIDE DEF First, Ends
      <3> QED
        BY <3>1, <3>2, <3>3 DEF Promoted
    <2>2. ASSUME NEW o \in OfferId, PromoteLink(o) PROVE Ends
      <3>1. UNCHANGED <<lastId, approved, hosts, sources>>
        BY <2>2, Zenon DEF PromoteLink
      <3> QED
        BY <1>1, <3>1
    <2>3. ASSUME NEW o \in OfferId,
                 Publish(o) \/ AbandonPromotion(o) \/ Reject(o) \/ Restore(o) \/ DeleteOffer(o)
                   \/ \E p \in AdminEntry : EditOffer(o, p)
          PROVE  Ends
      <3>1. sources' = sources
        BY <2>3 DEF Publish, AbandonPromotion, Reject, Restore, DeleteOffer, EditOffer
      <3> QED
        BY <1>1, <3>1
    <2>4. ASSUME NEW p \in AdminEntry, AdminCreate(p) PROVE Ends
      BY <1>1, <2>4 DEF AdminCreate
    <2> HIDE DEF Ends, First
    <2>5. Ends \/ First
      BY <1>4, <2>1, <2>2, <2>3, <2>4 DEF ModerationNext
    <2> QED
      BY <2>5 DEF Ends, First
  <1>5. CASE \E h \in BlockableHost : BlockHost(h) \/ Unblock(h)
    BY <1>1, <1>5 DEF BlockHost, Unblock
  <1>6. ASSUME NEW u \in Source, DeleteSource(u) PROVE Ends
    <2>1. sources' = [sources EXCEPT ![u] = [state |-> "deleted", at |-> None]]
      BY <1>6 DEF DeleteSource
    <2> QED
      BY <1>2, <2>1 DEF Followed
  <1>7. ASSUME NEW u \in Source, NEW a \in Address, NEW active \in BOOLEAN, AddSource(u, a, active)
        PROVE  First
    <2>1. sources' = [sources EXCEPT ![u] = [state |-> IF active THEN "active" ELSE "inactive",
                                             at |-> a]]
      BY <1>7 DEF AddSource
    <2>2. \A s \in Source \ {u} : sources'[s] = sources[s]
      BY <1>2, <2>1
    <2>3. Followed(sources'[u]) \in {None, HostOf[a]}
      BY <1>2, <2>1 DEF Followed
    <2>4. HostOf[a] # None => \A s \in Source : Followed(sources[s]) # HostOf[a]
      BY <1>7 DEF AddSource
    <2> QED
      BY <2>2, <2>3, <2>4
  <1>8. CASE DayPasses
    BY <1>1, <1>8 DEF DayPasses
  <1>9. CASE UNCHANGED vars
    BY <1>1, <1>9 DEF vars
  <1> HIDE DEF Ends, First, Updated
  <1>10. CASE \E u \in Source : DeleteSource(u) \/ Entered(u)
    <2>1. \A u \in Source : Entered(u) => First \/ Updated
      BY <1>7 DEF Entered, Updated
    <2> QED
      BY <1>6, <1>10, <2>1 DEF Ends, First, Updated
  <1>11. Updated \/ Ends \/ First
    BY <1>3, <1>4, <1>5, <1>8, <1>9, <1>10, AdminCases DEF Next, Ends, First, Updated
  <1> QED
    BY <1>11 DEF Ends, First, Updated

(* A host's second active source is an admin's doing: create_source and    *)
(* get_or_create_source_by_ref both look for an active source of the host  *)
(* first, and update_source, which does not, is an admin's request.        *)
THEOREM SecondActiveSourceByHand == Spec => OneActiveSourceByCreation
  <1> DEFINE Twice(s, t) ==
               /\ s # t /\ Followed(sources'[s]) = Followed(sources'[t])
               /\ Followed(sources'[s]) # None
               /\ <<Followed(sources[s]), Followed(sources[t])>>
                    # <<Followed(sources'[s]), Followed(sources'[t])>>
             Single ==
               \A s, t \in Source : Twice(s, t)
                 => \E u \in {s, t}, a \in Address, active \in BOOLEAN : UpdateSource(u, a, active)
  <1>1. ASSUME IInv, [Next]_vars PROVE Single
    <2> SUFFICES ASSUME NEW s \in Source, NEW t \in Source, Twice(s, t)
                 PROVE  \E u \in {s, t}, a \in Address, active \in BOOLEAN : UpdateSource(u, a, active)
      OBVIOUS
    <2>1. ASSUME NEW u \in Source, NEW a \in Address, NEW active \in BOOLEAN,
                 UpdateSource(u, a, active)
          PROVE  u \in {s, t}
      <3>1. \A x \in Source \ {u} : sources'[x] = sources[x]
        BY <1>1, <2>1 DEF UpdateSource, IInv, TypeOK
      <3> QED
        BY <3>1
    <2>2. ~\A x \in Source : Followed(sources'[x]) \in {None, Followed(sources[x])}
      OBVIOUS
    <2>3. ASSUME NEW u \in Source, \A x \in Source \ {u} : sources'[x] = sources[x],
                 \/ Followed(sources'[u]) = None
                 \/ \A x \in Source : Followed(sources[x]) # Followed(sources'[u])
          PROVE  FALSE
      BY <2>3
    <2> HIDE DEF Twice
    <2> QED
      BY <1>1, <2>1, <2>2, <2>3, SourceSteps
  <1>2. IInv /\ [Next]_vars => [Single]_vars
    BY <1>1
  <1> QED
    BY <1>2, Invariance, PTL DEF Spec, OneActiveSourceByCreation

===========================================================================
