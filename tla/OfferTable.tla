---------------------------- MODULE OfferTable ----------------------------
(***************************************************************************)
(* The offers table of the UBD backend and what the CRUD layer computes    *)
(* from it (backend/app/crud/offer.py).  A table is a function from the    *)
(* offer ids in use to rows.  Every operator takes a table and returns a   *)
(* table (or a set of rows of it), so that the same definitions serve a    *)
(* transaction that runs alone (module Offers) and one that works on a     *)
(* snapshot others have moved past (module OfferRequests).                 *)
(*                                                                         *)
(* A payload is what one submission carries, with its texts and URLs cut   *)
(* down to what the code compares: the content hash, the canonical article *)
(* and target URLs, the hosts of site_url, article_url and provider, the   *)
(* set of discount magnitudes and the set of content words.                *)
(***************************************************************************)
EXTENDS Naturals, FiniteSets

CONSTANTS
  MaxOffers,   \* bound: ids the auto-increment column hands out
  Source,      \* ids in the sources table
  Host,        \* bare hosts
  Under,       \* Under[b]: the hosts equal to b or below it
  Payload,     \* the contents that can be submitted
  HubPair,     \* <<a, b>>: page a is a hub page relative to peer page b
  DeepPage,    \* canonical pages that have a path
  SimNum, SimDen,  \* the text similarity threshold, SimNum / SimDen
  StaleAge,    \* days without a sighting after which a live offer is stale
  None         \* NULL

OfferId == 1..MaxOffers
NoOffer == 0     \* supersedes_offer_id IS NULL

Status == {"pending", "published", "rejected", "expired"}

HashOf(p) == p.hash

(* the link row _mk_link builds, and the hosts create_offer looks at *)
LinkOf(p) == <<p.provider, p.site, p.article>>
PageHost(p) == IF p.site # None THEN p.site ELSE p.page
CandidateHosts(p) == {p.site, p.page, p.provider} \ {None}

Hash == {HashOf(p) : p \in Payload}
Link == {LinkOf(p) : p \in Payload}

Row == [status : Status, by : {"admin", "crawler"}, source : Source \cup {None},
        hash : Hash \cup {None}, content : Payload, sup : 0..MaxOffers,
        age : 0..StaleAge, reviewer : {"none", "admin", "judge"},
        links : SUBSET Link]

IsTable(T) == DOMAIN T \subseteq OfferId /\ T \in [DOMAIN T -> Row]

ASSUME OfferTableAssumption ==
  /\ MaxOffers \in Nat
  /\ StaleAge \in Nat
  /\ Under \in [Host -> SUBSET Host]
  /\ None \notin Source

---------------------------------------------------------------------------
(* Queries *)

(* ORDER BY id LIMIT 1 *)
Oldest(S) == {o \in S : \A x \in S : o <= x}

(* the columns of row o set by a WHERE clause, for the rows of a table *)
Having(T, P(_)) == {o \in DOMAIN T : P(T[o])}

PendingShadows(T, q) == Having(T, LAMBDA r : r.sup = q /\ r.status = "pending")

HostBlocked(blocked, h) == \E b \in blocked : h \in Under[b]

(* text_similarity(a, b) >= threshold *)
SimilarText(a, b) ==
  /\ a # {} /\ b # {}
  /\ Cardinality(a \cap b) * SimDen >= SimNum * Cardinality(a \cup b)

IsDuplicatePromo(p, q) ==
  p.mags # {} /\ p.mags \subseteq q.mags /\ SimilarText(p.words, q.words)

(* mutant: branch 1 looks at open rows only *)
SameHashOpenOnly(T, p, s) ==
  Having(T, LAMBDA r : /\ p.hash # None /\ r.hash = p.hash
                       /\ r.source = s /\ r.status \in {"pending", "published"})

(* rows a re-sighting of the same content of the same source falls on *)
SameHash(T, p, s) ==
  Having(T, LAMBDA r : /\ p.hash # None /\ r.hash = p.hash
                       /\ r.source = s /\ r.status # "expired")

SamePage(T, p, s) == Having(T, LAMBDA r : r.source = s /\ r.content.article = p.article)

Live(T, p, s) ==
  IF p.article = None \/ s = None THEN {}
  ELSE {o \in SamePage(T, p, s) : T[o].status = "published"}

Queued(T, p, s) ==
  IF p.article = None \/ s = None THEN {}
  ELSE {o \in SamePage(T, p, s) : T[o].status = "pending" /\ T[o].sup = NoOffer}

Discovered(T, p, s) ==
  IF p.article = None \/ s # None THEN {}
  ELSE {o \in SamePage(T, p, s) : T[o].status # "expired" /\ T[o].sup = NoOffer}

(* live or decided crawler offers on the host the payload comes from *)
HostPeers(T, p) ==
  Having(T, LAMBDA r : /\ PageHost(p) # None /\ p.mags # {}
                       /\ r.by = "crawler" /\ r.status # "expired"
                       /\ PageHost(r.content) = PageHost(p))

SamePromo(T, p) == {o \in HostPeers(T, p) : IsDuplicatePromo(p, T[o].content)}

HubPeers(T, p) ==
  {o \in HostPeers(T, p) :
     /\ p.article # None /\ T[o].sup = NoOffer
     /\ T[o].content.article # p.article
     /\ <<p.article, T[o].content.article>> \in HubPair
     /\ p.mags \subseteq T[o].content.mags}

(* deep pages first, then the lowest id *)
BestPeers(T, S) ==
  LET deep == {o \in S : T[o].content.article \in DeepPage}
  IN  Oldest(IF deep # {} THEN deep ELSE S)

SameTarget(T, p) ==
  Having(T, LAMBDA r : p.target # None /\ r.content.target = p.target)

---------------------------------------------------------------------------
(* Updates *)

SetRow(T, o, r) == [x \in DOMAIN T \cup {o} |-> IF x = o THEN r ELSE T[x]]

Touch(T, S) ==
  [o \in DOMAIN T |-> IF o \in S THEN [T[o] EXCEPT !.age = 0] ELSE T[o]]

RejectAll(T, S) ==
  [o \in DOMAIN T |-> IF o \in S THEN [T[o] EXCEPT !.status = "rejected"] ELSE T[o]]

(* _apply_content *)
WithContent(r, p) ==
  [r EXCEPT !.content = p, !.hash = p.hash, !.links = {LinkOf(p)}, !.age = 0]

NewRow(p, s, h, by, status, sup) ==
  [status |-> status, by |-> by, source |-> s, hash |-> h, content |-> p,
   sup |-> sup, age |-> 0, reviewer |-> "none", links |-> {LinkOf(p)}]

(* branch 1: the content is already in the table *)
SeeAgain(T, o) ==
  LET seen == Touch(T, {o, T[o].sup})
      stale == IF T[o].sup = NoOffer /\ T[o].status = "published"
               THEN PendingShadows(T, o) ELSE {}
  IN  RejectAll(seen, stale)

(* branch 2: the discount the live offer q advertises is still there *)
StillCovered(T, q, p) ==
  T[q].content.mags # {} /\ T[q].content.mags \subseteq p.mags

(* branch 2: the live offer q changed; n is the id an insert would get.  A
   shadow in flight already is pending and points to q. *)
Revivable(T, p, s) ==
  Having(T, LAMBDA r : p.hash # None /\ r.source = s /\ r.hash = p.hash)

ShadowIds(T, q, p, s, n) ==
  LET revive == Revivable(T, p, s)
      inFlight == Oldest(PendingShadows(T, q))
  IN  IF revive # {} THEN revive ELSE IF inFlight # {} THEN inFlight ELSE {n}

ShadowRow(T, q, p, s, o) ==
  IF o \in DOMAIN T
  THEN WithContent([T[o] EXCEPT !.sup = q, !.status = "pending"], p)
  ELSE NewRow(p, s, p.hash, "crawler", "pending", q)

(* mutants: the live row is rewritten in place; every change gets a row of
   its own; the live row is not touched *)
ShadowInPlace(T, q, p, s, n) == {SetRow(T, q, WithContent(T[q], p))}

ShadowAlwaysNew(T, q, p, s, n) ==
  {SetRow(Touch(T, {q}), n, NewRow(p, s, p.hash, "crawler", "pending", q))}

ShadowOnly(T, q, p, s, n) ==
  LET inFlight == Oldest(PendingShadows(T, q))
  IN  IF inFlight = {} THEN {SetRow(T, n, NewRow(p, s, p.hash, "crawler", "pending", q))}
      ELSE {SetRow(T, o, WithContent(T[o], p)) : o \in inFlight}

ShadowFor(T, q, p, s, n) ==
  {SetRow(RejectAll(Touch(T, {q}), Oldest(PendingShadows(T, q)) \ {o}), o,
          ShadowRow(T, q, p, s, o)) : o \in ShadowIds(T, q, p, s, n)}

(* branch 4: another provider's link to the same target *)
Merge(T, o, p) ==
  [T EXCEPT ![o].links = @ \cup {LinkOf(p)}, ![o].age = 0]

(* mutant: a bad source's offer is queued like any other *)
BirthStatusPending(bad) == "pending"

BirthStatus(bad) == IF bad THEN "rejected" ELSE "pending"

---------------------------------------------------------------------------
(***************************************************************************)
(* create_offer for a crawler submission of payload p under source s: the  *)
(* tables it may leave, n being the id an insert would get.  The branches  *)
(* are tried in the code's order and the first whose query finds a row     *)
(* returns.  bad: the payload comes from a blocked or a directory host;    *)
(* then only the branches that collapse onto an existing row are open and  *)
(* an insert is born rejected.  Only branch 1 leaves the choice of the row *)
(* to the database (no ORDER BY).                                          *)
(***************************************************************************)
CreateOffer(T, p, s, bad, n) ==
  LET known == SameHash(T, p, s)
      live == IF bad THEN {} ELSE Live(T, p, s)
      queued == IF bad THEN {} ELSE Queued(T, p, s)
      found == Discovered(T, p, s)
      promo == IF bad THEN {} ELSE SamePromo(T, p)
      hubs == IF bad THEN {} ELSE HubPeers(T, p)
      target == IF bad THEN {} ELSE SameTarget(T, p)
  IN  IF known # {} THEN {SeeAgain(T, o) : o \in known}
      ELSE IF live # {} THEN
        UNION {IF StillCovered(T, q, p) THEN {Touch(T, {q})} ELSE ShadowFor(T, q, p, s, n) :
                 q \in Oldest(live)}
      ELSE IF queued # {} THEN {SetRow(T, o, WithContent(T[o], p)) : o \in Oldest(queued)}
      ELSE IF found # {} THEN {Touch(T, {o}) : o \in Oldest(found)}
      ELSE IF promo # {} THEN {Touch(T, {o}) : o \in Oldest(promo)}
      ELSE IF hubs # {} THEN {Touch(T, {o}) : o \in BestPeers(T, hubs)}
      ELSE IF target # {} THEN {Merge(T, o, p) : o \in Oldest(target)}
      ELSE {SetRow(T, n, NewRow(p, s, p.hash, "crawler", BirthStatus(bad), NoOffer))}

(* UniqueConstraint("source_id", "content_hash"): NULLs never collide *)
KeysUnique(T) ==
  \A a, b \in DOMAIN T :
    (a # b /\ T[a].source # None /\ T[a].hash # None)
      => <<T[a].source, T[a].hash>> # <<T[b].source, T[b].hash>>

---------------------------------------------------------------------------
(* mutants: the link to the parent stays; the reviewer is not recorded *)
SetStatusKeepingLink(T, o, st) ==
  LET q == T[o].sup
      ruled == [T EXCEPT ![o].status = st, ![o].reviewer = "admin", ![o].age = 0]
  IN  IF st = "published" /\ q \in DOMAIN T /\ T[q].status = "published"
      THEN [ruled EXCEPT ![q].status = "expired"] ELSE ruled

SetStatusAnonymous(T, o, st) == [T EXCEPT ![o].status = st]

(***************************************************************************)
(* set_status.  Publishing refreshes last_seen, expires a live parent and  *)
(* drops the link to it; any status may be left for any other.             *)
(***************************************************************************)
SetStatus(T, o, st) ==
  LET ruled == [T EXCEPT ![o].status = st, ![o].reviewer = "admin"]
      q == T[o].sup
      expired == IF q \in DOMAIN T /\ T[q].status = "published"
                 THEN [ruled EXCEPT ![q].status = "expired"] ELSE ruled
  IN  IF st # "published" THEN ruled
      ELSE [expired EXCEPT ![o].age = 0, ![o].sup = NoOffer]

(* mutant: hosts are compared for equality *)
OffersOn(T, h) == Having(T, LAMBDA r : h \in CandidateHosts(r.content))

(* the offers whose site, article or provider host is h or below it *)
OffersUnder(T, h) ==
  Having(T, LAMBDA r : \E c \in CandidateHosts(r.content) : c \in Under[h])

(***************************************************************************)
(* _maybe_autoblock_hosts: the hosts of the offer o just rejected that     *)
(* have two rejected offers and no published one.                          *)
(***************************************************************************)
AutoBlockMinRejects == 2

HostsToBlock(T, o, blocked) ==
  {h \in CandidateHosts(T[o].content) :
     /\ ~HostBlocked(blocked, h)
     /\ \A x \in OffersUnder(T, h) : T[x].status # "published"
     /\ Cardinality({x \in OffersUnder(T, h) : T[x].status = "rejected"})
          >= AutoBlockMinRejects}

(* judge_reject touches pending offers the crawler made, nothing else *)
Judgeable(T) == Having(T, LAMBDA r : r.status = "pending" /\ r.by = "crawler")

JudgeReject(T, o) ==
  [T EXCEPT ![o].status = "rejected", ![o].reviewer = "judge"]

(* _sweep of a newly registered directory host *)
Swept(T, h) ==
  Having(T, LAMBDA r : /\ r.by = "crawler" /\ r.status = "pending"
                       /\ h \in {r.content.site, r.content.page})

(* expire_stale *)
Stale(T) ==
  Having(T, LAMBDA r : /\ r.status = "published" /\ r.by = "crawler"
                       /\ r.source # None /\ r.age = StaleAge)

Expire(T) ==
  [o \in DOMAIN T |-> IF o \in Stale(T) THEN [T[o] EXCEPT !.status = "expired"] ELSE T[o]]

(* update_offer: an admin rewrites the content; status, hash and source stay *)
EditLinks(r, p) ==
  LET old == {l \in r.links : l[2] = r.content.site /\ l[3] = r.content.article}
  IN  IF Cardinality(r.links) <= 1 THEN {LinkOf(p)}
      ELSE IF old = {} THEN r.links
      ELSE (r.links \ {CHOOSE l \in old : TRUE}) \cup {LinkOf(p)}

Edit(T, o, p) ==
  [T EXCEPT ![o].content = p, ![o].links = EditLinks(T[o], p)]

(* mutant: no ON DELETE SET NULL *)
DeleteDangling(T, o) == [x \in DOMAIN T \ {o} |-> T[x]]

(* delete_offer: ON DELETE SET NULL clears the pointers to the row *)
Delete(T, o) ==
  [x \in DOMAIN T \ {o} |->
     IF T[x].sup = o THEN [T[x] EXCEPT !.sup = NoOffer] ELSE T[x]]

(* delete_source: offers survive without their source *)
Orphan(T, s) ==
  [o \in DOMAIN T |-> IF T[o].source = s THEN [T[o] EXCEPT !.source = None] ELSE T[o]]

(* another day without a sighting *)
Age(T) ==
  [o \in DOMAIN T |->
     [T[o] EXCEPT !.age = IF @ < StaleAge THEN @ + 1 ELSE StaleAge]]

===========================================================================
