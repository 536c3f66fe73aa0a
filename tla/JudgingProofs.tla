--------------------------- MODULE JudgingProofs ---------------------------
(***************************************************************************)
(* The judge, proved for any pages, texts, budget and any number of        *)
(* failures: the types, that the composition of gate, sweep, cache and     *)
(* moderators does what Moderation allows and nothing else, and that a     *)
(* text is refused again only at the price of a failure.                   *)
(***************************************************************************)
EXTENDS Judging, TLAPS

\* The list of a running sweep names texts that the offers still have: only
\* a pass changes them.
QueueCurrent == \A o \in queue : offers[o.page].text = o.text

\* judge_reject runs for one offer at a time; while the sweep waits for it
\* the offer is still on the list.
OneRejection ==
    /\ \A p, q \in rejecting : p = q
    /\ \A p \in rejecting : queue = {} \/ \E o \in queue : o.page = p

\* What a refusal under way will add when its sweep is gone, and what the
\* cache file keeps from being repeated.
Ahead(p) == IF p \in rejecting /\ queue = {} THEN 1 ELSE 0
Kept(p, t) == IF PageHash(p, t) \in saved THEN 1 ELSE 0

\* A refusal that no verdict in the cache file keeps from being repeated has
\* been paid for by a failure; one whose sweep is gone counts in advance.
Owed ==
    \A p \in Page :
        /\ \A t \in Text : refusals[p][t] + Ahead(p) <= faults + Kept(p, t)
        /\ p \in rejecting => queue = {} \/ PageHash(p, offers[p].text) \notin saved

IInv == TypeOK /\ QueueCurrent /\ OneRejection /\ Owed

-----------------------------------------------------------------------------

LEMMA ThereIsText == (CHOOSE t \in Text : TRUE) \in Text
BY JudgingAssumption

\* A submission changes one row, to what its page says now, and no published one.
LEMMA SubmitDoes ==
    ASSUME TypeOK, NEW p \in Page, Submit(p)
    PROVE  /\ older' \subseteq Page \X Page
           /\ \/ UNCHANGED <<offers, closed>>
              \/ /\ offers[p].status = "none"
                    \/ (offers[p].status # "published" /\ offers[p].text # site[p])
                 /\ site[p] \notin closed[p]
                 /\ offers' = [offers EXCEPT ![p] = [status |-> "pending", text |-> site[p]]]
                 /\ closed' = IF offers[p].status = "rejected"
                              THEN [closed EXCEPT ![p] = @ \cup {offers[p].text}] ELSE closed
<1>1. offers[p].status # "none" \/ offers[p].status # "published"
  OBVIOUS
<1>2. Added(p) \subseteq Page \X Page
  BY DEF TypeOK, Added
<1>3. CASE offers[p].status = "published" \/ Known(p)
  BY <1>3 DEF Submit, TypeOK, table
<1>4. CASE ~(offers[p].status = "published" \/ Known(p))
  BY <1>2, <1>4 DEF Submit, TypeOK, Known
<1> QED BY <1>3, <1>4

LEMMA SubmitTyped ==
    ASSUME TypeOK, NEW p \in Page, Submit(p)
    PROVE  offers' \in [Page -> Row] /\ closed' \in [Page -> SUBSET Text]
<1>1. CASE UNCHANGED <<offers, closed>>
  BY <1>1 DEF TypeOK
<1>2. CASE ~UNCHANGED <<offers, closed>>
  <2>1. offers[p].text \in Text /\ site[p] \in Text
    BY DEF TypeOK, Row
  <2>2. offers' \in [Page -> Row]
    <3>1. PICK row : row = [status |-> "pending", text |-> site[p]]
      OBVIOUS
    <3>2. row \in Row
      BY <2>1, <3>1 DEF Row
    <3>3. offers' = [offers EXCEPT ![p] = row]
      BY <1>2, <3>1, SubmitDoes
    <3> QED BY <3>2, <3>3 DEF TypeOK
  <2>3. closed' = closed \/ closed' = [closed EXCEPT ![p] = @ \cup {offers[p].text}]
    BY <1>2, SubmitDoes
  <2>4. closed[p] \cup {offers[p].text} \in SUBSET Text
    BY <2>1 DEF TypeOK
  <2>5. closed' \in [Page -> SUBSET Text]
    BY <2>3, <2>4 DEF TypeOK
  <2> QED BY <2>2, <2>5
<1> QED BY <1>1, <1>2

LEMMA WaitingTyped ==
    ASSUME TypeOK
    PROVE  /\ Waiting \subseteq [page : Page, text : Text]
           /\ \A o \in Waiting : offers[o.page].text = o.text
BY DEF TypeOK, Waiting, Pending, Row

LEMMA RefuseDoes ==
    ASSUME TypeOK, NEW p \in Page, Refuse(p)
    PROVE  /\ offers' \in [Page -> Row]
           /\ \A q \in Page : offers'[q].text = offers[q].text
           /\ refusals' \in [Page -> [Text -> Nat]]
           /\ refusals'[p][offers[p].text] = refusals[p][offers[p].text] + 1
           /\ \A q \in Page, t \in Text :
                 refusals'[q][t] = refusals[q][t] \/ (q = p /\ t = offers[p].text)
<1>1. offers' \in [Page -> Row] /\ \A q \in Page : offers'[q].text = offers[q].text
  BY DEF TypeOK, Refuse, Row
<1>2. offers[p].text \in Text /\ refusals[p] \in [Text -> Nat]
  BY DEF TypeOK, Row
<1>3. [refusals[p] EXCEPT ![offers[p].text] = refusals[p][offers[p].text] + 1] \in [Text -> Nat]
  BY <1>2
<1>4. refusals' = [refusals EXCEPT ![p] =
                      [refusals[p] EXCEPT ![offers[p].text] = refusals[p][offers[p].text] + 1]]
  BY <1>2 DEF TypeOK, Refuse
<1>5. refusals' \in [Page -> [Text -> Nat]]
  BY <1>3, <1>4 DEF TypeOK
<1>6. /\ refusals'[p] = [refusals[p] EXCEPT ![offers[p].text] = refusals[p][offers[p].text] + 1]
      /\ \A q \in Page \ {p} : refusals'[q] = refusals[q]
  BY <1>4 DEF TypeOK
<1>7. /\ refusals'[p][offers[p].text] = refusals[p][offers[p].text] + 1
      /\ \A t \in Text \ {offers[p].text} : refusals'[p][t] = refusals[p][t]
  BY <1>2, <1>6
<1> QED BY <1>1, <1>5, <1>6, <1>7

\* The arithmetic of Owed: its terms are numbers, and paying keeps it.
LEMMA OwedTyped ==
    ASSUME TypeOK, NEW p \in Page, NEW t \in Text
    PROVE  /\ faults \in Nat /\ refusals[p][t] \in Nat
           /\ Ahead(p) \in {0, 1} /\ Kept(p, t) \in {0, 1}
<1>1. faults \in Nat /\ refusals[p] \in [Text -> Nat]
  BY DEF TypeOK
<1> QED BY <1>1 DEF Ahead, Kept

LEMMA PaidKeeps ==
    ASSUME IInv, faults' \in Nat, saved \subseteq saved',
           NEW p \in Page, NEW t \in Text,
           refusals'[p][t] = refusals[p][t],
           \/ faults <= faults' /\ (p \in rejecting' /\ queue' = {} => p \in rejecting /\ queue = {})
           \/ faults' = faults + 1
    PROVE  refusals'[p][t] + Ahead(p)' <= faults' + Kept(p, t)'
<1>1. /\ faults \in Nat /\ refusals[p][t] \in Nat
      /\ Ahead(p) \in {0, 1} /\ Kept(p, t) \in {0, 1}
      /\ refusals[p][t] + Ahead(p) <= faults + Kept(p, t)
  BY OwedTyped DEF IInv, Owed
<1>2. Kept(p, t)' \in {0, 1} /\ (Kept(p, t) = 1 => Kept(p, t)' = 1)
  BY DEF Kept, PageHash
<1>3. Ahead(p)' \in {0, 1}
  BY DEF Ahead
<1>4. CASE faults <= faults' /\ (p \in rejecting' /\ queue' = {} => p \in rejecting /\ queue = {})
  <2>1. Ahead(p)' = 1 => Ahead(p) = 1
    BY <1>4 DEF Ahead
  <2> QED BY <1>1, <1>2, <1>3, <1>4, <2>1
<1>5. CASE faults' = faults + 1
  BY <1>1, <1>2, <1>3, <1>5
<1> QED BY <1>4, <1>5

LEMMA HashTyped ==
    ASSUME NEW p \in Page, NEW t \in Text
    PROVE  BlockHash(t) \in Hash /\ PageHash(p, t) \in Hash
BY DEF Hash

-----------------------------------------------------------------------------

LEMMA InitHolds == Init => IInv
<1> SUFFICES ASSUME Init PROVE IInv
  OBVIOUS
<1>1. NoRow \in Row
  BY ThereIsText DEF NoRow, Row
<1>2. TypeOK
  <2>1. offers \in [Page -> Row] /\ closed \in [Page -> SUBSET Text]
    BY <1>1 DEF Init
  <2>2. refusals \in [Page -> [Text -> Nat]]
    BY DEF Init
  <2> QED BY <2>1, <2>2 DEF Init, TypeOK
<1>3. QueueCurrent /\ OneRejection
  BY DEF Init, QueueCurrent, OneRejection
<1>4. Owed
  <2> SUFFICES ASSUME NEW p \in Page
               PROVE  /\ \A t \in Text : refusals[p][t] + Ahead(p) <= faults + Kept(p, t)
                      /\ p \in rejecting => queue = {} \/ PageHash(p, offers[p].text) \notin saved
    BY DEF Owed
  <2>1. /\ \A t \in Text : refusals[p][t] = 0
        /\ Ahead(p) = 0 /\ faults = 0 /\ \A t \in Text : Kept(p, t) \in {0, 1}
    BY DEF Init, Ahead, Kept
  <2>2. p \notin rejecting
    BY DEF Init
  <2> QED BY <2>1, <2>2
<1> QED BY <1>2, <1>3, <1>4 DEF IInv

-----------------------------------------------------------------------------
(* One lemma per action that does more than turn a switch.                 *)

\* A submission of a pass, whatever the gate knows of the block.
LEMMA SubmitKeeps ==
    ASSUME IInv, NEW p \in Page, doing = "pass",
           Submit(p) \/ UNCHANGED table,
           UNCHANGED <<site, doing, queue, rejecting, refusals, bounds>>,
           cache' \in {cache, cache \cup {BlockHash(site[p])}},
           saved' \in {saved, cache'},
           faults' \in {faults, faults + 1}, broken' \in BOOLEAN, troubled' \in BOOLEAN
    PROVE  IInv'
<1> USE DEF IInv
<1>1. queue = {} /\ queue' = {} /\ rejecting' = rejecting /\ refusals' = refusals
  BY DEF TypeOK
<1>2. /\ offers' \in [Page -> Row] /\ closed' \in [Page -> SUBSET Text]
      /\ older' \subseteq Page \X Page
  BY SubmitDoes, SubmitTyped DEF TypeOK, table
<1>3. cache' \subseteq Hash /\ saved' \subseteq cache' /\ saved \subseteq saved'
  BY HashTyped DEF TypeOK
<1>4. faults \in Nat /\ faults <= faults' /\ faults' \in Nat
  BY DEF TypeOK
<1>5. TypeOK'
  BY <1>1, <1>2, <1>3, <1>4 DEF TypeOK, bounds
<1>6. QueueCurrent' /\ OneRejection'
  BY <1>1 DEF QueueCurrent, OneRejection
<1>7. Owed'
  BY <1>1, <1>3, <1>4, PaidKeeps DEF Owed
<1> QED BY <1>5, <1>6, <1>7

\* A step of the sweep that leaves the offers alone.
LEMMA SweepKeepsOffers ==
    ASSUME IInv, NEW o \in queue, AtOffer(o),
           UNCHANGED <<site, table, broken, doing, rejecting, troubled, refusals, bounds>>,
           queue' \subseteq queue,
           cache' \in {cache, cache \cup {PageHash(o.page, o.text)}},
           saved' \in {saved, cache'}, faults' \in {faults, faults + 1}
    PROVE  IInv'
<1> USE DEF IInv
<1>1. rejecting = {} /\ rejecting' = {} /\ refusals' = refusals
  BY DEF AtOffer
<1>2. cache' \subseteq Hash /\ saved' \subseteq cache' /\ saved \subseteq saved'
  BY HashTyped DEF TypeOK
<1>3. faults \in Nat /\ faults <= faults' /\ faults' \in Nat
  BY DEF TypeOK
<1>4. TypeOK'
  BY <1>2, <1>3 DEF TypeOK, bounds, table
<1>5. QueueCurrent' /\ OneRejection'
  BY <1>1 DEF QueueCurrent, OneRejection, table
<1>6. Owed'
  BY <1>1, <1>2, <1>3, PaidKeeps DEF Owed
<1> QED BY <1>4, <1>5, <1>6

\* The rejection was done, but its answer is lost: the failure pays for it.
LEMMA LostAnswerKeeps ==
    ASSUME IInv, NEW o \in queue, RejectFails(o), Fault, Refuse(o.page)
    PROVE  IInv'
<1> USE DEF IInv
<1>1. /\ rejecting = {} /\ rejecting' = {} /\ o.page \in Page /\ queue' \subseteq queue
      /\ UNCHANGED <<cache, saved>> /\ faults' = faults + 1 /\ faults \in Nat
  BY DEF RejectFails, ForgetFailed, AtOffer, Fault, TypeOK
<1>2. TypeOK'
  <2>1. offers' \in [Page -> Row] /\ refusals' \in [Page -> [Text -> Nat]]
    BY <1>1, RefuseDoes
  <2> QED BY <1>1, <2>1 DEF TypeOK, RejectFails, bounds
<1>3. QueueCurrent' /\ OneRejection'
  <2>1. \A q \in Page : offers'[q].text = offers[q].text
    BY <1>1, RefuseDoes
  <2>2. \A x \in queue : x.page \in Page
    BY DEF TypeOK
  <2> QED BY <1>1, <2>1, <2>2 DEF QueueCurrent, OneRejection
<1>4. Owed'
  <2> SUFFICES ASSUME NEW q \in Page, NEW t \in Text
               PROVE  refusals'[q][t] + Ahead(q)' <= faults' + Kept(q, t)'
    BY <1>1 DEF Owed
  <2>1. CASE refusals'[q][t] = refusals[q][t]
    BY <1>1, <2>1, PaidKeeps
  <2>2. CASE q = o.page /\ t = offers[o.page].text
    <3>1. refusals'[q][t] = refusals[q][t] + 1
      BY <1>1, <2>2, RefuseDoes
    <3>2. /\ refusals[q][t] + Ahead(q) <= faults + Kept(q, t)
          /\ refusals[q][t] \in Nat /\ Kept(q, t) \in {0, 1}
      BY OwedTyped DEF Owed
    <3>3. Kept(q, t)' = Kept(q, t)
      BY <1>1 DEF Kept, PageHash
    <3>4. Ahead(q) = 0 /\ Ahead(q)' = 0
      BY <1>1 DEF Ahead
    <3> QED BY <1>1, <3>1, <3>2, <3>3, <3>4
  <2> QED BY <1>1, <2>1, <2>2, RefuseDoes
<1> QED BY <1>2, <1>3, <1>4

LEMMA ReadKeeps ==
    ASSUME IInv, NEW o \in queue, RejectReads(o)
    PROVE  IInv'
<1> USE DEF IInv
<1>1. /\ rejecting' = {o.page} /\ o.page \in Page /\ queue # {}
      /\ PageHash(o.page, offers[o.page].text) \notin saved
      /\ UNCHANGED <<site, offers, closed, older, cache, saved, broken, doing, queue, troubled,
                     refusals, faults, rulings, edits>>
  BY DEF RejectReads, AtOffer, Judged, TypeOK, QueueCurrent, crawler, bounds, table
<1>2. TypeOK'
  BY <1>1 DEF TypeOK
<1>3. QueueCurrent' /\ OneRejection'
  BY <1>1 DEF QueueCurrent, OneRejection
<1>4. Owed'
  <2> SUFFICES ASSUME NEW q \in Page
               PROVE  /\ \A t \in Text : refusals'[q][t] + Ahead(q)' <= faults' + Kept(q, t)'
                      /\ q \in rejecting' => PageHash(q, offers'[q].text) \notin saved'
    BY DEF Owed, PageHash
  <2>1. \A t \in Text : refusals'[q][t] + Ahead(q)' <= faults' + Kept(q, t)'
    BY <1>1, PaidKeeps DEF TypeOK
  <2> QED BY <1>1, <2>1 DEF PageHash
<1> QED BY <1>2, <1>3, <1>4

\* The commit: what it adds is in the file, or is paid for by the failure that
\* kept it from there, or by the restart that took the sweep away.
LEMMA CommitKeeps ==
    ASSUME IInv, NEW p \in Page, RejectCommits(p)
    PROVE  IInv'
<1> USE DEF IInv
<1>1. p \in rejecting /\ rejecting' = {} /\ Refuse(p)
  BY DEF RejectCommits
<1>2. faults \in Nat /\ offers[p].text \in Text
  BY DEF TypeOK, Row
<1> DEFINE hash == PageHash(p, offers[p].text)
<1>3. /\ queue' \subseteq queue /\ cache' \in {cache, cache \cup {hash}}
      /\ saved' \subseteq cache' /\ saved \subseteq saved'
      /\ \/ queue = {} /\ faults' = faults
         \/ queue # {} /\ faults' = faults /\ hash \in saved'
         \/ queue # {} /\ faults' = faults + 1
  <2>1. CASE queue = {} /\ UNCHANGED <<cache, saved, queue, faults>>
    BY <2>1 DEF TypeOK
  <2>2. CASE \E o \in queue : o.page = p /\ RememberJunk(o)
    <3>1. PICK o \in queue : o.page = p /\ RememberJunk(o)
      BY <2>2
    <3>2. o.text = offers[p].text
      BY <3>1 DEF QueueCurrent
    <3>3. /\ cache' = cache \cup {hash} /\ queue' \subseteq queue
          /\ \/ saved' = cache' /\ faults' = faults
             \/ saved' = saved /\ faults' = faults + 1
      BY <3>1, <3>2 DEF RememberJunk, Remember, Put, Fault
    <3> QED BY <3>1, <3>3 DEF TypeOK
  <2>3. \/ queue = {} /\ UNCHANGED <<cache, saved, queue, faults>>
        \/ \E o \in queue : o.page = p /\ RememberJunk(o)
    BY DEF RejectCommits
  <2> QED BY <2>1, <2>2, <2>3
<1>4. TypeOK'
  <2>1. cache' \subseteq Hash
    BY <1>2, <1>3, HashTyped DEF TypeOK
  <2>2. offers' \in [Page -> Row] /\ refusals' \in [Page -> [Text -> Nat]]
    BY <1>1, RefuseDoes
  <2> QED BY <1>1, <1>2, <1>3, <2>1, <2>2 DEF TypeOK, RejectCommits, bounds
<1>5. QueueCurrent' /\ OneRejection'
  <2>1. \A q \in Page : offers'[q].text = offers[q].text
    BY <1>1, RefuseDoes
  <2>2. \A x \in queue : x.page \in Page
    BY DEF TypeOK
  <2> QED BY <1>1, <1>3, <2>1, <2>2 DEF QueueCurrent, OneRejection
<1>6. Owed'
  <2> SUFFICES ASSUME NEW q \in Page, NEW t \in Text
               PROVE  refusals'[q][t] + Ahead(q)' <= faults' + Kept(q, t)'
    BY <1>1 DEF Owed
  <2>1. CASE refusals'[q][t] = refusals[q][t]
    BY <1>1, <1>2, <1>3, <2>1, PaidKeeps
  <2>2. CASE q = p /\ t = offers[p].text
    <3>1. refusals'[q][t] = refusals[q][t] + 1
      BY <1>1, <2>2, RefuseDoes
    <3>2. /\ refusals[q][t] + Ahead(q) <= faults + Kept(q, t)
          /\ refusals[q][t] \in Nat /\ Kept(q, t) \in {0, 1} /\ Kept(q, t)' \in {0, 1}
      BY OwedTyped DEF Owed, Kept
    <3>3. Kept(q, t) = 1 => Kept(q, t)' = 1
      BY <1>3 DEF Kept, PageHash
    <3>4. Ahead(q)' = 0 /\ (queue = {} => Ahead(q) = 1) /\ Ahead(q) \in {0, 1}
      BY <1>1, <2>2 DEF Ahead
    <3>5. queue # {} => Kept(q, t) = 0
      BY <1>1, <2>2 DEF Owed, Kept
    <3>6. hash \in saved' => Kept(q, t)' = 1
      BY <2>2 DEF Kept, PageHash
    <3> HIDE DEF hash
    <3>7. CASE queue = {} /\ faults' = faults
      BY <1>2, <3>1, <3>2, <3>3, <3>4, <3>7
    <3>8. CASE queue # {} /\ faults' = faults /\ hash \in saved'
      BY <1>2, <3>1, <3>2, <3>4, <3>5, <3>6, <3>8
    <3>9. CASE queue # {} /\ faults' = faults + 1
      BY <1>2, <3>1, <3>2, <3>4, <3>5, <3>9
    <3> QED BY <1>3, <3>7, <3>8, <3>9
  <2> QED BY <1>1, <2>1, <2>2, RefuseDoes
<1> QED BY <1>4, <1>5, <1>6

\* The crawler loses its memory of verdicts, but not more than the failure pays for.
LEMMA RestartKeeps ==
    ASSUME IInv, Restart
    PROVE  IInv'
<1> USE DEF IInv
<1>1. /\ cache' = saved /\ queue' = {} /\ faults' = faults + 1 /\ faults \in Nat
      /\ broken' = FALSE /\ doing' = "idle" /\ troubled' = FALSE
      /\ UNCHANGED <<site, offers, closed, older, saved, rejecting, refusals, rulings, edits>>
  BY DEF Restart, Fault, bounds, table, TypeOK
<1>2. TypeOK'
  <2>1. cache' \subseteq Hash /\ saved' \subseteq cache'
    BY <1>1 DEF TypeOK
  <2>2. /\ queue' \subseteq [page : Page, text : Text] /\ (queue' # {} => doing' = "sweep")
        /\ broken' \in BOOLEAN /\ troubled' \in BOOLEAN /\ doing' \in {"idle", "pass", "sweep"}
    BY <1>1
  <2>3. /\ site' \in [Page -> Text] /\ offers' \in [Page -> Row] /\ older' \subseteq Page \X Page
        /\ closed' \in [Page -> SUBSET Text] /\ refusals' \in [Page -> [Text -> Nat]]
        /\ rejecting' \subseteq Page /\ faults' \in Nat /\ rulings' \in Nat /\ edits' \in Nat
    BY <1>1 DEF TypeOK
  <2> QED BY <2>1, <2>2, <2>3 DEF TypeOK
<1>3. QueueCurrent' /\ OneRejection'
  BY <1>1 DEF QueueCurrent, OneRejection
<1>4. Owed'
  BY <1>1, PaidKeeps DEF Owed
<1> QED BY <1>2, <1>3, <1>4

LEMMA RulingKeeps ==
    ASSUME IInv, NEW p \in Page, NEW s \in {"pending", "published", "rejected"}, Moderate(p, s)
    PROVE  IInv'
<1> USE DEF IInv
<1>1. offers' \in [Page -> Row] /\ \A q \in Page : offers'[q].text = offers[q].text
  BY DEF Moderate, TypeOK, Row
<1>2. /\ UNCHANGED <<site, closed, older, cache, saved, broken, doing, queue, rejecting, troubled,
                     refusals, faults, edits>>
      /\ rulings' = rulings + 1
  BY DEF Moderate, crawler
<1>3. TypeOK'
  BY <1>1, <1>2 DEF TypeOK
<1>4. QueueCurrent' /\ OneRejection'
  BY <1>1, <1>2 DEF QueueCurrent, OneRejection, TypeOK
<1>5. Owed'
  BY <1>1, <1>2 DEF Owed, Ahead, Kept, PageHash
<1> QED BY <1>3, <1>4, <1>5

\* Beginnings and ends, and what the owner of a page does.
LEMMA SwitchKeeps ==
    ASSUME IInv,
           \/ StartPass \/ EndPass \/ StartSweep \/ EndSweep
           \/ \E p \in Page, t \in Text : SiteChanges(p, t)
    PROVE  IInv'
<1> USE DEF IInv
<1>1. UNCHANGED <<offers, closed, older, cache, saved, rejecting, refusals, faults>>
  BY DEF StartPass, EndPass, StartSweep, EndSweep, SiteChanges, crawler, table
<1>2. queue' = queue \/ (queue' = Waiting /\ rejecting = {})
  BY DEF StartPass, EndPass, StartSweep, EndSweep, SiteChanges, crawler
<1>3. TypeOK'
  <2>1. CASE StartPass
    BY <1>1, <2>1 DEF StartPass, BreakerAtStart, TypeOK, bounds
  <2>2. CASE EndPass
    BY <1>1, <2>2 DEF EndPass, TypeOK, bounds
  <2>3. CASE StartSweep
    BY <1>1, <2>3, WaitingTyped DEF StartSweep, TypeOK, bounds
  <2>4. CASE EndSweep
    BY <1>1, <2>4 DEF EndSweep, TypeOK, bounds
  <2>5. CASE \E p \in Page, t \in Text : SiteChanges(p, t)
    BY <1>1, <2>5 DEF SiteChanges, crawler, TypeOK
  <2> QED BY <2>1, <2>2, <2>3, <2>4, <2>5
<1>4. QueueCurrent'
  BY <1>1, <1>2, WaitingTyped DEF QueueCurrent
<1>5. OneRejection' /\ Owed'
  <2>1. CASE queue' = queue
    BY <1>1, <2>1 DEF OneRejection, Owed, Ahead, Kept, PageHash
  <2>2. CASE rejecting = {}
    BY <1>1, <2>2 DEF OneRejection, Owed, Ahead, Kept, PageHash
  <2> QED BY <1>2, <2>1, <2>2
<1> QED BY <1>3, <1>4, <1>5

-----------------------------------------------------------------------------

LEMMA NextKeeps == IInv /\ [Next]_vars => IInv'
<1> SUFFICES ASSUME IInv, [Next]_vars PROVE IInv'
  OBVIOUS
<1>1. CASE StartPass \/ EndPass \/ StartSweep \/ EndSweep
  BY <1>1, SwitchKeeps
<1>2. CASE Restart
  BY <1>2, RestartKeeps
<1>3. ASSUME NEW p \in Page, GateKnows(p) \/ GateAsks(p) \/ GateFails(p) PROVE IInv'
  <2>1. /\ doing = "pass" /\ (Submit(p) \/ UNCHANGED table)
        /\ UNCHANGED <<site, doing, queue, rejecting, refusals, bounds>>
    BY <1>3 DEF GateKnows, GateAsks, GateFails, crawler
  <2>2. /\ cache' \in {cache, cache \cup {BlockHash(site[p])}} /\ saved' \in {saved, cache'}
        /\ faults' \in {faults, faults + 1}
    BY <1>3 DEF GateKnows, GateAsks, GateFails, crawler, Put, Fault
  <2>3. broken' \in BOOLEAN /\ troubled' \in BOOLEAN
    BY <1>3 DEF GateKnows, GateAsks, GateFails, crawler, IInv, TypeOK
  <2> QED BY <2>1, <2>2, <2>3, SubmitKeeps
<1>4. ASSUME NEW o \in queue, SweepSkips(o) \/ SweepFails(o) \/ SweepKeeps(o) PROVE IInv'
  <2>1. /\ AtOffer(o)
        /\ UNCHANGED <<site, table, broken, doing, rejecting, troubled, refusals, bounds>>
    BY <1>4 DEF SweepSkips, SweepFails, SweepKeeps
  <2>2. /\ queue' \subseteq queue /\ faults' \in {faults, faults + 1}
        /\ cache' \in {cache, cache \cup {PageHash(o.page, o.text)}} /\ saved' \in {saved, cache'}
    BY <1>4 DEF SweepSkips, SweepFails, SweepKeeps, Remember, Put, Fault
  <2> QED BY <2>1, <2>2, SweepKeepsOffers
<1>5. ASSUME NEW o \in queue, RejectFails(o) PROVE IInv'
  <2>1. CASE UNCHANGED <<offers, refusals>>
    <3>1. /\ AtOffer(o)
          /\ UNCHANGED <<site, closed, older, broken, doing, rejecting, troubled, bounds>>
          /\ queue' \subseteq queue /\ UNCHANGED <<cache, saved>> /\ faults' \in {faults, faults + 1}
      BY <1>5 DEF RejectFails, ForgetFailed, Fault
    <3>2. UNCHANGED <<site, table, broken, doing, rejecting, troubled, refusals, bounds>>
      BY <2>1, <3>1 DEF table
    <3> QED BY <3>1, <3>2, SweepKeepsOffers
  <2>2. CASE Fault /\ Refuse(o.page)
    BY <1>5, <2>2, LostAnswerKeeps
  <2> QED BY <1>5, <2>1, <2>2 DEF RejectFails
<1>6. ASSUME NEW o \in queue, RejectReads(o) PROVE IInv'
  BY <1>6, ReadKeeps
<1>7. ASSUME NEW p \in Page, RejectCommits(p) PROVE IInv'
  BY <1>7, CommitKeeps
<1>8. ASSUME NEW p \in Page, NEW s \in {"pending", "published", "rejected"}, Moderate(p, s)
      PROVE IInv'
  BY <1>8, RulingKeeps
<1>9. ASSUME NEW p \in Page, NEW t \in Text, SiteChanges(p, t) PROVE IInv'
  BY <1>9, SwitchKeeps
<1>10. CASE UNCHANGED vars
  BY <1>10 DEF vars, bounds, IInv, TypeOK, QueueCurrent, OneRejection, Owed, Ahead, Kept, PageHash
<1> QED BY <1>1, <1>2, <1>3, <1>4, <1>5, <1>6, <1>7, <1>8, <1>9, <1>10 DEF Next, Sweep

(* The inductive invariant: the list of the running sweep names the texts   *)
(* the offers have, one rejection is under way at a time, and refusals that *)
(* could be repeated were paid for by failures (discovery/rejudge.py,       *)
(* judge/cache.py).  It does not say whose the verdicts are.                *)
THEOREM Invariance == Spec => []IInv
<1> QED BY InitHolds, NextKeeps, PTL DEF Spec

(* The types of the composition (judge/gate.py, discovery/rejudge.py,      *)
(* crud/offer.py) hold in every reachable state.                           *)
THEOREM TypeCorrect == Spec => []TypeOK
<1>1. IInv => TypeOK
  BY DEF IInv
<1> QED BY <1>1, Invariance, PTL

(* An offer that moderators put back stays in the queue (crud/offer.py,    *)
(* judge_reject; judge/cache.py): a text of a page is refused at most once *)
(* more than the judge, the requests, the cache file and the crawler have  *)
(* failed; each failure may cost one further refusal.                      *)
THEOREM RestoredOffersStay == Spec => []RestoredStays
<1>1. IInv => RestoredStays
  <2> SUFFICES ASSUME IInv, NEW p \in Page, NEW t \in Text
               PROVE  refusals[p][t] <= 1 + faults
    BY DEF RestoredStays
  <2>1. refusals[p][t] + Ahead(p) <= faults + Kept(p, t)
    BY DEF IInv, Owed
  <2> QED BY <2>1, OwedTyped DEF IInv
<1> QED BY <1>1, Invariance, PTL

-----------------------------------------------------------------------------
(* The breaker.                                                            *)

\* It is open only in a pass that met an unreachable judge.
OpenInTrouble == broken => troubled

LEMMA TroubleKept == OpenInTrouble /\ [Next]_vars => OpenInTrouble'
<1> SUFFICES ASSUME OpenInTrouble, [Next]_vars PROVE OpenInTrouble'
  OBVIOUS
<1>1. CASE StartPass
  BY <1>1 DEF StartPass, BreakerAtStart, OpenInTrouble
<1>2. CASE EndPass \/ Sweep
  BY <1>2 DEF EndPass, Sweep, StartSweep, EndSweep, SweepSkips, SweepFails, SweepKeeps,
              RejectFails, RejectReads, crawler, OpenInTrouble
<1>3. CASE Restart
  BY <1>3 DEF Restart, OpenInTrouble
<1>4. ASSUME NEW p \in Page, GateKnows(p) \/ GateAsks(p) \/ GateFails(p) PROVE OpenInTrouble'
  BY <1>4 DEF GateKnows, GateAsks, GateFails, crawler, OpenInTrouble
<1>5. ASSUME NEW p \in Page, RejectCommits(p) PROVE OpenInTrouble'
  BY <1>5 DEF RejectCommits, OpenInTrouble
<1>6. ASSUME NEW p \in Page, \/ \E s \in {"pending", "published", "rejected"} : Moderate(p, s)
                             \/ \E t \in Text : SiteChanges(p, t)
      PROVE OpenInTrouble'
  BY <1>6 DEF Moderate, SiteChanges, crawler, OpenInTrouble
<1>7. CASE UNCHANGED vars
  BY <1>7 DEF vars, OpenInTrouble
<1> QED BY <1>1, <1>2, <1>3, <1>4, <1>5, <1>6, <1>7 DEF Next

\* Junk begins to wait only by a submission of a troubled pass, or a ruling.
LEMMA JunkEnters ==
    ASSUME TypeOK, OpenInTrouble, [Next]_vars, NEW p \in Page,
           JunkWaits(offers'[p]), ~JunkWaits(offers[p]), rulings' = rulings
    PROVE  doing = "pass" /\ troubled'
<1>1. ASSUME NEW q \in Page, GateKnows(q) \/ GateAsks(q) \/ GateFails(q)
      PROVE doing = "pass" /\ troubled'
  <2>1. CASE offers'[p] = offers[p]
    BY <2>1
  <2>2. CASE offers'[p] # offers[p]
    <3>1. offers' # offers => Submit(q)
      BY <1>1 DEF GateKnows, GateAsks, GateFails, table
    <3>2. offers'[p].text = site[q]
      BY <2>2, <3>1, SubmitDoes DEF TypeOK
    <3>3. site[q] \in Junk /\ offers' # offers
      BY <2>2, <3>2 DEF JunkWaits
    <3> QED BY <1>1, <3>3 DEF GateKnows, GateAsks, GateFails, OpenInTrouble, table
  <2> QED BY <2>1, <2>2
<1>2. ASSUME NEW q \in Page, Refuse(q) PROVE FALSE
  BY <1>2 DEF TypeOK, Refuse, JunkWaits
<1>3. ASSUME UNCHANGED offers PROVE FALSE
  BY <1>3
<1>4. CASE StartPass \/ EndPass \/ StartSweep \/ EndSweep \/ Restart \/ UNCHANGED vars
  BY <1>3, <1>4 DEF StartPass, EndPass, StartSweep, EndSweep, Restart, vars, table
<1>5. ASSUME NEW o \in queue, \/ SweepSkips(o) \/ SweepFails(o) \/ SweepKeeps(o)
                              \/ RejectFails(o) \/ RejectReads(o)
      PROVE FALSE
  <2>1. o.page \in Page
    BY DEF TypeOK
  <2>2. UNCHANGED offers \/ Refuse(o.page)
    BY <1>5 DEF SweepSkips, SweepFails, SweepKeeps, RejectFails, RejectReads, table
  <2> QED BY <1>2, <1>3, <2>1, <2>2
<1>6. ASSUME NEW q \in Page, RejectCommits(q) PROVE FALSE
  BY <1>2, <1>6 DEF RejectCommits
<1>7. ASSUME NEW q \in Page, NEW s \in {"pending", "published", "rejected"}, Moderate(q, s)
      PROVE FALSE
  BY <1>7 DEF Moderate, TypeOK
<1>8. ASSUME NEW q \in Page, NEW t \in Text, SiteChanges(q, t) PROVE FALSE
  BY <1>3, <1>8 DEF SiteChanges, table
<1> QED BY <1>1, <1>4, <1>5, <1>6, <1>7, <1>8 DEF Next, Sweep

(* A judge that was unreachable costs the protection of one pass only      *)
(* (judge/gate.py): junk begins to wait in no other step than those of a   *)
(* pass in which the judge failed, unless a moderator puts it back.        *)
THEOREM BreakerAlwaysHeals == Spec => BreakerHeals
<1> DEFINE Heals ==
      \A p \in Page : (JunkWaits(offers'[p]) /\ ~JunkWaits(offers[p]) /\ rulings' = rulings)
                         => doing = "pass" /\ troubled'
<1>1. Init => OpenInTrouble
  BY DEF Init, OpenInTrouble
<1>2. Spec => []OpenInTrouble
  BY <1>1, TroubleKept, PTL DEF Spec
<1>3. TypeOK /\ OpenInTrouble /\ [Next]_vars => [Heals]_vars
  BY JunkEnters
<1>4. Spec => [][Heals]_vars
  BY <1>2, <1>3, TypeCorrect, PTL DEF Spec
<1> QED BY <1>4 DEF BreakerHeals

-----------------------------------------------------------------------------
(* The refinement.                                                         *)

LEMMA InitRefines == Init => Queue!Init
<1> SUFFICES ASSUME Init PROVE Queue!Init
  OBVIOUS
<1>1. offers = [p \in Page |-> [status |-> "none", text |-> CHOOSE t \in Text : TRUE]]
  BY DEF Init, NoRow
<1>2. \E t \in Text : offers = [p \in Page |-> [status |-> "none", text |-> t]]
  BY <1>1, ThereIsText
<1> QED BY <1>2 DEF Init, Queue!Init

\* A submission is a sighting, or nothing.
LEMMA SubmitRefines ==
    ASSUME TypeOK, NEW p \in Page, Submit(p), UNCHANGED rejecting
    PROVE  Queue!Next \/ UNCHANGED <<offers, closed>>
<1>1. site[p] \in Text
  BY DEF TypeOK
<1>2. CASE ~UNCHANGED <<offers, closed>>
  <2>1. Queue!Sight(p, site[p])
    BY <1>2, SubmitDoes DEF Queue!Sight
  <2> QED BY <1>1, <2>1 DEF Queue!Next
<1> QED BY <1>2

LEMMA StepRefines ==
    ASSUME IInv, [Next]_vars
    PROVE  Queue!Next \/ UNCHANGED <<offers, closed, rejecting>>
<1>1. CASE StartPass \/ EndPass \/ StartSweep \/ EndSweep \/ Restart \/ UNCHANGED vars
  BY <1>1 DEF StartPass, EndPass, StartSweep, EndSweep, Restart, vars, table
<1>2. ASSUME NEW p \in Page, GateKnows(p) \/ GateAsks(p) \/ GateFails(p)
      PROVE Queue!Next \/ UNCHANGED <<offers, closed, rejecting>>
  <2>1. UNCHANGED rejecting /\ (Submit(p) \/ UNCHANGED <<offers, closed>>)
    BY <1>2 DEF GateKnows, GateAsks, GateFails, table
  <2> QED BY <2>1, SubmitRefines DEF IInv
<1>3. ASSUME NEW o \in queue, SweepSkips(o) \/ SweepFails(o) \/ SweepKeeps(o)
      PROVE UNCHANGED <<offers, closed, rejecting>>
  BY <1>3 DEF SweepSkips, SweepFails, SweepKeeps, table
<1>4. ASSUME NEW o \in queue, RejectFails(o)
      PROVE Queue!Next \/ UNCHANGED <<offers, closed, rejecting>>
  <2>1. o.page \in Page /\ rejecting = {} /\ UNCHANGED <<rejecting, closed>>
    BY <1>4 DEF RejectFails, AtOffer, IInv, TypeOK
  <2>2. CASE UNCHANGED offers
    BY <2>1, <2>2
  <2>3. CASE MayJudge(offers[o.page]) /\ Refuse(o.page)
    <3>1. offers[o.page].text \in Junk
      BY <1>4 DEF RejectFails, IInv, QueueCurrent
    <3>2. rejecting' = rejecting \ {o.page}
      BY <2>1
    <3>3. Queue!Refuse(o.page)
      BY <2>1, <2>3, <3>1, <3>2 DEF Queue!Refuse, Queue!MayRefuse, MayJudge, Refuse
    <3> QED BY <2>1, <3>3 DEF Queue!Next
  <2> QED BY <1>4, <2>2, <2>3 DEF RejectFails
<1>5. ASSUME NEW o \in queue, RejectReads(o) PROVE Queue!Next
  <2>1. o.page \in Page /\ offers[o.page].text \in Junk
    BY <1>5 DEF RejectReads, IInv, TypeOK, QueueCurrent
  <2>2. Queue!Ask(o.page)
    BY <1>5, <2>1 DEF RejectReads, Queue!Ask, Queue!MayRefuse, MayJudge, table
  <2> QED BY <2>1, <2>2 DEF Queue!Next
<1>6. ASSUME NEW p \in Page, RejectCommits(p) PROVE Queue!Next
  <2>1. rejecting' = rejecting \ {p}
    BY <1>6 DEF RejectCommits, IInv, OneRejection
  <2>2. Queue!Refuse(p)
    BY <1>6, <2>1 DEF RejectCommits, Queue!Refuse, Refuse
  <2> QED BY <2>2 DEF Queue!Next
<1>7. ASSUME NEW p \in Page, NEW s \in {"pending", "published", "rejected"}, Moderate(p, s)
      PROVE Queue!Next
  <2>1. Queue!Rule(p, s)
    BY <1>7 DEF Moderate, Queue!Rule
  <2> QED BY <2>1 DEF Queue!Next
<1>8. ASSUME NEW p \in Page, NEW t \in Text, SiteChanges(p, t) PROVE UNCHANGED <<offers, closed, rejecting>>
  BY <1>8 DEF SiteChanges, table
<1> QED BY <1>1, <1>2, <1>3, <1>4, <1>5, <1>6, <1>7, <1>8 DEF Next, Sweep

(* Gate, sweep, cache and moderators together (judge/gate.py,              *)
(* discovery/rejudge.py, crud/offer.py) do nothing to the queue that       *)
(* Moderation does not allow.                                              *)
THEOREM ModerationImplemented == Spec => ModerationKept
<1>1. IInv /\ [Next]_vars => [Queue!Next]_<<offers, closed, rejecting>>
  BY StepRefines
<1> QED BY <1>1, InitRefines, Invariance, PTL DEF Spec, ModerationKept, Queue!Spec, Queue!vars
=============================================================================
