------------------------------ MODULE Judging ------------------------------
(***************************************************************************)
(* The relevance judge.  While pages are crawled a gate (judge/gate.py)    *)
(* asks it about every extracted block and lets the block through when it  *)
(* cannot answer; between passes a sweep (discovery/rejudge.py) asks about *)
(* offers still waiting for a moderator and has the backend reject what    *)
(* the judge calls junk (crud/offer.py, judge_reject).  Both remember      *)
(* verdicts in one cache (judge/cache.py).  Moderators decide beside them. *)
(*                                                                         *)
(* offers[p] is the latest row of page p, of a known source, and closed[p] *)
(* the texts of its earlier rows, all rejected: what a change of a         *)
(* published page does is in Offers.  The model is asked with temperature  *)
(* 0: its verdict is a function of the text.  Passes and the               *)
(* sweep take turns in one thread; workers of a pass gate blocks one at a  *)
(* time here, as the gate's answers do not depend on each other but for    *)
(* the breaker.  A request of the backend runs between two steps of the    *)
(* others; judge_reject alone is split into its read and its commit, as it *)
(* does not lock the row: a moderator may rule between the two.            *)
(***************************************************************************)
EXTENDS Naturals, FiniteSets

CONSTANTS
    Page,
    Text,               \* contents a page can have
    Junk,               \* those the judge rejects
    Budget,             \* offers of a sweep
    MaxFaults, MaxRulings, MaxEdits     \* bounds

ASSUME JudgingAssumption ==
    /\ Junk \subseteq Text /\ Text # {} /\ Budget \in Nat
    /\ MaxFaults \in Nat /\ MaxRulings \in Nat /\ MaxEdits \in Nat

VARIABLES
    site,               \* [Page -> Text], what the pages say now
    offers,             \* [Page -> row]
    closed,             \* [Page -> SUBSET Text], texts of earlier rows
    older,              \* <<p, q>>: the row of p is older than that of q
    cache, saved,       \* hashes with a verdict, in memory and on disk
    broken,             \* the gate's breaker
    doing,              \* "idle", "pass" or "sweep"
    queue,              \* what is left of the sweep: a set of [page, text]
    rejecting,          \* the offers whose rejection is between read and commit
    troubled,           \* history: the judge failed in this pass
    refusals,           \* history: [Page -> [Text -> Nat]], rejections by the judge
    faults, rulings, edits

vars == <<site, offers, closed, older, cache, saved, broken, doing, queue, rejecting,
          troubled, refusals, faults, rulings, edits>>

bounds == <<rulings, edits>>
crawler == <<cache, saved, broken, doing, queue>>
table == <<offers, closed, older>>

NoRow == [status |-> "none", text |-> CHOOSE t \in Text : TRUE]

\* The gate's hash is of a block, the sweep's of the offer of a page.
BlockHash(t) == <<"block", t>>
PageHash(p, t) == <<"page", p, t>>

Fault == faults < MaxFaults /\ faults' = faults + 1

Init ==
    /\ site \in [Page -> Text]
    /\ offers = [p \in Page |-> NoRow] /\ closed = [p \in Page |-> {}] /\ older = {}
    /\ refusals = [p \in Page |-> [t \in Text |-> 0]]
    /\ cache = {} /\ saved = {} /\ broken = FALSE
    /\ doing = "idle" /\ queue = {} /\ rejecting = {} /\ troubled = FALSE
    /\ faults = 0 /\ rulings = 0 /\ edits = 0

\* VerdictCache.put: memory first, then the whole dictionary to the file.
Put(hash, disk) ==
    /\ cache' = cache \cup {hash}
    /\ saved' = IF disk THEN cache' ELSE saved

----------------------------------------------------------------------------
(* The pass and its gate.                                                  *)

\* A new row is the youngest.
Added(p) ==
    {e \in older : p \notin {e[1], e[2]}}
        \cup {<<q, p>> : q \in {r \in Page \ {p} : offers[r].status # "none"}}

\* Branch 1 of create_offer: some row of the page has this text.
Known(p) == \/ offers[p].status # "none" /\ offers[p].text = site[p]
            \/ site[p] \in closed[p]

\* create_offer: a waiting row is overwritten in place, other text of a
\* rejected page makes a new row, the same text changes nothing.
Submit(p) ==
    LET row == offers[p] IN
    IF row.status = "published" \/ Known(p)
    THEN UNCHANGED table
    ELSE /\ offers' = [offers EXCEPT ![p] = [status |-> "pending", text |-> site[p]]]
         /\ closed' = IF row.status = "rejected"
                      THEN [closed EXCEPT ![p] = @ \cup {row.text}] ELSE closed
         /\ older' = IF row.status = "pending" THEN older ELSE Added(p)

\* Mutant: the breaker stays as the last pass left it.
BreakerStays == broken

BreakerAtStart == FALSE

StartPass ==
    /\ doing = "idle" /\ doing' = "pass"
    /\ broken' = BreakerAtStart /\ troubled' = FALSE
    /\ UNCHANGED <<site, table, cache, saved, queue, rejecting, refusals, faults, bounds>>

\* Nothing is asked: the breaker is open, or the verdict is known.
GateKnows(p) ==
    /\ doing = "pass"
    /\ \/ broken /\ Submit(p)
       \/ /\ ~broken /\ BlockHash(site[p]) \in cache
          /\ IF site[p] \in Junk THEN UNCHANGED table ELSE Submit(p)
    /\ UNCHANGED <<site, crawler, rejecting, troubled, refusals, faults, bounds>>

GateAsks(p) ==
    /\ doing = "pass" /\ ~broken /\ BlockHash(site[p]) \notin cache
    /\ IF site[p] \in Junk THEN UNCHANGED table ELSE Submit(p)
    /\ \/ Put(BlockHash(site[p]), TRUE) /\ UNCHANGED faults
       \/ Put(BlockHash(site[p]), FALSE) /\ Fault
    /\ UNCHANGED <<site, broken, doing, queue, rejecting, troubled, refusals, bounds>>

\* No verdict: the block passes.  An unreachable judge opens the breaker.
GateFails(p) ==
    /\ doing = "pass" /\ ~broken /\ BlockHash(site[p]) \notin cache /\ Fault
    /\ Submit(p) /\ troubled' = TRUE /\ broken' \in BOOLEAN
    /\ UNCHANGED <<site, cache, saved, doing, queue, rejecting, refusals, bounds>>

EndPass ==
    /\ doing = "pass" /\ doing' = "idle"
    /\ UNCHANGED <<site, table, cache, saved, broken, queue, rejecting, troubled, refusals,
                   faults, bounds>>

----------------------------------------------------------------------------
(* The sweep.                                                              *)

Pending == {p \in Page : offers[p].status = "pending"}
Before(p) == {q \in Pending : <<q, p>> \in older}

\* list_pending_unjudged: the oldest waiting offers, judged or not.
Waiting ==
    {[page |-> p, text |-> offers[p].text] : p \in {q \in Pending : Cardinality(Before(q)) < Budget}}

StartSweep ==
    /\ doing = "idle" /\ rejecting = {} /\ doing' = "sweep" /\ queue' = Waiting
    /\ UNCHANGED <<site, table, cache, saved, broken, rejecting, troubled, refusals, faults, bounds>>

\* The sweep has come to this offer; none of its rejections is under way.
AtOffer(o) ==
    /\ doing = "sweep" /\ rejecting = {}
    /\ o \in queue /\ \A x \in queue : <<x.page, o.page>> \notin older

Judged(o) == PageHash(o.page, o.text) \in cache

SweepSkips(o) ==
    /\ AtOffer(o) /\ Judged(o) /\ queue' = queue \ {o}
    /\ UNCHANGED <<site, table, cache, saved, broken, doing, rejecting, troubled, refusals,
                   faults, bounds>>

\* Unreachable: the sweep ends.  Any other error: the offer waits for the next.
SweepFails(o) ==
    /\ AtOffer(o) /\ ~Judged(o) /\ Fault /\ queue' \in {{}, queue \ {o}}
    /\ UNCHANGED <<site, table, cache, saved, broken, doing, rejecting, troubled, refusals, bounds>>

\* Remembering a verdict; a file that cannot be written ends the sweep.
Remember(o) ==
    \/ Put(PageHash(o.page, o.text), TRUE) /\ queue' = queue \ {o} /\ UNCHANGED faults
    \/ Put(PageHash(o.page, o.text), FALSE) /\ queue' = {} /\ Fault

SweepKeeps(o) ==
    /\ AtOffer(o) /\ ~Judged(o) /\ o.text \notin Junk
    /\ Remember(o)
    /\ UNCHANGED <<site, table, broken, doing, rejecting, troubled, refusals, bounds>>

\* Mutant: judge_reject does not look at the status.
AnyStatus(row) == row.status # "none"

MayJudge(row) == row.status = "pending"

\* The status is written, and the text the row has by now stays.
Refuse(p) ==
    /\ offers' = [offers EXCEPT ![p].status = "rejected"]
    /\ refusals' = [refusals EXCEPT ![p][offers[p].text] = @ + 1]

\* Mutant: only kept offers are remembered.
RememberNothing(o) == queue' = queue \ {o} /\ UNCHANGED <<cache, saved, faults>>

RememberJunk(o) == Remember(o)

\* Mutant: the verdict is remembered before the rejection is known.
RememberAnyway(o) == Put(PageHash(o.page, o.text), TRUE)

ForgetFailed(o) == UNCHANGED <<cache, saved>>

\* The rejection is refused (409, unless a waiting row is there) or fails, with
\* or without an effect; the sweep goes on.
RejectFails(o) ==
    /\ AtOffer(o) /\ ~Judged(o) /\ o.text \in Junk
    /\ \/ ~MayJudge(offers[o.page]) /\ UNCHANGED <<offers, refusals, faults>>
       \/ Fault /\ UNCHANGED <<offers, refusals>>
       \/ Fault /\ MayJudge(offers[o.page]) /\ Refuse(o.page)
    /\ ForgetFailed(o) /\ queue' = queue \ {o}
    /\ UNCHANGED <<site, closed, older, broken, doing, rejecting, troubled, bounds>>

\* The rejection runs: the row is read and found waiting, then written.
RejectReads(o) ==
    /\ AtOffer(o) /\ ~Judged(o) /\ o.text \in Junk /\ MayJudge(offers[o.page])
    /\ rejecting' = {o.page}
    /\ UNCHANGED <<site, table, crawler, troubled, refusals, faults, bounds>>

RejectCommits(p) ==
    /\ p \in rejecting /\ rejecting' = {}
    /\ Refuse(p)
    /\ \/ queue = {} /\ UNCHANGED <<cache, saved, queue, faults>>
       \/ \E o \in queue : o.page = p /\ RememberJunk(o)
    /\ UNCHANGED <<site, closed, older, broken, doing, troubled, bounds>>

EndSweep ==
    /\ doing = "sweep" /\ queue = {} /\ rejecting = {} /\ doing' = "idle"
    /\ UNCHANGED <<site, table, cache, saved, broken, queue, rejecting, troubled, refusals,
                   faults, bounds>>

----------------------------------------------------------------------------
(* Everyone else.                                                          *)

\* set_status: a moderator publishes, rejects or puts back the latest row.
Moderate(p, status) ==
    /\ rulings < MaxRulings /\ rulings' = rulings + 1
    /\ offers[p].status \notin {"none", status}
    /\ offers' = [offers EXCEPT ![p].status = status]
    /\ UNCHANGED <<site, closed, older, crawler, rejecting, troubled, refusals, faults, edits>>

SiteChanges(p, t) ==
    /\ edits < MaxEdits /\ edits' = edits + 1
    /\ t # site[p] /\ site' = [site EXCEPT ![p] = t]
    /\ UNCHANGED <<table, crawler, rejecting, troubled, refusals, faults, rulings>>

\* The crawler starts again with the cache file; a request goes on without it.
Restart ==
    /\ Fault
    /\ cache' = saved /\ broken' = FALSE /\ doing' = "idle" /\ queue' = {} /\ troubled' = FALSE
    /\ UNCHANGED <<site, table, saved, rejecting, refusals, bounds>>

Sweep ==
    \/ StartSweep \/ EndSweep
    \/ \E o \in queue : \/ SweepSkips(o) \/ SweepFails(o) \/ SweepKeeps(o)
                        \/ RejectFails(o) \/ RejectReads(o)

Next ==
    \/ StartPass \/ EndPass \/ Sweep \/ Restart
    \/ \E p \in Page : \/ GateKnows(p) \/ GateAsks(p) \/ GateFails(p) \/ RejectCommits(p)
                       \/ \E s \in {"pending", "published", "rejected"} : Moderate(p, s)
                       \/ \E t \in Text : SiteChanges(p, t)

Spec == Init /\ [][Next]_vars

\* The loop never stops: passes end, and a sweep comes again and again.
FairSpec ==
    /\ Spec /\ WF_vars(EndPass) /\ SF_vars(StartSweep)
    /\ WF_vars(doing = "sweep" /\ Sweep)
    /\ WF_vars(\E p \in Page : RejectCommits(p))

----------------------------------------------------------------------------
(* Properties.                                                             *)

Row == [status : {"none", "pending", "published", "rejected"}, text : Text]
Hash == {BlockHash(t) : t \in Text} \cup {PageHash(p, t) : p \in Page, t \in Text}

TypeOK ==
    /\ site \in [Page -> Text] /\ offers \in [Page -> Row]
    /\ closed \in [Page -> SUBSET Text] /\ older \subseteq Page \X Page
    /\ cache \subseteq Hash /\ saved \subseteq cache
    /\ broken \in BOOLEAN /\ troubled \in BOOLEAN
    /\ doing \in {"idle", "pass", "sweep"}
    /\ queue \subseteq [page : Page, text : Text] /\ (queue # {} => doing = "sweep")
    /\ rejecting \subseteq Page
    /\ refusals \in [Page -> [Text -> Nat]]
    /\ faults \in Nat /\ rulings \in Nat /\ edits \in Nat

(* Whatever passes, sweeps and failures do, it comes down to sightings,    *)
(* refusals and rulings: the judge's requests begin for junk that waits    *)
(* for a moderator, though the sweep works from a list it read before, and *)
(* a text once rejected comes back by a moderator's ruling alone.          *)
Queue == INSTANCE Moderation WITH row <- offers, asked <- rejecting

ModerationKept == Queue!Spec

(* An offer that moderators put back after the judge rejected it stays in  *)
(* the queue, passes, edits of the page and sweeps later too: a text is    *)
(* refused once, and once more for each failure at most.                   *)
RestoredStays == \A p \in Page, t \in Text : refusals[p][t] <= 1 + faults

JunkWaits(row) == row.status = "pending" /\ row.text \in Junk

(* Junk that entered while the judge was down does not wait for ever: it   *)
(* is rejected or decided on, though the judge, the request and the cache  *)
(* fail on the way.  Junk that moderators have put back may wait: the      *)
(* cache keeps the judge from it, also when the page says something else   *)
(* in between.                                                             *)
JunkLeavesQueue ==
    \A p \in Page :
        []<>~(JunkWaits(offers[p]) /\ refusals[p][offers[p].text] = 0)

(* A judge that was unreachable costs the protection of one pass only:     *)
(* junk gets in during no other, unless a moderator puts it back.          *)
BreakerHeals ==
    [][\A p \in Page :
          (JunkWaits(offers'[p]) /\ ~JunkWaits(offers[p]) /\ rulings' = rulings)
             => doing = "pass" /\ troubled']_vars

============================================================================
