------------------------------- MODULE Crawl -------------------------------
(***************************************************************************)
(* The passive pass (crawler/runner.py, run_passive): every active source  *)
(* is crawled again, several at a time, so that the backend sees the       *)
(* offers of its pages once more; then offers not seen for too long        *)
(* expire.  With it what the pass depends on: the walk of a website (Walk),*)
(* conditional requests (fetchers/website.py, validator_store.py), the     *)
(* read marker of a channel (fetchers/telegram.py, crawl state), the cache *)
(* of robots.txt files (discovery/robots.py) and the cooldown of sources   *)
(* that came up empty (domain_registry.py).                                *)
(*                                                                         *)
(* Time is counted in intervals of the passive cadence and passes between  *)
(* passes.  A stored validator matters only as long as the server still    *)
(* recognises it, so the store is the set of pages a conditional request   *)
(* would be answered 304 for.  Of the backend there is, per page, the      *)
(* offer with its present content; a submitted offer counts as published,  *)
(* because moderation (Offers) has 48 hours for it.  Each active source    *)
(* has a host of its own, as create_source sees to.                        *)
(***************************************************************************)
EXTENDS Walk

CONSTANTS
    Websites, Channels,     \* the sources, by type
    HomeOf,                 \* [source -> Page], its url_or_handle
    Offerable,              \* pages that may carry an offer
    Tagged,                 \* pages served with an ETag or Last-Modified
    OnePost,                \* channels that show a single post
    Workers,                \* passive_workers
    EmptySkip,              \* crawls skipped after an empty one
    RobotsTtl,              \* robots_cache_ttl_hours, in passive intervals, rounded up
    Ttl,                    \* freshness_ttl_days, in passive intervals
    MaxFaults, MaxChanges   \* bounds: what goes wrong, and edits of pages

Sources == Websites \cup Channels
ASSUME CrawlAssumption ==
    /\ Websites \cap Channels = {} /\ HomeOf \in [Sources -> Page]
    /\ \A s \in Websites : /\ SitemapsOf[HomeOf[s]] \in Seq(Doc)
                           /\ DefaultSitemap[HomeOf[s]] \in Doc
    /\ Offerable \cup Tagged \subseteq Page /\ OnePost \subseteq Channels
    /\ Workers \in Nat \ {0} /\ EmptySkip \in Nat /\ RobotsTtl \in Nat \ {0}
    /\ MaxFaults \in Nat /\ MaxChanges \in Nat

\* 5 + 4 <= 15 with the defaults: one robots.txt that could not be fetched.
ASSUME FreshnessAssumption ==
    Ttl \in Nat /\ MaxFaults * (EmptySkip + RobotsTtl) <= Ttl /\ MaxFaults + 1 <= Ttl

VARIABLES
    offering,       \* pages that carry an offer now
    validators,     \* pages whose stored validator or read marker is current
    offer,          \* offer[p] of the backend: "none", "live", "expired"
    age,            \* intervals since the backend saw the offer
    skipLeft,       \* the registry in memory: crawls still to be skipped
    skipSaved,      \* the registry on disk
    robots,         \* robots[s]: the cached robots.txt of a website
    work,           \* work[s]: how far the task of a source has come
    pass, due,      \* a passive pass is running; the cadence calls for one
    faults, changes

vars == <<offering, validators, offer, age, skipLeft, skipSaved, robots, work, pass,
          due, faults, changes>>

Idle == [at |-> "out", todo |-> <<>>, got |-> FALSE]

Stages == {"out", "queued", "walk", "fetch", "submit", "close"}

\* A cached robots.txt: what could not be fetched counts as an empty file, and
\* stays so for as many intervals as are left.
Entry == {e \in [lost : BOOLEAN, left : 0 .. RobotsTtl] : e.lost => e.left > 0}

NoEntry == [lost |-> FALSE, left |-> 0]

\* A robots.txt lost before, by a search pass that tried the site, is a fault.
Init ==
    /\ offering \in SUBSET Offerable
    /\ validators = {}
    /\ offer = [p \in Offerable |-> "none"]
    /\ age = [p \in Offerable |-> 0]
    /\ skipLeft = [s \in Websites |-> 0] /\ skipSaved = skipLeft
    /\ robots \in [Websites -> Entry]
    /\ work = [s \in Sources |-> Idle]
    /\ pass = FALSE /\ due = TRUE
    /\ faults = IF \E s \in Websites : robots[s].lost THEN 1 ELSE 0
    /\ faults <= MaxFaults /\ changes = 0

Fault == faults < MaxFaults /\ faults' = faults + 1

backend == <<offer, age>>
registry == <<skipLeft, skipSaved>>
world == <<offering, changes>>

----------------------------------------------------------------------------
(* The task of one source.                                                 *)

Busy == {s \in Sources : work[s].at \notin {"out", "queued"}}

StartPass ==
    /\ ~pass /\ due
    /\ pass' = TRUE
    /\ work' = [s \in Sources |-> [Idle EXCEPT !.at = "queued"]]
    /\ UNCHANGED <<validators, backend, registry, robots, due, faults, world>>

TakeSkip(s) == s \in Websites /\ skipLeft[s] > 0

\* Mutant: a skipped crawl is not counted off.
SkipUncounted(s) ==
    /\ work[s].at = "queued" /\ Cardinality(Busy) < Workers /\ TakeSkip(s)
    /\ work' = [work EXCEPT ![s] = Idle]
    /\ UNCHANGED <<validators, backend, registry, robots, pass, due, faults, world>>

\* A source in its cooldown uses one crawl of it up and is done.
Skip(s) ==
    /\ work[s].at = "queued" /\ Cardinality(Busy) < Workers /\ TakeSkip(s)
    /\ skipLeft' = [skipLeft EXCEPT ![s] = @ - 1]
    /\ work' = [work EXCEPT ![s] = Idle]
    /\ UNCHANGED <<validators, backend, skipSaved, robots, pass, due, faults, world>>

\* The task of s stands at another point.
Moved(s, at, todo, got) == [work EXCEPT ![s] = [at |-> at, todo |-> todo, got |-> got]]

Begin(s) ==
    /\ work[s].at = "queued" /\ Cardinality(Busy) < Workers /\ ~TakeSkip(s)
    /\ work' = Moved(s, "walk", <<>>, FALSE)
    /\ UNCHANGED <<validators, backend, registry, robots, pass, due, faults, world>>

Proceed(todo) == IF todo = <<>> THEN "close" ELSE "fetch"

\* Which requests of a walk fail: none, all, or a single one.
Failures == {{}, Page \cup Doc} \cup {{r} : r \in Page \cup Doc}

\* What a walk does not get: robots.txt comes from the cache, good or gone.
Missing(s, failed, gone) ==
    (failed \ {RobotsOf[HomeOf[s]]}) \cup (IF gone THEN {RobotsOf[HomeOf[s]]} ELSE {})

\* What the walk of a source can come to.
Plan == [s \in Sources |-> [failed \in Failures |-> [gone \in BOOLEAN |->
           IF s \in Websites THEN WalkPlan(HomeOf[s], Missing(s, failed, gone)) ELSE <<HomeOf[s]>>]]]

Pages(s) == UNION {ToSet(Plan[s][failed][TRUE]) \cup ToSet(Plan[s][failed][FALSE]) :
                     failed \in Failures}

\* A walk stays on its own site, and so no page is read for two sources.
ASSUME PlanAssumption ==
    \A s \in Sources : \A t \in Sources \ {s} : Pages(s) \cap Pages(t) = {}

Planned(s, todo) == Moved(s, Proceed(todo), todo, FALSE)

\* RobotsCache.get: a fresh entry is used; else the file is fetched, and an empty
\* one kept when that fails.
Looked(s, failed) ==
    IF robots[s].left > 0 THEN robots[s]
    ELSE [lost |-> RobotsOf[HomeOf[s]] \in failed, left |-> RobotsTtl]

Gone(s, failed) == s \in Websites /\ Looked(s, failed).lost

Cached(s, failed) == [w \in Websites |-> IF w = s THEN Looked(s, failed) ELSE robots[w]]

PlanPages(s) ==
    /\ work[s].at = "walk"
    /\ \E failed \in Failures :
          /\ work' = Planned(s, Plan[s][failed][Gone(s, failed)])
          /\ robots' = Cached(s, failed)
          /\ IF failed = {} THEN UNCHANGED faults ELSE s \in Websites /\ Fault
    /\ UNCHANGED <<validators, backend, registry, pass, due, world>>

\* Reading (after the walk) or writing the crawl state fails: the task ends
\* without telling the registry.
Fail(s) ==
    /\ work[s].at \in {"walk", "close"} /\ Fault
    /\ work' = [work EXCEPT ![s] = Idle]
    /\ IF work[s].at = "walk" THEN \E failed \in Failures : robots' = Cached(s, failed)
                              ELSE UNCHANGED robots
    /\ UNCHANGED <<validators, backend, registry, pass, due, world>>

NextPage(s, got) ==
    LET rest == Tail(work[s].todo) IN Moved(s, Proceed(rest), rest, got)

\* 304, or a channel whose newest post is the marked one: nothing of it is
\* submitted, nothing counted.
FetchUnchanged(s) ==
    /\ work[s].at = "fetch" /\ Head(work[s].todo) \in validators
    /\ work' = NextPage(s, work[s].got)
    /\ UNCHANGED <<validators, backend, registry, robots, pass, due, faults, world>>

\* The mark that reading page p leaves behind.
Marked(s, p) == validators \cup (IF s \in Websites THEN {p} \cap Tagged ELSE {})

\* An error, 429 or 503: the fetcher returns no items and reports nothing, but
\* it may have stored the validator before; a channel is done, its marker stays.
FetchFails(s) ==
    /\ work[s].at = "fetch" /\ Fault
    /\ validators' \in {validators, Marked(s, Head(work[s].todo))}
    /\ work' = IF s \in Websites THEN NextPage(s, work[s].got) ELSE [work EXCEPT ![s] = Idle]
    /\ UNCHANGED <<backend, registry, robots, pass, due, world>>

\* A page is read.  Its validator is stored before its items are submitted.
FetchPage(s) ==
    LET p == Head(work[s].todo) IN
    /\ work[s].at = "fetch" /\ p \notin validators
    /\ validators' = Marked(s, p)
    /\ work' = IF p \in offering THEN Moved(s, "submit", work[s].todo, work[s].got)
                              ELSE NextPage(s, work[s].got)
    /\ UNCHANGED <<backend, registry, robots, pass, due, faults, world>>

\* The backend accepts every sighting but that of content it let expire,
\* which its unique key refuses.
Submit(s) ==
    LET p == Head(work[s].todo) IN
    /\ work[s].at = "submit" /\ offer[p] # "expired"
    /\ offer' = [offer EXCEPT ![p] = "live"]
    /\ age' = [age EXCEPT ![p] = 0]
    /\ work' = NextPage(s, TRUE)
    /\ UNCHANGED <<validators, registry, robots, pass, due, faults, world>>

\* A failed submission costs a website the page, a channel its whole task:
\* only the latter will be read again.
SubmitFails(s) ==
    LET p == Head(work[s].todo) IN
    /\ work[s].at = "submit"
    /\ IF offer[p] = "expired" THEN UNCHANGED faults ELSE Fault
    /\ work' = IF s \in Websites THEN NextPage(s, work[s].got) ELSE [work EXCEPT ![s] = Idle]
    /\ UNCHANGED <<validators, backend, registry, robots, pass, due, world>>

\* Mutant: a productive crawl arms the cooldown too.
RecordAlways(s, got) == [skipLeft EXCEPT ![s] = EmptySkip]

\* DomainRegistry.record: an empty crawl arms the cooldown.
Record(s, got) == [skipLeft EXCEPT ![s] = IF got THEN 0 ELSE EmptySkip]

\* The marker of a channel is the last post that was not skipped: the newest, or
\* after the newest was skipped the one before it, so that the next crawl reads
\* the newest again.  Where there is no other post the marker stays.
Toggled(s) ==
    LET p == HomeOf[s] IN
    IF p \notin validators THEN validators \cup {p}
    ELSE IF s \in OnePost THEN validators
    ELSE validators \ {p}

\* The crawl state is stored.
Close(s) ==
    /\ work[s].at = "close"
    /\ skipLeft' = IF s \in Websites THEN Record(s, work[s].got) ELSE skipLeft
    /\ validators' = IF s \in Channels THEN Toggled(s) ELSE validators
    /\ work' = [work EXCEPT ![s] = Idle]
    /\ UNCHANGED <<backend, skipSaved, robots, pass, due, faults, world>>

----------------------------------------------------------------------------
(* The end of the pass, and what happens around it.                        *)

Stale(p) == offer[p] = "live" /\ age[p] > Ttl

\* Expiry and the saving of the registry each may fail on their own.
EndPass ==
    /\ pass /\ \A s \in Sources : work[s].at = "out"
    /\ pass' = FALSE /\ due' = FALSE
    /\ \E swept, saved \in BOOLEAN :
          /\ IF swept /\ saved THEN UNCHANGED faults ELSE Fault
          /\ offer' = [p \in Offerable |->
                         IF swept /\ Stale(p) THEN "expired" ELSE offer[p]]
          /\ skipSaved' = IF saved THEN skipLeft ELSE skipSaved
    /\ UNCHANGED <<validators, age, skipLeft, robots, work, world>>

Aged(e) == IF e.left > 1 THEN [e EXCEPT !.left = @ - 1] ELSE NoEntry

Tick ==
    /\ ~pass /\ ~due
    /\ due' = TRUE
    /\ age' = [p \in Offerable |->
                 IF offer[p] = "live" /\ age[p] <= Ttl THEN age[p] + 1 ELSE age[p]]
    /\ robots' = [s \in Websites |-> Aged(robots[s])]
    /\ UNCHANGED <<offering, validators, offer, registry, work, pass, faults, changes>>

\* What was read of the page has not been dealt with yet.
InHand(p) ==
    \E s \in Sources : \/ work[s].at = "submit" /\ Head(work[s].todo) = p
                       \/ work[s].at = "close" /\ s \in Channels /\ HomeOf[s] = p

\* An edit: the page gets an offer with new content, or loses the one it had.
\* Dealing with what was read before the edit commutes with it.
SiteChanges(p) ==
    /\ ~InHand(p)
    /\ changes < MaxChanges /\ changes' = changes + 1
    /\ validators' = validators \ {p}
    /\ IF p \in offering
       THEN offering' = offering \ {p} /\ UNCHANGED backend
       ELSE /\ offering' = offering \cup {p}
            /\ offer' = [offer EXCEPT ![p] = "none"]
            /\ age' = [age EXCEPT ![p] = 0]
    /\ UNCHANGED <<registry, robots, work, pass, due, faults>>

\* The process dies: the pass was not marked, the registry is the saved one; the
\* file of the robots.txt cache may not have been writable.
Restart ==
    /\ pass /\ Fault
    /\ work' = [s \in Sources |-> Idle] /\ pass' = FALSE
    /\ skipLeft' = skipSaved
    /\ robots' \in {robots, [s \in Websites |-> NoEntry]}
    /\ UNCHANGED <<validators, backend, skipSaved, due, world>>

Task(s) ==
    \/ Skip(s) \/ Begin(s) \/ PlanPages(s) \/ Fail(s)
    \/ FetchUnchanged(s) \/ FetchFails(s) \/ FetchPage(s)
    \/ Submit(s) \/ SubmitFails(s) \/ Close(s)

Next ==
    \/ StartPass \/ EndPass \/ Tick \/ Restart
    \/ \E s \in Sources : Task(s)
    \/ \E p \in Offerable : SiteChanges(p)

Spec == Init /\ [][Next]_vars

\* The scheduler starts the passes, time passes, and a pool thread runs each
\* task to its end (every request has a timeout).
FairSpec ==
    /\ Spec /\ WF_vars(StartPass) /\ WF_vars(EndPass) /\ WF_vars(Tick)
    /\ \A s \in Sources : WF_vars(Task(s))

----------------------------------------------------------------------------
(* Properties.                                                             *)

TypeOK ==
    /\ offering \subseteq Offerable
    /\ validators \subseteq Tagged \cup {HomeOf[s] : s \in Channels}
    /\ offer \in [Offerable -> {"none", "live", "expired"}]
    /\ age \in [Offerable -> 0 .. Ttl + 1]
    /\ skipLeft \in [Websites -> 0 .. EmptySkip]
    /\ skipSaved \in [Websites -> 0 .. EmptySkip]
    /\ robots \in [Websites -> Entry]
    /\ \A s \in Sources :
          /\ work[s].at \in Stages /\ work[s].got \in BOOLEAN
          /\ work[s].todo \in Seq(Page)
          /\ work[s].at \in {"fetch", "submit"} => work[s].todo # <<>>
          /\ work[s].at = "submit" => Head(work[s].todo) \in Offerable
    /\ pass \in BOOLEAN /\ due \in BOOLEAN
    /\ faults \in 0 .. MaxFaults /\ changes \in 0 .. MaxChanges

Collected == [s \in Websites |-> ToSet(Found(HomeOf[s], {}))]

(* The page cap costs a site no offer page for the sake of another page:   *)
(* a fault-free walk plans a contacts or loyalty page only when every      *)
(* offer page it collected is planned, itself or a variant of it, or may   *)
(* not be fetched.                                                         *)
FillerNeverDisplacesOffer ==
    \A s \in Websites :
        LET home == HomeOf[s]
            plan == ToSet(work[s].todo)
            justPlanned == work[s].at = "fetch" /\ Head(work[s].todo) = home
        IN  (faults = 0 /\ justPlanned /\ plan \ (PromoPages \cup {home}) # {}) =>
              \A p \in Collected[s] \cap PromoPages :
                 \/ p \in GeoPages \cup Disallowed
                 \/ \E q \in plan : KeyOf[q] = KeyOf[p]

Reached(s) == ToSet(Plan[s][{}][FALSE])

(* Skips after empty crawls, failed walks, a robots.txt lost for several   *)
(* passes, failed requests, lost submissions, crashes that bring back an   *)
(* old registry: with no more of them than the freshness period allows for,*)
(* an offer that its page still carries never expires -- as long as the    *)
(* page is not served with a validator.  A channel is confirmed every      *)
(* second pass, unless it shows a single post: it is never read again      *)
(* then, like a page answered 304.                                         *)
UntaggedNeverExpires ==
    \A s \in Sources \ OnePost :
        \A p \in (Reached(s) \cap offering) \ Tagged : offer[p] # "expired"

(* A new offer on a page of a source gets to the backend whatever the      *)
(* validator of the page's former content, the marker of a channel and the *)
(* cooldown of a source that had nothing -- unless something failed.       *)
ChangeReachesBackend ==
    \A s \in Sources : \A p \in Reached(s) \cap Offerable :
        (p \in offering /\ p \notin validators)
            ~> (offer[p] = "live" \/ p \notin offering \/ faults > 0)

(* runner.py and the freshness design: the passive crawl confirms the      *)
(* offers of approved sources again, and what is confirmed does not expire.*)
(* It does where the server answers 304.                                   *)
UnchangedPageStays ==
    \A s \in Sources : \A p \in Reached(s) \cap offering : offer[p] # "expired"

============================================================================
