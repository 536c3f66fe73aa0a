------------------------------ MODULE Harvest ------------------------------
(***************************************************************************)
(* The active pass (crawler/runner.py, run_active) and the harvester       *)
(* (discovery/harvest.py): feeds and the search offer candidates, a serial *)
(* scan picks those to fetch within a budget, a pool of threads walks them *)
(* in parallel, and what the walks show rates the hosts in the registry    *)
(* (discovery/domain_registry.py) and blocks some of them: for their       *)
(* language or geography (lang_block.py, geo_block.py) or as media         *)
(* (media_autoblock.py).  Businesses named by catalogue pages are looked   *)
(* up afterwards, by a harvester without a registry (subsearch.py).        *)
(*                                                                         *)
(* Time is counted in active passes.  A candidate is a website, [url, ref, *)
(* bypass]: the ref is what normalize_ref makes of it, bypass says that it *)
(* answers a site: query.  What a page is like is one of Kind, and a site  *)
(* has the kinds it can show.  Whether an offer survives extraction,       *)
(* attribution and the relevance gate is part of the kind; the backend     *)
(* takes it (Offers).  Some sites serve pages with validators; the fetcher *)
(* (fetchers/website.py) stores them, and one that has not changed since   *)
(* is answered 304 and shows nothing.  Between the passes moderators make  *)
(* sites sources; none is taken off the list.                              *)
(***************************************************************************)
EXTENDS Hosts, FiniteSets

CONSTANTS
    Site,               \* the hosts of the web
    Kinds,              \* [Site -> SUBSET Kind]
    Credits,            \* [Site -> Site], whose offers the site's pages carry
    Pages,              \* most pages of a walk
    Candidates,         \* the websites that feeds and searches can offer
    Rotation,           \* sequence of candidates, a rotating feed
    Searches,           \* sequences of candidates a search can return
    SiteAnswers,        \* the same for the site: queries
    SourceSites,        \* the active sources at first
    Tagged,             \* sites whose pages come with validators
    Moderated,          \* bound: sites people make a source, block, or reject offers of
    Businesses,         \* sites a catalogue's business can be found at
    Listings,           \* known catalogues and social networks
    Budget, PerPass, TopN, Workers,
    Revisit,            \* active_revisit_cooldown_days, in passes
    EmptySkip, MediaCrawls, EvictAge,
    MaxFaults,          \* bound: what goes wrong
    MaxRestarts         \* bound: restarts of the process

Kind == {"foreign", "portal", "article", "business", "brochure", "offer",
         "catalogue", "empty"}

ASSUME HarvestAssumption ==
    /\ Kinds \in [Site -> SUBSET Kind] /\ Credits \in [Site -> Site]
    /\ Businesses \cup SourceSites \cup Tagged \cup Moderated \subseteq Site
    /\ Pages \in Nat \ {0}
    /\ Rotation \in Seq(Candidates) \ {<<>>}
    /\ Searches \cup SiteAnswers \subseteq Seq(Candidates)
    /\ Budget \in Nat /\ PerPass \in Nat \ {0} /\ TopN \in Nat /\ Workers \in Nat \ {0}
    /\ Revisit \in Nat \ {0} /\ EmptySkip \in Nat
    /\ MediaCrawls \in Nat \ {0} /\ EvictAge \in Nat /\ EvictAge >= Revisit
    /\ MaxFaults \in Nat /\ MaxRestarts \in Nat /\ Moderated # {}

VARIABLES
    registry, saved,    \* [Site -> entry], in memory and on disk
    learned,            \* hosts blocked at run time
    approved,           \* the backend's approved blocked hosts
    pins, pinsSaved,    \* [Store -> hosts], in memory and on disk
    cursor,             \* of the rotating feed, on disk
    validators,         \* sites with a page whose validator is on disk
    sources,            \* the active sources
    tasks,              \* the selected candidates, in order
    known,              \* refs suggested in this pass
    queue,              \* businesses still to be looked up
    pass,
    shown,              \* history: hosts that showed themselves a business
    faults, restarts

vars == <<registry, saved, learned, approved, pins, pinsSaved, cursor, validators,
          sources, tasks, known, queue, pass, shown, faults, restarts>>

blocks == <<learned, approved>>
stores == <<pins, pinsSaved>>
disk == <<saved, cursor>>
web == <<validators, sources>>

Store == {"geo", "lang"}

\* An entry of the registry: the score only as whether it earns promotion,
\* last_seen as passes since, up to the eviction age.
Unknown == [seen |-> FALSE, skip |-> 0, rated |-> FALSE, streak |-> 0,
            provider |-> FALSE, latched |-> FALSE, age |-> EvictAge]

Fault == faults < MaxFaults /\ faults' = faults + 1
NoFault == UNCHANGED faults

\* Mutant: the gates never learn of the hosts pinned for their language.
LangForgotten(host) == IsBlockedHost(host, learned \cup pins["geo"])

Blocked(host) == IsBlockedHost(host, learned \cup pins["geo"] \cup pins["lang"])

Init ==
    /\ registry = [h \in Site |-> Unknown] /\ saved = registry
    /\ learned = {} /\ approved = {}
    /\ pins = [s \in Store |-> {}] /\ pinsSaved = pins
    /\ cursor = 0 /\ sources = SourceSites /\ validators = SourceSites \cap Tagged
    /\ tasks = <<>> /\ known = {} /\ queue = {} /\ pass = FALSE
    /\ shown = {} /\ faults = 0 /\ restarts = 0

HostOf(c) == BareHost(c.url)
Root(h) == [url |-> [host |-> h, path |-> {}], ref |-> h, bypass |-> FALSE]

\* A host is known by its bare name, and its homepage can be offered.
ASSUME SitesAssumption ==
    /\ IsFiniteSet(Site)
    /\ \A h \in Site : Root(h) \in Candidates /\ HostOf(Root(h)) = h
    /\ \A c \in Candidates : HostOf(c) \in Site

----------------------------------------------------------------------------
(* The lists of candidates.                                                *)

Least(m, n) == IF m < n THEN m ELSE n

\* What is left of a list without the candidates in dropped.
Without(list, dropped) ==
    LET kept[n \in 0 .. Len(list)] ==
            IF n = 0 THEN <<>>
            ELSE IF list[n] \in dropped THEN kept[n - 1] ELSE Append(kept[n - 1], list[n])
    IN  kept[Len(list)]

Recent(r, h) == r[h].seen /\ r[h].age < Revisit

\* DomainRegistry.top: the best rated hosts, in any order of their scores, that
\* are no sources and were not visited lately.  DomainFeed drops blocked ones.
TopHosts(r) == {h \in Site \ sources : r[h].rated /\ ~Recent(r, h)}

TopLists(r) ==
    {Without([i \in 1 .. Least(TopN, Len(hs)) |-> Root(hs[i])],
             {c \in Candidates : Blocked(HostOf(c))}) : hs \in SetToSeqs(TopHosts(r))}

\* BrandFeed, OsmDomainFeed, AggregatorDomainFeed: a window that moves on.
Window == Least(PerPass, Len(Rotation))

FeedList ==
    Without([i \in 1 .. Window |-> Rotation[((cursor + i - 1) % Len(Rotation)) + 1]],
            {c \in Candidates : c.ref \in sources})

\* Mutant: the window stays where it is.
StuckCursor == cursor

\* Mutant: the position is not taken modulo the list.
RunawayCursor == cursor + Window

NextCursor == (cursor + Window) % Len(Rotation)

\* The lists are dealt out one candidate at a time, in rounds.
RoundRobin(top, found, feed) ==
    LET lists == <<top, found, feed>>
        turns == 3 * (Len(top) + Len(found) + Len(feed))
        list(n) == lists[((n - 1) % 3) + 1]
        round(n) == ((n - 1) \div 3) + 1
        dealt[n \in 0 .. turns] ==
            IF n = 0 THEN <<>>
            ELSE IF round(n) <= Len(list(n)) THEN Append(dealt[n - 1], list(n)[round(n)])
            ELSE dealt[n - 1]
    IN  dealt[turns]

----------------------------------------------------------------------------
(* The serial scan: which candidates are fetched.  It counts off skips and *)
(* pins hosts with a Russian or Belarusian address as it goes.  The        *)
(* harvester of the lookups (iso) has no registry and knows no sources'    *)
(* hosts.                                                                  *)

\* The gates that look at a host's name only.
Unfit(h) == IsForeignHost(h) \/ IsLowValueHost(h) \/ IsNewsHost(h)

\* Mutant: any number of candidates of a host may be selected.
AnyNumber(picked, h) == FALSE

AlreadyPicked(picked, h) == \E i \in DOMAIN picked : HostOf(picked[i]) = h

\* One candidate; acc is the registry, the hosts pinned, the candidates picked.
Scan(iso, acc, c) ==
    LET h == HostOf(c) IN
    IF Len(acc.picked) >= Budget THEN acc
    ELSE IF IsRuByGeo(c.url) THEN [acc EXCEPT !.pinned = @ \cup {h}]
    ELSE IF Unfit(h) \/ Blocked(h) \/ IsBlockedHost(h, acc.pinned) THEN acc
    ELSE IF ~iso /\ acc.reg[h].skip > 0 THEN [acc EXCEPT !.reg[h].skip = @ - 1]
    ELSE IF ~iso /\ (Recent(acc.reg, h) \/ AlreadyPicked(acc.picked, h)) THEN acc
    ELSE IF c.ref \in sources \cup known THEN acc
    ELSE IF ~iso /\ ~c.bypass /\ h \in sources THEN acc
    ELSE [acc EXCEPT !.picked = Append(@, c)]

Selection(iso, cands, reg) ==
    LET after[n \in 0 .. Len(cands)] ==
            IF n = 0 THEN [reg |-> reg, pinned |-> {}, picked |-> <<>>]
            ELSE Scan(iso, after[n - 1], cands[n])
    IN  after[Len(cands)]

----------------------------------------------------------------------------
(* What the walks do to hosts.                                             *)

\* GeoBlockStore, LangBlockStore: memory first; a failed save is only logged.
Pin(store, hosts) ==
    /\ pins' = [pins EXCEPT ![store] = @ \cup hosts]
    /\ \/ pinsSaved' = [pinsSaved EXCEPT ![store] = IF hosts \subseteq pins[store] THEN @
                                                    ELSE pins'[store]]
          /\ NoFault
       \/ ~(hosts \subseteq pins[store]) /\ UNCHANGED pinsSaved /\ Fault

\* record: the entries it can make of e.  Offers raise the score by more than
\* the threshold, errors and time lower it.
Record(e, got, err, business) ==
    {[seen |-> TRUE, age |-> 0, rated |-> up, latched |-> e.latched,
      skip |-> IF got THEN 0 ELSE EmptySkip, provider |-> e.provider \/ business,
      streak |-> IF business THEN 0 ELSE IF got THEN Least(e.streak + 1, MediaCrawls) ELSE e.streak]
       : up \in IF got /\ ~err THEN {TRUE} ELSE IF got \/ e.rated THEN BOOLEAN ELSE {FALSE}}

MediaBlockDue(e) == ~e.provider /\ ~e.latched /\ e.streak >= MediaCrawls

EditorialBlockDue(e) == ~e.provider /\ ~e.latched

\* Mutant: a failed block is not tried again.
LatchAnyway(reg, h, answer) == [reg EXCEPT ![h].latched = @ \/ reg[h].seen]

\* mark_media_blocked: of a host that has an entry, once the block is confirmed.
Latch(reg, h, answer) ==
    [reg EXCEPT ![h].latched = @ \/ (reg[h].seen /\ answer = "ok")]

\* MediaAutoBlocker.block and the latch.  The backend blocks the host, blocks
\* it but the answer is lost, or fails.
Block(h, reg) ==
    \E answer \in {"ok", "lost", "fails"} :
        /\ IF answer = "ok" THEN NoFault ELSE Fault
        /\ approved' = IF answer = "fails" THEN approved ELSE approved \cup {h}
        /\ learned' = IF answer = "ok" THEN learned \cup {h} ELSE learned
        /\ registry' = Latch(reg, h, answer)

----------------------------------------------------------------------------
(* One task of the pool.                                                   *)

NewTask(c, iso) ==
    [cand |-> c, iso |-> iso, at |-> "queued", left |-> 0, got |-> FALSE,
     err |-> FALSE, business |-> FALSE]

\* Nothing of a task is left when it returns.
Returned(t) == [NewTask(t.cand, t.iso) EXCEPT !.at = "done"]

Running == {i \in DOMAIN tasks : tasks[i].at \notin {"queued", "done"}}

\* Gates that other tasks of the pass may have closed are looked at again.
Begin(i) ==
    /\ tasks[i].at = "queued" /\ Cardinality(Running) < Workers
    /\ \A j \in 1 .. i - 1 : tasks[j].at # "queued"
    /\ tasks' = [tasks EXCEPT ![i].at =
                   IF Blocked(HostOf(tasks[i].cand)) \/ tasks[i].cand.ref \in known
                   THEN "done" ELSE "plan"]
    /\ UNCHANGED <<registry, blocks, stores, disk, web, known, queue, pass, shown, faults, restarts>>

\* The walk: foreign by its homepage, some pages, or an exception.
PlanWalk(i) ==
    LET h == HostOf(tasks[i].cand) IN
    /\ tasks[i].at = "plan"
    /\ \/ /\ "foreign" \in Kinds[h] /\ Pin("lang", {h})
          /\ tasks' = [tasks EXCEPT ![i].at = "record"]
       \/ /\ \E n \in 1 .. Pages : tasks' = [tasks EXCEPT ![i] = [@ EXCEPT !.at = "page", !.left = n]]
          /\ UNCHANGED <<stores, faults>>
       \/ /\ Fault /\ UNCHANGED stores
          /\ tasks' = [tasks EXCEPT ![i] = [@ EXCEPT !.at = "record", !.err = TRUE]]
    /\ UNCHANGED <<registry, blocks, disk, web, known, queue, pass, shown, restarts>>

Turned(i) == [tasks EXCEPT ![i].left = @ - 1,
                           ![i].at = IF tasks[i].left = 1 THEN "record" ELSE "page"]

Editorial == {"portal", "article"}

\* Whether the page yields an offer; of a news page one may be salvaged.
Yields(h, kind) ==
    IF Blocked(h) THEN {FALSE}
    ELSE IF kind \in Editorial THEN BOOLEAN ELSE {kind \in {"business", "offer"}}

\* A page that is read leaves its validator, if it has one.
Marked(i) == validators \cup ({HostOf(tasks[i].cand)} \cap Tagged)

\* The page has not changed since its validator was stored: nothing is read.
UnchangedPage(i) ==
    /\ tasks[i].at = "page" /\ HostOf(tasks[i].cand) \in validators
    /\ tasks' = Turned(i)
    /\ UNCHANGED <<registry, blocks, stores, disk, web, known, queue, pass, shown, faults, restarts>>

\* A page that cannot be fetched is taken for an empty one.
PageLost(i) ==
    /\ tasks[i].at = "page" /\ Fault
    /\ tasks' = Turned(i)
    /\ validators' \in {validators, Marked(i)}
    /\ UNCHANGED <<registry, blocks, stores, disk, sources, known, queue, pass, shown, restarts>>

\* An offer, or the suggestion of its source, cannot be submitted; what the
\* page shows of a business is lost with it.
PageFails(i, kind) ==
    LET h == HostOf(tasks[i].cand) IN
    /\ tasks[i].at = "page" /\ kind \in Kinds[h] /\ TRUE \in Yields(h, kind) /\ Fault
    /\ kind \in Editorial => tasks[i].business
    /\ \E offer \in BOOLEAN : tasks' = [Turned(i) EXCEPT ![i] =
            [@ EXCEPT !.err = TRUE, !.got = tasks[i].got \/ offer]]
    /\ validators' = Marked(i)
    /\ UNCHANGED <<registry, blocks, stores, disk, sources, known, queue, pass, shown, restarts>>

Abandon(i) == tasks' = [tasks EXCEPT ![i] = [@ EXCEPT !.at = "record", !.left = 0]]

\* The page is not Ukrainian: the host is pinned, the rest left alone.
ForeignPage(i) ==
    LET h == HostOf(tasks[i].cand) IN
    /\ tasks[i].at = "page" /\ "foreign" \in Kinds[h]
    /\ Pin("lang", {h}) /\ Abandon(i) /\ validators' = Marked(i)
    /\ UNCHANGED <<registry, blocks, disk, sources, known, queue, pass, shown, restarts>>

\* A news page of a host that has shown nothing of a business in this walk.
EditorialPage(i, kind) ==
    LET h == HostOf(tasks[i].cand) IN
    /\ tasks[i].at = "page" /\ kind \in Kinds[h] \cap Editorial /\ ~tasks[i].business
    /\ Abandon(i) /\ validators' = Marked(i)
    /\ IF kind = "portal" /\ ~tasks[i].iso /\ EditorialBlockDue(registry[h])
       THEN Block(h, registry)
       ELSE UNCHANGED <<registry, blocks, faults>>
    /\ UNCHANGED <<stores, disk, sources, known, queue, pass, shown, restarts>>

\* Any other page: offers are submitted and their business suggested as a
\* source; a catalogue page only names a business to look up.
ProcessPage(i, kind) ==
    LET h == HostOf(tasks[i].cand) IN
    /\ tasks[i].at = "page" /\ kind \in Kinds[h] \ {"foreign"}
    /\ kind \in Editorial => tasks[i].business
    /\ \E offer \in Yields(h, kind) :
          /\ tasks' = [Turned(i) EXCEPT ![i] =
                [@ EXCEPT !.got = tasks[i].got \/ offer,
                          !.business = tasks[i].business \/ kind \in {"business", "brochure"}]]
          /\ known' = IF offer THEN known \cup {Credits[h]} ELSE known
    /\ queue' = IF kind = "catalogue" /\ ~tasks[i].iso THEN queue \cup Businesses ELSE queue
    /\ validators' = Marked(i)
    /\ UNCHANGED <<registry, blocks, stores, disk, sources, pass, shown, faults, restarts>>

\* The walk is over: the host is rated, and blocked if it is due.
Finish(i) ==
    LET t == tasks[i]
        h == HostOf(t.cand)
    IN  /\ t.at = "record"
        /\ tasks' = [tasks EXCEPT ![i] = Returned(t)]
        /\ IF t.iso
           THEN UNCHANGED <<registry, blocks, shown, faults>>
           ELSE /\ shown' = IF t.business THEN shown \cup {h} ELSE shown
                /\ \E e \in Record(registry[h], t.got, t.err, t.business) :
                      LET reg == [registry EXCEPT ![h] = e]
                      IN  IF MediaBlockDue(e) THEN Block(h, reg)
                          ELSE registry' = reg /\ UNCHANGED <<blocks, faults>>
        /\ UNCHANGED <<stores, disk, web, known, queue, pass, restarts>>

----------------------------------------------------------------------------
(* The pass, and what happens around it.                                   *)

Older(reg) == [h \in Site |-> [reg[h] EXCEPT !.age = Least(@ + 1, EvictAge)]]

\* RejectionIngestor: moderators' rejections lower the score of hosts on record.
Downranked(reg, hosts) == [h \in Site |-> [reg[h] EXCEPT !.rated = @ /\ h \notin hosts]]

StartPass ==
    /\ ~pass /\ pass' = TRUE
    /\ saved' = Older(saved)
    /\ cursor' = NextCursor
    /\ \E rejected \in SUBSET {h \in Moderated : registry[h].rated} :
       LET reg == Downranked(Older(registry), rejected) IN
       \E top \in TopLists(reg), found \in Searches, answers \in SiteAnswers :
          LET cands == RoundRobin(top, found, FeedList) \o answers
              picks == Selection(FALSE, cands, reg)
          IN  /\ registry' = picks.reg
              /\ Pin("geo", picks.pinned)
              /\ tasks' = [i \in DOMAIN picks.picked |-> NewTask(picks.picked[i], FALSE)]
    /\ UNCHANGED <<blocks, web, known, queue, shown, restarts>>

\* A feed or the search raises: nothing is harvested, a cursor may have moved.
StartFails ==
    /\ ~pass /\ pass' = TRUE /\ Fault
    /\ registry' = Older(registry) /\ saved' = Older(saved)
    /\ cursor' \in {cursor, NextCursor}
    /\ UNCHANGED <<blocks, stores, web, tasks, known, queue, shown, restarts>>

AllDone == \A i \in DOMAIN tasks : tasks[i].at = "done"

\* _rejected_host
Hopeless(h) ==
    \/ ~Dotted(h) \/ Unfit(h) \/ IsRuByGeo(Root(h).url) \/ Blocked(h)
    \/ \E d \in Listings : Under(h, d)

\* One business of a catalogue is looked up and its own site harvested.
SubSearch(h) ==
    /\ pass /\ AllDone /\ h \in queue /\ queue' = queue \ {h}
    /\ LET picks == Selection(TRUE, IF Hopeless(h) THEN <<>> ELSE <<Root(h)>>, registry)
       IN  tasks' = [i \in DOMAIN picks.picked |-> NewTask(picks.picked[i], TRUE)]
    /\ UNCHANGED <<registry, blocks, stores, disk, web, known, pass, shown, faults, restarts>>

\* prune: hosts that earned nothing for long are forgotten; how far below the
\* promotion threshold a score has fallen is left open.
Evictable(reg) == {h \in Site : reg[h].seen /\ ~reg[h].rated /\ reg[h].age >= EvictAge}

\* The registry is pruned and saved whatever happened.
EndPass ==
    /\ pass /\ AllDone /\ pass' = FALSE
    /\ tasks' = <<>> /\ known' = {} /\ queue' = {}
    /\ \E gone \in SUBSET Evictable(registry) :
          /\ registry' = [h \in Site |-> IF h \in gone THEN Unknown ELSE registry[h]]
          /\ shown' = shown \ gone
    /\ \/ saved' = registry' /\ NoFault
       \/ saved' = saved /\ Fault
    /\ UNCHANGED <<blocks, stores, web, cursor, restarts>>

\* The process is started again.  Admins may have blocked or unblocked a host
\* at the backend meanwhile: its list of blocked hosts is fetched now and never
\* later, so nothing shows it before.  A run that cannot fetch it knows none.
Restart ==
    /\ restarts < MaxRestarts /\ restarts' = restarts + 1
    /\ pass' = FALSE /\ tasks' = <<>> /\ known' = {} /\ queue' = {}
    /\ registry' = saved /\ pins' = pinsSaved
    /\ shown' = {h \in Site : saved[h].provider}
    /\ \E h \in Moderated : approved' \in {approved, approved \cup {h}, approved \ {h}}
    /\ \/ learned' = approved' /\ NoFault
       \/ learned' = {} /\ Fault
    /\ UNCHANGED <<pinsSaved, disk, web>>

\* An offer of the site is approved, or an admin registers it: it is a source
\* from the next pass on, which reads the sources once, when it starts.
NewSource(h) ==
    /\ ~pass /\ h \notin sources
    /\ sources' = sources \cup {h}
    /\ UNCHANGED <<registry, blocks, stores, disk, validators, tasks, known, queue, pass, shown,
                   faults, restarts>>

Task(i) ==
    \/ Begin(i) \/ PlanWalk(i) \/ UnchangedPage(i) \/ PageLost(i) \/ ForeignPage(i)
    \/ Finish(i)
    \/ \E kind \in Kind : PageFails(i, kind) \/ EditorialPage(i, kind) \/ ProcessPage(i, kind)

Next ==
    \/ StartPass \/ StartFails \/ EndPass \/ Restart
    \/ \E i \in DOMAIN tasks : Task(i)
    \/ \E h \in Site : SubSearch(h)
    \/ \E h \in Moderated : NewSource(h)

Spec == Init /\ [][Next]_vars

\* The scheduler runs pass after pass, and the pool runs its tasks.  (A pass
\* that may start or end does so by one of the actions above.)
FairSpec ==
    /\ Spec
    /\ WF_pass(~pass /\ pass' = TRUE)
    /\ WF_pass(pass /\ AllDone /\ pass' = FALSE)
    /\ WF_vars(\E i \in DOMAIN tasks : Task(i))

----------------------------------------------------------------------------
(* Properties.                                                             *)

Entry == [seen : BOOLEAN, skip : 0 .. EmptySkip, rated : BOOLEAN, streak : 0 .. MediaCrawls,
          provider : BOOLEAN, latched : BOOLEAN, age : 0 .. EvictAge]

TypeOK ==
    /\ registry \in [Site -> Entry] /\ saved \in [Site -> Entry]
    /\ learned \subseteq Site /\ approved \subseteq Site
    /\ pins \in [Store -> SUBSET Site] /\ pinsSaved \in [Store -> SUBSET Site]
    /\ cursor \in 0 .. Len(Rotation) - 1
    /\ validators \subseteq Tagged /\ sources \subseteq Site
    /\ known \subseteq Site /\ queue \subseteq Businesses /\ shown \subseteq Site
    /\ pass \in BOOLEAN /\ faults \in 0 .. MaxFaults /\ restarts \in 0 .. MaxRestarts
    /\ Len(tasks) <= Budget
    /\ \A i \in DOMAIN tasks :
          /\ tasks[i].at \in {"queued", "plan", "page", "record", "done"}
          /\ tasks[i].at = "page" => tasks[i].left \in 1 .. Pages

WalkedIn(ts, h) == \E i \in DOMAIN ts : ts[i].at = "plan" /\ HostOf(ts[i].cand) = h

(* The crawler blocks no host on its own that has shown itself a business, *)
(* in a walk recorded before or in one that is still going on beside it.   *)
EvidenceShields ==
    [][\A h \in Site :
          (h \in approved' \ approved /\ pass') =>
             /\ h \notin shown
             /\ ~\E i \in DOMAIN tasks : HostOf(tasks[i].cand) = h /\ tasks[i].business]_vars

(* The rotation, the dealing out of the lists, the revisit cooldown and    *)
(* the skips after empty walks together leave no host of the feed behind:  *)
(* each is walked again and again, unless it gets blocked or is a source,  *)
(* which the passive pass reads.                                           *)
FeedServed ==
    \A k \in DOMAIN Rotation :
        LET h == HostOf(Rotation[k])
        IN  []<>(WalkedIn(tasks, h) \/ Blocked(h) \/ h \in sources)

(* A host that offers things on every page and never shows itself a        *)
(* business is blocked in the end or made a source, though a block may     *)
(* fail, its answer be lost and the registry or the process go down on the *)
(* way.  This takes pages without validators: a second walk in which every *)
(* page is answered 304 shows no offers, and counts for nothing.           *)
MediaGetsBlocked ==
    \A h \in Site \ Tagged :
        (Kinds[h] = {"offer"}) => <>(h \in approved \/ h \in sources)

(* A site in another language is left alone from some time on, though the  *)
(* file of pinned hosts may fail to be written and the process end.  This  *)
(* takes pages without validators, too: what shows the language is not     *)
(* read twice.                                                             *)
ForeignLeftAlone ==
    \A h \in Site \ Tagged : (Kinds[h] = {"foreign"}) => <>[]~WalkedIn(tasks, h)

====
