# Verification of UBD Probe

UBD Probe finds discount offers for Ukrainian veterans. A crawler searches the
web, walks sites, extracts offers from pages and submits them to a backend;
moderators publish or refuse them; the public site shows what is published. This
directory holds TLA+ models of the parts where an error would be hard to see in a
test: the moderation of offers, the rotation of search backends, the walk of active
search over its phrases, the loop that schedules the crawler's passes, the passive
pass that keeps published offers alive, the active pass with its registry of hosts
and its blocks, the relevance judge, and the audit of query terms.

TLC checks each model on a small instance (`tlc -config X.cfg M`), TLAPS proves
theorems about them for every value of the constants (`tlapm MProofs.tla`).
`PROJECT.json` lists the components, the runs, the source lines behind each
definition, the mutations each property detects, and the hazards.

## The system

| Part | State | Operations | Talks to |
|---|---|---|---|
| Offer moderation (`backend/app/crud/offer.py`) | rows of `offers` and `offer_links`: status, content hash, source, parent of a shadow, age, reviewer | submission (9 branches of deduplication), publish, reject, restore, edit, delete, judge rejection, expiry | hosts, sources, promotion |
| Blocked and directory hosts (`crud/blocked_host.py`, `crud/directory_host.py`) | status of a host, set of directories | block, unblock, learn from rejections, register and sweep | offers |
| Sources and promotion (`crud/source.py`, `services/promotion.py`) | sources and their crawl state | create, update (address, type, activity), delete, create from a published offer | offers, scheduler |
| Query terms (`crud/query_term.py`, `crawler/learn/`, `discovery/query_lexicon.py`) | rows of `query_terms`; lexicon and candidates files; approved and protected terms as fetched; the grid | mine, breed, flush, submit, refresh; approve, reject, put back, add, protect; the operator's command line | search pass |
| Search backends (`crawler/discovery/search_state.py`, `providers.py`) | failures, cooldown, quarantine and re-probe time of each backend; rotation cursor; global backoff; a JSON file | search a keyword: choose, ask, record | search pass, scheduler |
| Search pass (`discovery/search_pass.py`) | page cursor and yield of each phrase, query cache, harvested marks | due walk, drain, mark harvested | backends, harvester |
| Scheduler (`crawler/scheduler.py`, `schedule.py`, `runner.py`) | time of the last passive pass, sleep of the loop | active pass, first crawl, passive pass, sleep | all of the crawler |
| Passive pass (`runner.py`, `fetchers/`, `validator_store.py`) | validators of pages, read markers of channels, skips of empty sources | crawl each source, submit, record, expire, save | offers, walker, registry |
| Walker (`discovery/walker.py`, `sitemap.py`, `robots.py`) | cache of robots.txt files, each kept for a week, also when it could not be fetched | sitemaps, breadth-first search, order, cap | passive pass, harvester |
| Harvester and domain registry (`discovery/harvest.py`, `domain_registry.py`, feeds) | score, skips, media streak of each host; pinned and learned hosts; cursors of the feeds | serial selection, parallel harvest, blocks, lookup of catalogue businesses, pruning | backend API, judge |
| Judge (`crawler/judge/`, `discovery/rejudge.py`) | verdict cache, circuit breaker | judge a candidate, re-judge the queue | offers |
| Feedback (`crawler/learn/reject_feedback.py`) | feedback cursor | ingest rejections | registry |
| Rate limits and accounts (`ratelimit.py`, `accounts/pool.py`) | next time of a domain, cooldown of an account | wait, penalize, lease | fetchers |
| Extraction, web applications | none of their own | text heuristics, views | all of them |

The hard behaviours are of five kinds.

* Long sequences of legal requests on one row. A submission chooses the row it
  falls on by five different lookups, rulings may come in any order, and a row
  can be live, its own former parent, revived as a shadow, and so on.
* Several commits in one request (publish then promote, register then sweep,
  reject then remember), and several actors at once: pool threads of the crawler,
  requests of the backend that read a row before they write it, moderators.
* Time: cooldowns, quarantines, re-probes, backoffs, skips and cadences that must all
  end, and end in the right order, before what depends on them expires.
* Failure: a pass may raise at any call, an answer may be lost, the process may
  restart, and part of its state is in memory only or in a file that was not written.
* Copies: blocked hosts, verdicts and rulings on terms are kept in memory, in files and
  at the backend, and each copy is refreshed by another path.

## Modules

| Module | Models | Properties and proofs |
|---|---|---|
| `OfferTable` | the offers table and what `crud/offer.py` computes from it, as operators from tables to tables | `OffersProofs`: a lemma on every operator |
| `Offers` | the requests of the crawler, the judge and the admins, one transaction at a time | `OffersProofs`; `MCOffersShadow`, `MCOffersPromote`, `MCOffersHosts` |
| `Moderation` | the abstract promise about the offer of a page | implemented by `Judging` |
| `Judging` | gate, breaker, verdict cache and re-judge sweep beside moderators | `JudgingProofs`; `MCJudging` |
| `Backends` | the rotating search provider and the health of its backends | `BackendsProofs`; `MCBackends` |
| `SearchPass` | the due walk over the phrases, the query cache, and the harvest of what was found | `SearchPassProofs`; `MCSearchPass`, `MCSearchWalk` |
| `QueryTerms` | the audit of search terms, from mining to the grid | `QueryTermsProofs`; `MCQueryTerms` |
| `Scheduler` | the adaptive loop, its passes, first crawls and skips | `SchedulerProofs`; `MCScheduler` |
| `Walk` | the plan of pages of a site, as operators | used by `Crawl`; `CrawlProofs` |
| `Crawl` | the passive pass: walk, conditional requests, submission, skips, expiry | `CrawlProofs`; `MCCrawl` |
| `Hosts` | the rules on host names, as operators | used by `Harvest` |
| `Harvest` | the active pass: feeds, selection, parallel walks, registry, blocks | `HarvestProofs`; `MCHarvest` |

### OfferTable and Offers

A table is a function from the ids in use to rows. A payload stands for one
submission, with its texts and URLs cut down to what the code compares: the
content hash, the canonical pages, three hosts, the set of discount magnitudes
and the set of words (`IsDuplicatePromo` compares both by inclusion and a
similarity threshold, as `crud/dedup.py` does). `CreateOffer` returns the set of
tables a submission may leave: one in every branch but the first, whose query
has no ORDER BY. Each of its branches is a query operator (`SameHash`, `Live`,
`Queued`, `Discovered`, `SamePromo`, `HubPeers`, `SameTarget`) and an update
operator (`SeeAgain`, `ShadowFor`, `WithContent`, `Touch`, `Merge`, `NewRow`).
`SetStatus`, `JudgeReject`, `Expire`, `Edit`, `Delete`, `Orphan` and
`HostsToBlock` are the other writers.

`Offers` has one action per transaction. A handler that commits more than once is
several actions, between which its request can die: `Publish`, `PromoteSource`,
`PromoteLink` with `AbandonPromotion`; `RegisterDirectory`, `Sweep` with
`LoseSweep`. Ages are days without a sighting, up to `StaleAge`. The history
variable `approved` remembers the content an admin last vouched for; links that a
merge appends to a published offer are not content and are not vouched for by
anyone. Each row of `sources` has a state and an address: the admin's update sets
both to anything, `AddSource` and `PromoteSource` look for an active source of the
same host, or a row with the same address, first. A transaction runs alone: two
registrations of one host that both look before either inserts are not modelled.
`DirectoryQueueSwept` speaks of hosts whose sweep has run; a sweep lost with its
request leaves the host in `unswept`.

### Backends

A backend is a position in the pool; every deadline is the time that is left.
One call of the provider is `Take` (choose the next usable backend from the
cursor on, and move the cursor past it), then `Answer`, `AnswerEmpty` or `Fail`, at
most twice; `Exhausted` sets the global backoff. The state file is written by
every change, so `Restart` loses the call in progress only; a trial that it interrupts
is recorded nowhere, and `DeadRarelyTried` counts the recorded ones. `since` and
`passed` are history.

### SearchPass

A pass is `StartSearch` (drain the cache, choose the batch), one action per call of a
provider (`DdgResults`, `DdgDegraded`, `DdgBackedOff`, `Searxng`), `EndSearch` (page
cursors, yields and grid cursor, if a provider succeeded) and `Harvest(n)`, which
examines the first n candidates and marks the keys it has consumed; `StartDrain` is
the pass of a backoff, and `PassFails` ends it anywhere. `Return` is the loop body of `ActiveDiscovery.run` with
its deduplication. What an engine finds for a phrase (`Serp`) is a constant for each provider,
and `Providers` is their order. The other feeds share the budget, so n is any
number that the budget allows and that covers `Share` candidates. The EWMA of a phrase
is reduced to whether it is above the dry threshold: a
new result always lifts it there, and it stays for an arbitrary number of dry
passes. How DuckDuckGo answers, backend by backend, is `Backends`.
`examined` and `silence` are history.

### Scheduler

`Wake` is the decision of `step()`; `FirstCrawl`, `Discover` and `Passive` are the
parts of the passes that touch state the decision depends on; `PassFails` is an
exception that reaches the loop. Searching is reduced to what it leaves behind:
any global backoff, any SearXNG cooldown. A restart keeps the backoff, the passive mark and the
saved registry, and forgets the SearXNG cooldown and unsaved skips.

### Walk and Crawl

`Walk` is the pure part: `CollectSitemaps`, `Bfs`, `PromoFirst`, `Finalize` and
`WalkPlan` are the functions of `walker.py` and `sitemap.py`. Their loops are `Fold`, a recursive
function over a list, with one operator for the loop body (`AddLoc`, `ReadDoc`, `FollowLink`, `VisitPage`,
`Level`, `Take`); `Only` filters a list. A page
is a model value; what the code reads off its address is a set it belongs to. The
set `lost` holds the requests that fail, so that a plan is a function of them. A site whose
robots.txt is lost is walked from its default sitemap, without what robots.txt names or forbids.
`DocumentsAssumption` says that sitemaps and pages name documents and pages; what a sitemap names need
not belong to the site.

A source of `Crawl` goes from `queued` to `walk`, then `fetch` and `submit` for each page,
then `close`, at most `Workers` at a time. `robots[s]` is the cached robots.txt of a website:
one that was lost counts as empty for `RobotsTtl` intervals, so that a single fault bends
several walks. `Skip` uses up one crawl of a cooldown. `FetchUnchanged` is a 304 or
an unchanged channel, `FetchFails` an error, after which the validator may be stored
already, `Submit` a sighting, `Close` the crawl state and the registry's `record`. The marker of a
channel is its last post that was not skipped: it alternates between the newest and the one before, and
stays where it is in a channel with a single post (`OnePost`). `EndPass`
expires and saves, and either may fail. Time is counted in passive intervals, the
age of an offer in intervals since it was seen. A validator matters only as long as
the server recognises it, so the store is the set of pages that would be answered
304. A submitted offer counts as published: moderation is `Offers`.

### Hosts and Harvest

`Hosts` translates `util/hosts.py`, `host_quality.py` and `blocklist.py`: a host is the
sequence of its labels. `Harvest.StartPass` deals out the lists of candidates
(`TopLists`, the search, `FeedList`, the answers of site: queries), makes the serial selection (`Scan`, with every gate
in the order of the code, counting off skips and pinning Russian and Belarusian
addresses) and downranks what moderators rejected. The tasks run in parallel: `Begin`
looks at the gates again, `PlanWalk`, one action per kind of page, and `Finish`, which rates
the host and may block it as media. The harvester fetches with stored validators like the passive pass:
a page of a site in `Tagged` that was read before may be answered 304 (`UnchangedPage`), which yields
nothing and leaves the streak of a medium as it was; `PageLost` and `PageFails` are the errors. `SubSearch` is the lookup of a
catalogue's business by the harvester without registry. `EndPass` prunes and saves. Three
copies of a block are kept apart: `approved` at the backend, `learned` in memory, `pins`
with their files. `Candidates` are the addresses that can turn up, at least the root of every host
(`SitesAssumption`); the loops over lists are recursive functions. The score of a host is reduced to whether it earns promotion.
Between passes a published offer can make its host a source (`NewSource`; a source stands for
its homepage, and none is taken away). `SourceSites` are the first sources, `Moderated` bounds which others
there can be. Restarts have a bound of their own, so that a lost write can be followed by one.
`shown` is history: it forgets what the registry file never held when the crawler restarts, and
what is pruned.

### Judging and Moderation

`offers[p]` is the latest row of a page of a known source. `StartPass`, `GateKnows`, `GateAsks`,
`GateFails` and `EndPass` are the gate of `gate.py` during a pass; `StartSweep` to `EndSweep` the
loop of `rejudge.py` over a list it fetched before. `judge_reject` does not lock its row and is
two actions, `RejectReads` and `RejectCommits`, between which moderators may rule; the others'
requests run between two steps. The gate's hash is of an extracted block, the sweep's of the page's
offer: the two do not share verdicts. The model is asked with temperature 0, so
its verdict is a property of the text (`Junk`). `closed[p]` are the texts of the page's earlier rows: a
waiting row is overwritten in place, a rejected one stays behind as a row of its own, and a page that
returns to its text falls on that row again. `refusals` counts for each page and text how often the judge
refused it, over the whole run; it and `troubled` are history. Moderators rule on the latest row.

`Moderation` says what is left when passes, caches, sweeps and failures are hidden: pages are
sighted, refusals begin for junk that waits for a moderator, moderators rule,
a published text is replaced by nobody, and a rejected one comes back by a ruling alone. `Judging`
implements it with `row <- offers, closed <- closed, asked <- rejecting`.

### QueryTerms

The learning tick is `Mine`, `Flush`, `Propose` (bootstrap and miner, bred terms,
submission), between which moderators act; `TickFails` ends it with what was written so far.
`Refresh` is the tick that fetches approved and protected terms, which fail apart.
`Breed` is the sink of the search pass, which checks the list of rejected terms
fetched at the start. Moderators have six rulings, the operator's command line two. Of the grid,
only the terms of services are modelled; which terms the miner finds is any
set. `vouched` is history.

## Runs

| Run | Question | Bounds |
|---|---|---|
| `offers_shadow` | does a page that changes and changes back keep a sound set of versions? | one source, one page, three contents, three rows: a live offer, its shadow and an older generation. `StaleAge` 0 lets a live offer go stale at any moment |
| `offers_promote` | is what the public sees approved, and does promotion clash with crawling? | two contents, two rows of offers; two rows of sources, which hold the origin of the shop or a deeper URL of it |
| `offers_hosts` | do bad hosts stay out, and does learning spare live ones? | a shop, its subdomain and a catalogue; three offers, one more than learning needs |
| `backends` | do cooldowns, quarantine, rotation and backoff work together? | three backends, so that the two attempts of a call never cover the pool; the third failure quarantines |
| `search_pass` | is every cached result examined before it is marked, and finished? | two phrases that share a website, one page, both providers, a budget of two: a batch brings up to six candidates. The yields are switched off (`MultCap` 1) |
| `search_walk` | does the walk come back to every phrase, and suppress only the dry? | two phrases with two pages, one protected; TTL 1, doubled after two dry answers; DuckDuckGo only |
| `scheduler` | does every kind of pass recur, with sleep between them? | two sources, one always broken and first in line, a first-crawl budget of one; a backoff that outlasts the longest sleep |
| `crawl` | does an offer that stays on its page stay confirmed, and does a new one arrive? | a website and a channel, two at a time, a homepage with a validator; a sitemap index that lists itself, a link search through a page that is no target, variants, a cap of three pages; one fault, one edit; an empty crawl is skipped once, a lost robots.txt is kept for two intervals, and the freshness period of three is the shortest the assumption allows. The channel has more than one post |
| `harvest` | are hosts blocked for the right reasons, and all of the feed visited? | a shop that is a source and sends validators, a medium that may become a source, a foreign site; two threads, a fetch budget of two, one less than the three lists can bring; a feed of two whose window, the revisit time and the skips have periods that can lock; one fault anywhere and one restart |
| `judging` | does junk leave the queue, and does what moderators put back stay? | two pages that may say the same, two texts, a sweep as long as the queue; two faults, two rulings and two edits, so that a refusal can be undone and fail again, and a page can leave a refused text and return to it |
| `query_terms` | is only what people approved searched, and does their latest word count? | two terms, one a category; three rulings, one fault |

These eleven runs pass. Deadlock is not checked in the offers runs only because
the bound on ids lets the table fill up.

`unchanged_page_expires` shows a disagreement between code and intent: a server that
answers 304 for a page that never changes keeps its offer from being confirmed
(`fetchers/website.py:385-386` returns no items, so nothing is submitted), and the offer expires while it is
still there. The instance has no faults: nothing goes wrong but the conditional request.

### Bounds

Faults, rulings, edits and restarts are counted and bounded (`MaxFaults`, `MaxRulings`,
`MaxEdits`, `MaxChanges`, `MaxRestarts`): without a bound a system that fails at every step
promises nothing. Each bound lets a failure meet its repair: a fault in
any step of a crawl, then a whole cooldown; a lost write, then the restart that shows it;
a refusal, its undoing, two edits that take the page away from the text and back, and a second
sweep. They are bounds all the same: for a third edit, or a second fault in a crawl, the
safety properties rest on the proofs and the liveness properties are not checked. What a property says of failures is stated in terms of the bound where the
code makes it depend on one: `UntaggedNeverExpires` holds as long as the failed crawls and
the skips each of them arms fit in the freshness period (`FreshnessAssumption`; with the
defaults 30 days are 15 intervals, and the costliest failure, a lost robots.txt that is kept for four
intervals with a cooldown of five behind it, takes nine of them), and
`RestoredStays` allows one further refusal per failure.

`HarvestAssumption` asks that the registry forgets a host no earlier than it may be revisited
(`EvictAge >= Revisit`; the defaults satisfy it). Otherwise a media host would be forgotten
before its second visit, and its streak would never grow. `JunkLeavesQueue` is checked with a
sweep that covers the queue (`Budget` is the number of pages); see below for one that does not.
The one-post channel is in the model and in the proofs, not in the run: `OnePost` is empty there.

## Divergences met while modelling

* An offer whose page is answered with 304 expires (run `unchanged_page_expires`).
* Content whose only row has expired cannot be submitted again. Branch 1 of `create_offer`
  ignores expired rows "so they fall through to branch 2", but branch 2 needs a live
  parent, and the insert breaks the unique key (`crud/offer.py:149-151`, `200-204`).
  `OnlyExpiredCollides` states that nothing else collides.
* Publishing a shadow whose parent has gone stale can leave two published versions
  of one page (`crud/offer.py:537-540`), when the page was resubmitted on its own meanwhile.
* Candidates that only SearXNG found and the fetch budget did not reach are lost: there
  is no cache around SearXNG to drain them from (`runner.py:393-395`, `providers.py:316-333`).
* With `SEARCH_PROVIDERS=searxng,duckduckgo` a cached result can be marked harvested before all of it was
  examined, against `runner.py:393-395`; see the hypothesis of `NothingOrphaned` below.
* An answer without results is counted as dry but not cached, so the driest phrases
  never rest (`providers.py:139`, `206-207`).
* On a fresh installation whose search never backs off the passive pass never runs: `overdue()`
  needs a first mark (`schedule.py:21`, `.env.example:99-100`). `PassiveRecurs` is stated
  for what the code does.
* The sweep's queue is the oldest pending offers up to a limit, judged or not. A limit's worth of
  offers that the judge kept hides every newer one (`crud/offer.py:574-581`).
* The one post of a channel is read once. Once it is the marker it is skipped, and with no other post
  to take its place the marker stays: no later crawl yields the post, and its offer expires unconfirmed (`fetchers/telegram.py:36-45`). `UntaggedNeverExpires` exempts such channels.
* A robots.txt that could not be fetched is cached as an empty one for a week
  (`robots.py:103-105`), and the site is walked from `/sitemap.xml` for as long, against the sitemaps it
  names (`walker.py:67`).
* A medium whose pages carry validators is answered 304 at the second visit, which yields no offers and
  does not count (`wiring.py:224-227`, `website.py:385-386`): its streak never reaches the second crawl that
  would have it blocked, and a foreign site with validators is not recognised again after its pin was lost.
  `MediaGetsBlocked` and `ForeignLeftAlone` are stated for sites without validators.
* Junk can wait for ever once moderators have put it back: if its page says something else for a
  while, the waiting row is overwritten in place and later overwritten back (`crud/offer.py:231-250`), and the
  sweep skips the text as judged, though no moderator has ruled on it since (`rejudge.py:35-39`).
  `JunkLeavesQueue` is about junk the judge has not refused before.
* While a page shows a text whose row was rejected, an offer of it that waits keeps the text the page no
  longer shows: the sighting falls on the rejected row (`crud/offer.py:148-174`).
* The skip counter of a host is used up per candidate address, not per pass
  (`harvest.py:178`), so a host with many addresses in one pass is skipped for less
  than its passes. `Scan` does the same.

## Fairness

Safety properties are checked and proved without fairness.

* `Backends`: time passes, the crawler goes on searching (`Ask`) and every
  request ends (`Respond`; the client has a timeout). Nothing is assumed of
  how it ends: the backends may fail for ever.
* `Scheduler`: time passes, the loop wakes when its sleep is over (Tick waits for it), and every
  pass ends. Strong fairness says that outages of the backend end: a pass
  that is begun again and again is once not interrupted, and a crawl state that
  is written again and again is once stored. Without it a backend that
  refuses every write keeps a new source new, as it does in the code. Restarts are
  bounded.
* `SearchPass`: the loop goes on starting passes and a pass goes on. That passes
  stop failing, that time passes and that searches succeed are
  premises of the properties that need them, not assumptions.
* `Crawl`: the cadence calls for passes and the scheduler starts them, a pass whose
  sources are done ends, and a pool thread runs each source's task on: every request has a
  timeout, and how it ends is left open.
* `Harvest`: weak fairness of beginning a pass and of ending one whose tasks are
  done, in whatever way, and of the pool. Nothing makes a particular candidate get its turn:
  `FeedServed` follows from the rotation and the order of the lists.
* `Judging`: a pass ends, a sweep goes on, a commit that was begun is finished. `StartSweep` is
  strongly fair: passes and sweeps alternate in one thread, so the loop comes to the sweep again
  and again, but a pass can begin first.
* `QueryTerms`: the ticks come for ever. Mining and refreshing need strong fairness
  as they exclude each other in one thread; flushing and submitting follow in the same tick.

## Proofs

Each component's inductive invariant is `IInv` of its proof module (`SilenceInv` and `ExaminedInv` in
`SearchPassProofs`, one for each theorem). Loops over data are recursive functions in the models
that are proved about. That such a function exists, and what it keeps at every step, is shown by induction over
the natural numbers (`NatInduct`, `Iteration`), which follows from the well-foundedness of < in the library.

* `OffersProofs`. `IInv` joins the table's type, the soundness of the supersede
  graph, `LiveIsApproved`, the freshness of ids and the fact that only
  crawler offers are promoted. Acyclicity cannot be inductive alone: a
  revived row may be a former parent, and only because publishing drops its
  link is the graph kept free of cycles; `Sound` says that parents are ids of the
  table, that shadows wait or are refused, and that no set of rows is closed under parents. Each branch
  of `CreateOffer` is a lemma on tables (`Resighted`, `Refilled`, `Revived`, `Born` say what
  a branch leaves); one transaction is then one step of the theorem.
  A sighting does one of those to at most one row (`Answered`), which gives `BadSourcesAddNothing` and
  `CrawledStaysFresh`. What any other request may do to an offer is `Handled`, and `Settled` says that a
  refused one stays refused for the content it was refused for; from them
  `RejectionsAreFinal` and `DirectoriesStaySwept`.
  Two invariants need a stronger one. `ShadowsNeverFlood` needs `Ruled`: what the crawler
  made and the public saw was ruled on by an admin, so that an expired offer revived as a shadow beside the one in
  flight is not a fresh one. `OnlyExpiredRowsCollide` needs `Keyed`: besides the unique key itself,
  a shadow has its parent's source or none, and an offer under promotion has neither source nor parent, so
  that setting a source on it cannot meet a row with the same key.
* `BackendsProofs`. `HealthSound` orders the deadlines of one backend,
  `BackoffCovered` says the backoff covers the wait for some backend,
  `TrialsApart` ties the next trial of a dead backend to its last failure, and
  `RotationAdvances` trades takes against the distance from the cursor. The
  theorems need `TimesAssumption`: a quarantine lasts as long as any cooldown and as the
  re-probe interval (24 h against 9 h and 6 h by default).
* `SchedulerProofs`. The loop sleeps no time only after a degraded pass
  whose backoff is over; then DuckDuckGo is available, the next pass is full and
  sleeps. `LoopSleeps` assumes that DuckDuckGo is a provider. It is needed: with SearXNG
  alone the loop sleeps for a DuckDuckGo backoff that does not exist, and
  degraded passes follow each other without sleep while SearXNG cools.
* `SearchPassProofs`. `SilenceInv` keeps the dry streak of a phrase at or below the
  number of answers that really brought nothing, all the way up to `ColdTries`; the
  property alone says nothing of a phrase that is not suppressed yet. `TypeInv` is the type
  invariant with the records spelled out. `NothingOrphaned` (`CachedUntilExamined`) is about positions: a
  phrase is marked when its last candidate in the list was examined, so every candidate of a cached answer
  must stand in the list under the key of the answer, or, found before under another key, in
  front of all that stand under it. `ExaminedInv` says so of every unmarked answer (`AllHeld`), that the calls still
  to come ask DuckDuckGo for each phrase once and before others (`CallsInOrder`), and
  that nothing is in the list yet of what they will ask (`NotFoundYet`). It rests on lemmas about
  flattened and filtered sequences: where their elements come from, and in which order.
  The theorem assumes DuckDuckGo is asked first (`InDefaultOrder`), as it is by default.
  The assumption is needed: with `SEARCH_PROVIDERS=searxng,duckduckgo`, SearXNG may find
  one thing for a phrase and DuckDuckGo another, which it found for an earlier phrase too. Deduplication
  leaves it under the earlier phrase, behind SearXNG's; a harvest that ends between the two marks
  the phrase, although a candidate of it was not examined, against `runner.py:392-395` ("no candidate is
  orphaned"). TLC finds this when the two providers change places in `MCSearchPass`.
* `CrawlProofs`. That no offer expires is not inductive: it depends on the skips still to come.
  `IInv` adds an account for every source (`InTime`): the age of an offer and the skips its site still owes
  add up to no more than the delay the faults so far allow, with one more interval while
  the source has not been dealt with in this pass. An empty crawl of a page that carries an offer
  takes a fault, which pays for the cooldown it arms; a skip moves one unit from the cooldown to the
  age; a restart is a fault, which pays for whatever older registry it brings back. A lost robots.txt is
  paid for when it is lost, for all the passes it is kept and the cooldown that may follow them
  (`RobotsPaid`). A channel of more than one post is read at every second crawl. The theorem
  `UntaggedOffersStay` needs `FreshnessAssumption` and that sites do not share pages
  (`PlanAssumption`).
  `FillerNeverDisplaces` is about nested loops. `FoldGood` is the induction over a list: what holds
  before the first element, and is kept by the loop body from one position to the next,
  holds at the end. With it every loop of the walk is typed, so that plans are lists of
  pages (`PlanTyped`), and `FinalizeFair` follows the last loop: as long as it is among the offer pages, nothing
  but them and the homepage is planned; when it has passed them, either each was dealt with (planned, a variant
  planned, or refused) or the plan is full and stays as it is. The invariant of the specification then is that what is left of
  a plan begins with the homepage only while nothing of it was fetched (`PlanInHand`): the property
  speaks of the task at that point, and its plan must be the one of a walk without a lost
  request.
* `HarvestProofs`. The types need lemmas on the recursive functions by which lists are filtered (`Without`),
  dealt out in turn, and scanned. `BusinessesStay` (`EvidenceShields`) says that
  the crawler blocks no host on its own that has shown itself a business. `IInv` adds to the
  types `Remembered`, that the registry marks every host that was shown as a business in a recorded walk and
  has not been forgotten since; and `OnePerHost`, that no two tasks of a pass that may block are for one
  host. A task looks at the registry and at what it saw itself, so without the second it
  could block a host that another walk, not recorded yet, has found to be a business; that the selection
  takes one candidate of a host is what rules it out.
* `JudgingProofs`. `QueueCurrent` says the sweep's copy of an offer has its present text (nothing is
  submitted during a sweep), `OneRejection` that one rejection is under way at a time, of an offer still on the list.
  `Owed` is an account for each page and text: the refusals, with one under way whose sweep is gone, are no more
  than the failures and, if the cache file has the verdict, one. An unwritten verdict was paid for when the file
  failed; a request that outlives its sweep may meet another text by the time it commits, and counts in
  advance for every text. None of it says that cached verdicts are the judge's. From it
  `RestoredOffersStay`, and `ModerationImplemented`: every step is a step of `Moderation` or a stutter.
* `QueryTermsProofs`. `Vouched` follows each term from the ruling to the copies: what is
  approved at the backend or fetched as approved was vouched for, and what is in the lexicon or in the grid
  was vouched for or is a category. Mined candidates, bred terms and the frozen list of
  rejected ones are only typed: they reach the search through a ruling or not at all.

Type correctness of every specification is proved (`Moderation` and the operator modules have none of their
own); the search and harvest runs check it too.

Model-checked only: all liveness (`EveryBackendGetsItsTurn`, `PassiveRecurs`, `SearchGoesOn`,
`NewSourcesCrawled`, `CachedFinished`, `EachPhraseSearched`, `ChangeReachesBackend`, `FeedServed`,
`MediaGetsBlocked`, `ForeignLeftAlone`, `JunkLeavesQueue`, `AuditReachesGrid`), which needs fairness
and ENABLED and is out of the prover's reach. Every safety invariant and action property of the passing
runs is a theorem, two of them under a hypothesis on the providers (`LoopSleeps`, `NothingOrphaned`).

## Plan

1. `OfferRequests`: two requests at once on the offers table and the sources, each a
   read and a later commit. `Judging` does this for `judge_reject` alone.
2. The feedback cursor, the queue of suggested sources.

## Not modelled

* Text heuristics (the regular expressions and word lists of extraction, attribution, language and geography),
  and the parsing of HTML and XML: what they decide is a constant or a kind of page.
* Instagram and Facebook, which are read like Telegram but through leased accounts, and the
  rate limits: how long a request waits, not what it does.
* Authentication, the Vue applications, backups, and single-row tables with nothing to
  relate (categories, admin users, the health snapshot).
* How the feeds fill their caches (Wikidata, Overpass, catalogue scrapes), the statistics of
  the miner, and pinned keywords.
* Suggested sources and the feedback cursor. Moderators' edits of a pending offer while a sweep
  judges its former text are not in `Judging`.

`PROJECT.json` gives the reason for each component.
