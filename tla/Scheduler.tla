----------------------------- MODULE Scheduler -----------------------------
(***************************************************************************)
(* The adaptive loop of the crawler (crawler/scheduler.py): it runs one    *)
(* pass, sleeps, and decides again.  While some search provider can be     *)
(* used it runs the active pass, and the passive pass only as a safety     *)
(* net; when none can it runs the active pass without its search and, if   *)
(* due, the passive pass, then sleeps until the DuckDuckGo backoff ends.   *)
(*                                                                         *)
(* The active pass begins with the first crawl of new sources, the passive *)
(* pass crawls all of them (crawler/runner.py).  What the search itself    *)
(* does to its backends is module Backends; here a pass leaves any global  *)
(* backoff and any SearXNG cooldown behind.                                *)
(*                                                                         *)
(* Times are what is left until a deadline, except age, the time since the *)
(* last passive pass was marked.  The learning, refresh, re-judge and      *)
(* health ticks of the loop share no state with the decision and are left  *)
(* out, and so is a mark that cannot be written.                           *)
(***************************************************************************)
EXTENDS Integers, FiniteSets

CONSTANTS
    Providers,       \* the configured search providers
    ActiveDelay, MinActiveDelay, BackoffMaxSleep,
    PassiveInterval, HardFactor,
    FirstCrawlBudget,
    Sources,         \* ids of the website sources that may be created
    Broken,          \* those whose crawl always raises
    MaxBackoff,      \* bound: the longest global backoff
    MaxCooldown,     \* bound: the longest SearXNG cooldown
    MaxRestarts,     \* bound: restarts of the process
    MaxSkip          \* bound: crawls the registry may owe a host

ASSUME SchedulerAssumption ==
    /\ ActiveDelay \in Nat /\ MinActiveDelay \in Nat \ {0}
    /\ BackoffMaxSleep \in Nat \ {0}
    /\ PassiveInterval \in Nat \ {0} /\ HardFactor \in Nat \ {0}
    /\ FirstCrawlBudget \in Nat
    /\ Sources \subseteq Nat /\ Broken \subseteq Sources
    /\ MaxBackoff \in Nat /\ MaxCooldown \in Nat /\ MaxSkip \in Nat
    /\ MaxRestarts \in Nat

ASSUME ProvidersAssumption == Providers \subseteq {"duckduckgo", "searxng"}

VARIABLES
    pc,         \* where the loop is
    degraded,   \* the pass runs without search
    sleep,      \* time left to sleep
    backoff,    \* the global backoff of DuckDuckGo, persistent
    cooldown,   \* the cooldown of SearXNG, in memory
    age,        \* time since the passive mark (to HardOverdue), or Never
    source,     \* source[s]: "absent", "new" (never crawled) or "crawled"
    owed,       \* owed[s]: crawls of its host still to be skipped
    saved,      \* what the domain registry saved of owed
    restarts,   \* how often the process was restarted
    spins       \* history: passes in a row that slept no time (to 2)

search == <<backoff, cooldown>>
hosts == <<source, owed, saved>>
vars == <<pc, degraded, sleep, backoff, cooldown, age, source, owed, saved, restarts, spins>>

Never == -1
HardOverdue == PassiveInterval * HardFactor

Shorter(a, b) == IF a < b THEN a ELSE b
Longer(a, b) == IF a < b THEN b ELSE a

-----------------------------------------------------------------------------
(* The decision.                                                           *)

Available(p) ==
    CASE p = "duckduckgo" -> backoff = 0
      [] p = "searxng" -> cooldown = 0

\* Mutant: one provider out is enough to degrade the pass.
SearchAvailableAll == \A p \in Providers : Available(p)

SearchAvailable == Providers = {} \/ \E p \in Providers : Available(p)

Due == age = Never \/ age >= PassiveInterval

\* Mutant: the safety net only looks when search is out.
OverdueInBackoff == ~ SearchAvailable /\ age # Never /\ age >= HardOverdue

Overdue == age # Never /\ age >= HardOverdue

\* The sleep after any pass but a degraded one, and after one that raised.
UsualSleep == Longer(ActiveDelay, MinActiveDelay)

DegradedSleep == Shorter(backoff', BackoffMaxSleep)

FallAsleep(time) ==
    /\ pc' = "asleep"
    /\ degraded' = FALSE
    /\ sleep' = time
    /\ spins' = IF time = 0 THEN Shorter(spins + 1, 2) ELSE 0

Init ==
    /\ pc = "asleep" /\ degraded = FALSE /\ sleep = 0 /\ spins = 0
    /\ restarts = 0
    /\ backoff = 0 /\ cooldown = 0
    /\ age \in {Never, 0}
    /\ source = [s \in Sources |-> "absent"]
    /\ owed = [s \in Sources |-> 0]
    /\ saved = [s \in Sources |-> 0]

Wake ==
    /\ pc = "asleep" /\ sleep = 0
    /\ degraded' = ~ SearchAvailable
    /\ pc' = IF SearchAvailable /\ Overdue THEN "passive" ELSE "first"
    /\ UNCHANGED <<sleep, search, age, hosts, restarts, spins>>

-----------------------------------------------------------------------------
(* The passes.                                                             *)

New == {s \in Sources : source[s] = "new"}

\* list_uncrawled_website_sources: the oldest, up to the budget.
Batch == {s \in New : Cardinality({t \in New : t < s}) < FirstCrawlBudget}

\* take_skip: a source that owes a skip pays with this crawl.  (The skips a
\* crawl adds concern sources that are not new any more.)
PayBy(crawled) ==
    owed' = [s \in Sources |->
               IF s \in crawled /\ owed[s] > 0 THEN owed[s] - 1 ELSE owed[s]]

Crawlable(asked) == {s \in asked : owed[s] = 0}

\* Mutant: a crawl that raises leaves its source uncrawled.
FirstCrawlUnmarked(lost) ==
    /\ pc = "first"
    /\ lost \subseteq Crawlable(Batch)
    /\ PayBy(Batch)
    /\ source' = [s \in Sources |->
                    IF s \in Crawlable(Batch) \ (lost \cup Broken)
                    THEN "crawled" ELSE source[s]]
    /\ pc' = "discover"
    /\ UNCHANGED <<degraded, sleep, search, age, saved, restarts, spins>>

\* A crawl that raises is marked as attempted too; the sources in "lost" are
\* those whose crawl state could not be written.
FirstCrawl(lost) ==
    /\ pc = "first"
    /\ lost \subseteq Crawlable(Batch)
    /\ PayBy(Batch)
    /\ source' = [s \in Sources |->
                    IF s \in Crawlable(Batch) \ lost THEN "crawled" ELSE source[s]]
    /\ pc' = "discover"
    /\ UNCHANGED <<degraded, sleep, search, age, saved, restarts, spins>>

\* Listing the new sources failed: the active pass goes on without them.
NoFirstCrawl ==
    /\ pc = "first"
    /\ pc' = "discover"
    /\ UNCHANGED <<degraded, sleep, search, age, hosts, restarts, spins>>

\* The rest of the active pass.  Searching leaves a provider that could be
\* used usable, or cooling; no other provider is touched.
Discover ==
    /\ pc = "discover"
    /\ IF degraded \/ "duckduckgo" \notin Providers \/ backoff > 0
         THEN UNCHANGED backoff
         ELSE backoff' \in 0 .. MaxBackoff
    /\ IF degraded \/ "searxng" \notin Providers \/ cooldown > 0
         THEN UNCHANGED cooldown
         ELSE cooldown' \in 0 .. MaxCooldown
    /\ saved' = owed
    /\ IF degraded /\ Due
         THEN pc' = "passive" /\ UNCHANGED <<degraded, sleep, spins>>
         ELSE FallAsleep(IF degraded THEN DegradedSleep ELSE UsualSleep)
    /\ UNCHANGED <<age, source, owed, restarts>>

\* Mutant: the safety net forgets to mark the pass.
PassiveUnmarked(lost) ==
    /\ pc = "passive"
    /\ LET all == {s \in Sources : source[s] # "absent"}
       IN  /\ lost \subseteq Crawlable(all)
           /\ Broken \cap Crawlable(all) \subseteq lost
           /\ PayBy(all)
           /\ source' = [s \in Sources |->
                           IF s \in Crawlable(all) \ lost THEN "crawled" ELSE source[s]]
    /\ saved' = owed'
    /\ age' = IF degraded THEN 0 ELSE age
    /\ UNCHANGED <<search, restarts>>
    /\ FallAsleep(IF degraded THEN DegradedSleep ELSE UsualSleep)

\* Every source is crawled; one that raises is not marked.
Passive(lost) ==
    /\ pc = "passive"
    /\ LET all == {s \in Sources : source[s] # "absent"}
       IN  /\ lost \subseteq Crawlable(all)
           /\ Broken \cap Crawlable(all) \subseteq lost
           /\ PayBy(all)
           /\ source' = [s \in Sources |->
                           IF s \in Crawlable(all) \ lost THEN "crawled" ELSE source[s]]
    /\ saved' = owed'
    /\ age' = 0
    /\ UNCHANGED <<search, restarts>>
    /\ FallAsleep(IF degraded THEN DegradedSleep ELSE UsualSleep)

\* A call to the backend outside the handlers of a pass raises: the iteration
\* is over and what it left in memory is not saved.
PassFails ==
    /\ pc # "asleep"
    /\ FallAsleep(UsualSleep)
    /\ UNCHANGED <<search, age, hosts, restarts>>

-----------------------------------------------------------------------------
(* The environment.                                                        *)

\* A suggestion is approved or an offer promoted; the harvester may already
\* have found the host empty.
AddSource(s, k) ==
    /\ source[s] = "absent"
    /\ source' = [source EXCEPT ![s] = "new"]
    /\ owed' = [owed EXCEPT ![s] = k]
    /\ saved' = [saved EXCEPT ![s] = k]
    /\ UNCHANGED <<pc, degraded, sleep, search, age, restarts, spins>>

Less(t) == IF t > 0 THEN t - 1 ELSE 0

\* Passes take any time; the loop wakes up as soon as its sleep is over.
Tick ==
    /\ pc = "asleep" => sleep > 0
    /\ backoff' = Less(backoff)
    /\ cooldown' = Less(cooldown)
    /\ sleep' = Less(sleep)
    /\ age' = IF age = Never THEN Never ELSE Shorter(age + 1, HardOverdue)
    /\ UNCHANGED <<pc, degraded, hosts, restarts, spins>>

\* The process stops and starts: the SearXNG cooldown and the unsaved skips
\* are forgotten.
Restart ==
    /\ restarts < MaxRestarts
    /\ restarts' = restarts + 1
    /\ pc' = "asleep" /\ degraded' = FALSE /\ sleep' = 0 /\ spins' = 0
    /\ cooldown' = 0
    /\ owed' = saved
    /\ UNCHANGED <<backoff, age, source, saved>>

FirstCrawlEnds == NoFirstCrawl \/ \E lost \in SUBSET Sources : FirstCrawl(lost)

PassiveEnds == \E lost \in SUBSET Sources : Passive(lost)

Next ==
    \/ Wake
    \/ FirstCrawlEnds
    \/ Discover
    \/ PassiveEnds
    \/ PassFails
    \/ \E s \in Sources, k \in 0 .. MaxSkip : AddSource(s, k)
    \/ Tick
    \/ Restart

Spec == Init /\ [][Next]_vars

(***************************************************************************)
(* Time passes and the loop goes on: every pass returns or raises (its     *)
(* requests have timeouts).  Outages end: the backend does not fail every  *)
(* pass, nor every write of a crawl state, for good.                       *)
(***************************************************************************)
PassEnds == FirstCrawlEnds \/ Discover \/ PassiveEnds \/ PassFails

FairSpec ==
    /\ Spec
    /\ WF_vars(Tick) /\ WF_vars(Wake) /\ WF_vars(PassEnds)
    /\ SF_vars(FirstCrawl({}))
    /\ SF_vars(Discover)
    /\ SF_vars(PassiveEnds)

-----------------------------------------------------------------------------
(* Properties.                                                             *)

TypeOK ==
    /\ pc \in {"asleep", "first", "discover", "passive"}
    /\ degraded \in BOOLEAN
    /\ sleep \in Nat
    /\ backoff \in 0 .. MaxBackoff
    /\ cooldown \in 0 .. MaxCooldown
    /\ age \in {Never} \cup (0 .. HardOverdue)
    /\ source \in [Sources -> {"absent", "new", "crawled"}]
    /\ owed \in [Sources -> 0 .. MaxSkip]
    /\ saved \in [Sources -> 0 .. MaxSkip]
    /\ restarts \in 0 .. MaxRestarts
    /\ spins \in 0 .. 2

\* The loop never runs pass after pass without sleeping (scheduler.py:6): a
\* sleep of no time is followed by a pass that sleeps.
NoBusyLoop == spins < 2

\* Once the passive pass was marked it keeps coming back, however search
\* fares: in a backoff when it is due, else by the safety net.
PassiveRecurs == (age > 0) ~> (age = 0)

\* Passes with search keep running: neither the safety net nor the backoff
\* takes every iteration.
SearchGoesOn == []<>(pc = "discover" /\ ~ degraded)

\* Every new source is crawled or marked as attempted, those behind broken
\* or skipped ones included (runner.py:358).
NewSourcesCrawled ==
    \A s \in Sources : (source[s] = "new") ~> (source[s] = "crawled")
=============================================================================
