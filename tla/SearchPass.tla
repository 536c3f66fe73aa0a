----------------------------- MODULE SearchPass -----------------------------
(***************************************************************************)
(* One pass of active search over the query grid: which phrases are due    *)
(* and which are asked (crawler/discovery/search_pass.py, active.py,       *)
(* query_grid.py), what of it the persistent SearchState remembers         *)
(* (search_state.py: page cursors, yields, query cache), and which of the  *)
(* found candidates the harvester examines under its fetch budget          *)
(* (harvest.py, runner.py).                                                *)
(*                                                                         *)
(* A phrase is its position in the grid and a cache key is a phrase with a *)
(* page.  A timestamp is the time since it, up to Horizon, and time passes *)
(* between the passes: a pass is short next to a TTL of a week.  The       *)
(* search engines are the environment: they find Serp[k], find nothing,    *)
(* fail, or throttle.  Left out: pinned keywords, site: queries, and the   *)
(* gates that only drop a candidate (active sources, blocklists, skips).   *)
(***************************************************************************)
EXTENDS Integers, SequencesExt

CONSTANTS
    GridSize, BlockSize,     \* phrases in the grid, and in a batch
    PageCap,                 \* pages of results asked for at most
    Ttl, MultCap, ColdTries, \* freshness of a result and its adaptive growth
    Protected,               \* phrases of terms an administrator protects
    Providers,               \* the enabled ones, in their configured order
    Websites, Channels,      \* the candidates there are, by type
    Serp,                    \* Serp[by][k]: candidates on a page of a phrase
    Share, Budget,           \* fetches of a harvest: surely ours, and at most
    StreakBound              \* bound: a dry streak stops growing here

Phrases == 0 .. GridSize - 1
Pages == 1 .. PageCap
Keys == Phrases \X Pages
Candidates == Websites \cup Channels
Engines == {"ddg", "searxng"}
Horizon == Ttl * MultCap

ASSUME SizesAssumption ==
    /\ GridSize \in Nat \ {0} /\ BlockSize \in 1 .. GridSize
    /\ PageCap \in Nat \ {0} /\ Ttl \in Nat \ {0} /\ MultCap \in Nat \ {0}
    /\ ColdTries \in Nat /\ Protected \subseteq Phrases

ASSUME CandidatesAssumption ==
    /\ Websites \cap Channels = {}
    /\ Providers \in Seq(Engines) /\ IsInjective(Providers)
    /\ Serp \in [Engines -> [Keys -> Seq(Candidates)]]

\* Even interleaved with the other feeds (at most five, against a budget of
\* 80), a harvest reaches as many candidates as one result page holds (7).
ASSUME BudgetAssumption ==
    /\ Share \in Nat \ {0} /\ Budget \in Nat /\ Share <= Budget
    /\ \A by \in Engines, k \in Keys : Len(Serp[by][k]) <= Share

ASSUME StreakAssumption ==
    StreakBound \in Nat /\ MultCap <= 2 ^ (StreakBound - ColdTries + 1)

VARIABLES
    cache,       \* cache[k]: the cached result of a key, or None
    line,        \* the cached keys, oldest first
    pages,       \* pages[p]: page to ask for next, and dry pages before it
    stats,       \* stats[p]: tries, whether the EWMA is above dry, dry streak
    gridCursor,
    backoff,     \* DuckDuckGo is in its global backoff
    visited,     \* websites the registry has seen within the revisit cooldown
    pass,        \* the pass in progress, in memory
    examined,    \* history: candidates of k examined since k was cached
    silence      \* history: answers in a row that brought p nothing new

vars == <<cache, line, pages, stats, gridCursor, backoff, visited, pass, examined, silence>>

None == [age |-> Horizon, harvested |-> TRUE, found |-> <<>>]

\* A candidate of the pass: the key it came for, and through what.
Finds == [cand : Candidates, key : Keys, by : {"cache"} \cup Engines]

\* The memory of the crawler when no pass is in progress.
Ended(how) == [at |-> how, batch |-> <<>>, next |-> 0, open |-> {}, calls |-> <<>>,
            served |-> {}, sliceOk |-> FALSE, finds |-> <<>>, covered |-> FALSE]

Resting == Ended("idle")

\* No pass is in progress, whatever became of the last one.
Between == pass.at \in {"idle", "failed"}

AtMost(a, b) == IF a < b THEN a ELSE b

\* The elements of a sequence that are in S, in their order.
SelectIn(s, S) == FlattenSeq([i \in DOMAIN s |-> IF s[i] \in S THEN <<s[i]>> ELSE <<>>])

-----------------------------------------------------------------------------
(* The query cache.                                                        *)

Fresh(k, ttl) == k \in ToSet(line) /\ cache[k].age < ttl

CachePut(k, found) ==
    /\ cache' = [cache EXCEPT ![k] = [age |-> 0, harvested |-> FALSE, found |-> found]]
    /\ line' = Append(SelectIn(line, Keys \ {k}), k)
    /\ examined' = [examined EXCEPT ![k] = {}]

Unharvested(k) == Fresh(k, Ttl) /\ ~ cache[k].harvested

\* What drain brings back, oldest result first.
Drained ==
    LET Of(k) == [i \in 1 .. Len(cache[k].found) |->
                    [cand |-> cache[k].found[i], key |-> k, by |-> "cache"]]
    IN  FlattenSeq([i \in DOMAIN line |-> IF Unharvested(line[i]) THEN Of(line[i]) ELSE <<>>])

-----------------------------------------------------------------------------
(* Which phrases are due.                                                  *)

Key(p) == <<p, pages[p].page>>

\* Doubled[n] is 2^n.
Doubled[n \in 0 .. StreakBound + 1] == IF n = 0 THEN 1 ELSE 2 * Doubled[n - 1]

\* The factor of the adaptive TTL: 1 for a young or productive phrase.
Backoff(p) ==
    LET s == stats[p]
    IN  IF p \in Protected \/ s.tries < ColdTries \/ s.warm \/ s.streak < ColdTries
        THEN 1
        ELSE AtMost(MultCap, Doubled[s.streak - ColdTries + 1])

Due(p) == ~ Fresh(Key(p), Ttl * Backoff(p))

\* The due phrases in the order of the walk from the cursor, once around.
Walk ==
    SelectIn([i \in 1 .. GridSize |-> (gridCursor + i - 1) % GridSize], {p \in Phrases : Due(p)})

Batch == SubSeq(Walk, 1, AtMost(BlockSize, Len(Walk)))

\* Mutant: the walk goes on at the last phrase of the batch, not after it.
AfterLast(batch) == IF Len(batch) < BlockSize THEN gridCursor ELSE Last(batch)

\* A walk that finds too few phrases has gone all the way around.
After(batch) ==
    IF Len(batch) < BlockSize THEN gridCursor ELSE (Last(batch) + 1) % GridSize

-----------------------------------------------------------------------------
(* What a finished search leaves behind.                                   *)

\* Mutant: the page after the last one is asked for.
PageNoCap(old, new) ==
    IF new THEN [page |-> old.page + 1, dry |-> 0]
    ELSE IF old.dry = 1 \/ old.page >= PageCap THEN [page |-> 1, dry |-> 0]
    ELSE [page |-> old.page + 1, dry |-> 1]

\* record_page_result: a dry page is followed by one more, not by two.
PageAfter(old, new) ==
    IF new THEN [page |-> IF old.page < PageCap THEN old.page + 1 ELSE 1, dry |-> 0]
    ELSE IF old.dry = 1 \/ old.page >= PageCap THEN [page |-> 1, dry |-> 0]
    ELSE [page |-> old.page + 1, dry |-> 1]

\* record_yields: something new lifts the EWMA above dry (alpha 0.3 against
\* 0.05), and it may stay there for some dry passes.
StatsAfter(old, new, stays) ==
    [tries |-> AtMost(old.tries + 1, ColdTries),
     warm |-> new \/ (old.warm /\ stays),
     streak |-> IF new THEN 0 ELSE AtMost(old.streak + 1, StreakBound)]

Productive(p) == \E i \in DOMAIN pass.finds :
    pass.finds[i].by # "cache" /\ pass.finds[i].key[1] = p

\* Mutant: a phrase nobody answered for counts as one without results.
WholeBatch == ToSet(pass.batch)

\* The phrases whose productivity is accounted: a blocked or failed search
\* observed nothing.
Accounted == ToSet(pass.batch) \cap pass.served

\* A search succeeded if a provider did: DuckDuckGo is not backing off,
\* SearXNG answered its last call.
Succeeded ==
    \/ "ddg" \in pass.open /\ ~ backoff
    \/ "searxng" \in pass.open /\ pass.sliceOk

-----------------------------------------------------------------------------
Init ==
    /\ cache = [k \in Keys |-> None]
    /\ line = <<>>
    /\ pages = [p \in Phrases |-> [page |-> 1, dry |-> 0]]
    /\ stats = [p \in Phrases |-> [tries |-> 0, warm |-> FALSE, streak |-> 0]]
    /\ gridCursor = 0
    /\ backoff = FALSE
    /\ visited = {}
    /\ pass = Resting
    /\ examined = [k \in Keys |-> {}]
    /\ silence = [p \in Phrases |-> 0]

\* The available providers, one after the other, ask for all of the batch.
Calls(open) ==
    LET plans == SelectIn(Providers, open)
        CallsOf(by) == [i \in 1 .. Len(Batch) |-> [by |-> by, phrase |-> Batch[i]]]
    IN  FlattenSeq([i \in DOMAIN plans |-> CallsOf(plans[i])])

\* SearchPass.run up to its first call: drain, choose the batch, and let each
\* available provider ask for all of it.
StartSearch(open) ==
    /\ Between
    /\ open # {} /\ open \subseteq ToSet(Providers)
    /\ "ddg" \in ToSet(Providers) => ("ddg" \in open <=> ~ backoff)
    /\ pass' = [Resting EXCEPT
          !.at = "search", !.batch = Batch, !.next = After(Batch), !.open = open,
          !.calls = Calls(open), !.finds = Drained]
    /\ UNCHANGED <<cache, line, pages, stats, gridCursor, backoff, visited, examined, silence>>

\* No provider is available: only what the cache still holds is harvested.
StartDrain ==
    /\ Between
    /\ "ddg" \in ToSet(Providers) => backoff
    /\ pass' = [Resting EXCEPT !.at = "harvest", !.finds = Drained]
    /\ UNCHANGED <<cache, line, pages, stats, gridCursor, backoff, visited, examined, silence>>

\* One call returns: "found" joins the candidates of the pass, without what
\* this provider has found for an earlier phrase of the batch.
Return(found, served) ==
    LET call == Head(pass.calls)
        Seen(i) ==
            \/ \E j \in DOMAIN pass.finds :
                  pass.finds[j].by = call.by /\ pass.finds[j].cand = found[i]
            \/ \E j \in 1 .. i - 1 : found[j] = found[i]
        new == SelectIn([i \in DOMAIN found |-> i], {i \in DOMAIN found : ~ Seen(i)})
    IN  pass' = [pass EXCEPT
          !.calls = Tail(@),
          !.served = IF served THEN @ \cup {call.phrase} ELSE @,
          !.sliceOk = IF call.by = "searxng" THEN served ELSE @,
          !.finds = @ \o [i \in DOMAIN new |->
              [cand |-> found[new[i]], key |-> Key(call.phrase), by |-> call.by]]]

Asking(by) ==
    /\ pass.at = "search" /\ pass.calls # <<>>
    /\ Head(pass.calls).by = by

\* DuckDuckGo has results, maybe none that is a candidate; SearchCache keeps
\* them.
DdgResults ==
    /\ Asking("ddg") /\ ~ backoff
    /\ \E found \in {Serp["ddg"][Key(Head(pass.calls).phrase)], <<>>} :
         /\ Return(found, TRUE)
         /\ CachePut(Key(Head(pass.calls).phrase), found)
    /\ UNCHANGED <<pages, stats, gridCursor, backoff, visited, silence>>

\* The backends have no results (served) or are blocked (not served): the
\* call is degraded and its outcome is not cached.  With no backend left the
\* provider backs off.
DdgDegraded ==
    /\ Asking("ddg") /\ ~ backoff
    /\ \E served \in BOOLEAN : Return(<<>>, served)
    /\ backoff' \in BOOLEAN
    /\ UNCHANGED <<cache, line, pages, stats, gridCursor, visited, examined, silence>>

\* The rest of a batch after the provider has backed off.
DdgBackedOff ==
    /\ Asking("ddg") /\ backoff
    /\ Return(<<>>, FALSE)
    /\ UNCHANGED <<cache, line, pages, stats, gridCursor, backoff, visited, examined, silence>>

\* SearXNG answers, or fails; there is no cache around it.
Searxng ==
    /\ Asking("searxng")
    /\ \/ \E found \in {Serp["searxng"][Key(Head(pass.calls).phrase)], <<>>} : Return(found, TRUE)
       \/ Return(<<>>, FALSE)
    /\ UNCHANGED <<cache, line, pages, stats, gridCursor, backoff, visited, examined, silence>>

\* The end of SearchPass.run.
EndSearch ==
    /\ pass.at = "search" /\ pass.calls = <<>>
    /\ pass' = [Resting EXCEPT !.at = "harvest", !.batch = pass.batch,
                               !.finds = pass.finds, !.covered = Succeeded]
    /\ IF Succeeded
       THEN /\ pages' = [p \in Phrases |->
                 IF p \in Accounted THEN PageAfter(pages[p], Productive(p)) ELSE pages[p]]
            /\ \E stays \in [Phrases -> BOOLEAN] :
                 stats' = [p \in Phrases |->
                    IF p \in Accounted THEN StatsAfter(stats[p], Productive(p), stays[p])
                                       ELSE stats[p]]
            /\ gridCursor' = pass.next
            /\ silence' = [p \in Phrases |->
                 IF p \notin ToSet(pass.batch) \/ p \notin pass.served THEN silence[p]
                 ELSE IF Productive(p) THEN 0 ELSE AtMost(silence[p] + 1, ColdTries)]
       ELSE UNCHANGED <<pages, stats, gridCursor, silence>>
    /\ UNCHANGED <<cache, line, backoff, visited, examined>>

-----------------------------------------------------------------------------
(* The harvest.                                                            *)

\* The candidates among the first n that are fetched: a website once and not
\* within its revisit cooldown, a channel every time.
Fetched(n) ==
    {i \in 1 .. n :
        LET c == pass.finds[i].cand
        IN  c \in Websites => /\ c \notin visited
                              /\ \A j \in 1 .. i - 1 : pass.finds[j].cand # c}

\* Mutant: a key is done once its first candidate was examined.
Begun(n) == {pass.finds[i].key : i \in 1 .. n}

\* Mutant: a candidate that was passed over does not count as examined.
AllFetched(n) ==
    {k \in Keys : /\ \E i \in 1 .. n : pass.finds[i].key = k
                  /\ \A i \in DOMAIN pass.finds :
                        pass.finds[i].key = k => i \in Fetched(n)}

\* The keys all of whose candidates are among the first n.
Consumed(n) ==
    {k \in Keys : /\ \E i \in 1 .. n : pass.finds[i].key = k
                  /\ \A i \in n + 1 .. Len(pass.finds) : pass.finds[i].key # k}

\* The budget, which other feeds use too, ends the harvest after n candidates.
Harvest(n) ==
    /\ pass.at = "harvest"
    /\ n \in AtMost(Share, Len(pass.finds)) .. Len(pass.finds)
    /\ n > 0 => Cardinality(Fetched(n - 1)) < Budget
    /\ visited' = visited \cup ({pass.finds[i].cand : i \in Fetched(n)} \cap Websites)
    /\ cache' = [k \in Keys |-> IF k \in ToSet(line) \cap Consumed(n)
                                THEN [cache[k] EXCEPT !.harvested = TRUE] ELSE cache[k]]
    /\ examined' = [k \in Keys |-> examined[k] \cup
                      (ToSet(cache[k].found) \cap {pass.finds[i].cand : i \in 1 .. n})]
    /\ pass' = Resting
    /\ UNCHANGED <<line, pages, stats, gridCursor, backoff, silence>>

\* The pass raises, or the crawler restarts: what it held in memory is lost.
PassFails ==
    /\ ~ Between
    /\ pass' = Ended("failed")
    /\ UNCHANGED <<cache, line, pages, stats, gridCursor, backoff, visited, examined, silence>>

\* A result older than every TTL is as good as none, and is forgotten here.
Tick ==
    /\ Between
    /\ LET Kept(k) == cache[k].age + 1 < Horizon
       IN  /\ line' = SelectIn(line, {k \in Keys : Kept(k)})
           /\ cache' = [k \in Keys |->
                IF Kept(k) THEN [cache[k] EXCEPT !.age = @ + 1] ELSE None]
           /\ examined' = [k \in Keys |-> IF Kept(k) THEN examined[k] ELSE {}]
    /\ backoff' \in {backoff, FALSE}
    /\ visited' \in SUBSET visited
    /\ UNCHANGED <<pages, stats, gridCursor, pass, silence>>

Start == StartDrain \/ \E open \in SUBSET ToSet(Providers) : StartSearch(open)
Ask == DdgResults \/ DdgDegraded \/ DdgBackedOff \/ Searxng
HarvestSome == \E n \in 0 .. Len(pass.finds) : Harvest(n)

Next == Start \/ Ask \/ EndSearch \/ HarvestSome \/ PassFails \/ Tick

Spec == Init /\ [][Next]_vars

\* The loop of the crawler keeps starting passes and a pass goes on.  Nothing
\* is assumed of the clock, of the engines, or against failures.
FairSpec ==
    Spec /\ WF_vars(Start) /\ WF_vars(Ask) /\ WF_vars(EndSearch) /\ WF_vars(HarvestSome)

-----------------------------------------------------------------------------
(* Properties.                                                             *)

\* The fields that the state file and the pass can hold.  In particular no
\* page past the cap is ever asked for, and at most one dry page is on record
\* (record_page_result).
TypeOK ==
    /\ \A k \in Keys : /\ cache[k].age \in 0 .. Horizon /\ cache[k].harvested \in BOOLEAN
                       /\ cache[k].found \in {Serp["ddg"][k], <<>>}
    /\ ToSet(line) \subseteq Keys /\ IsInjective(line)
    /\ pages \in [Phrases -> [page : Pages, dry : {0, 1}]]
    /\ stats \in [Phrases -> [tries : 0 .. ColdTries, warm : BOOLEAN,
                              streak : 0 .. StreakBound]]
    /\ gridCursor \in Phrases /\ backoff \in BOOLEAN /\ visited \subseteq Websites
    /\ pass.at \in {"idle", "search", "harvest", "failed"}
    /\ pass.served \subseteq ToSet(pass.batch) /\ ToSet(pass.batch) \subseteq Phrases
    /\ ToSet(pass.finds) \subseteq Finds
    /\ examined \in [Keys -> SUBSET Candidates] /\ silence \in [Phrases -> 0 .. ColdTries]

\* While a cached result is still drained, it is marked harvested only after
\* every one of its candidates was examined: however the budget cuts the
\* passes, whichever passes fail, and although a candidate that several
\* phrases found is attributed to one of them (_mark_consumed_search_phrases).
\* It takes DuckDuckGo to be asked before SearXNG, as it is by default.
CachedUntilExamined ==
    \A k \in Keys :
        cache[k].harvested /\ Fresh(k, Ttl) => ToSet(cache[k].found) \subseteq examined[k]

\* The adaptive TTL grows only for a phrase that was really answered with
\* nothing new ColdTries times in a row; throttled, failed and cut short
\* passes suppress nothing, and a protected phrase is never suppressed
\* (record_yields, effective_ttl, _effective_ttl_for).
SuppressedOnlyBySilence ==
    \A p \in Phrases : Backoff(p) > 1 => silence[p] >= ColdTries /\ p \notin Protected

\* Once passes stop failing, every cached result that has candidates is
\* harvested, or grows too old to be drained (unharvested,
\* _mark_consumed_search_phrases).
CachedFinished ==
    <>[](pass.at # "failed") =>
        \A k \in Keys :
            Unharvested(k) /\ cache[k].found # <<>> ~> ~ Unharvested(k)

\* While time goes on and passes keep succeeding, every phrase of the grid is
\* asked for again and again: the walk starves none, however short the TTL
\* and however dry the phrase (_collect_due, set_grid_cursor).
EachPhraseSearched ==
    []<><<Tick>>_vars /\ []<>(pass.covered) =>
        \A p \in Phrases : []<>(p \in ToSet(pass.batch))
=============================================================================
