-------------------------- MODULE SchedulerProofs --------------------------
(***************************************************************************)
(* Theorems about the loop, for any times, budgets and sources.  The loop  *)
(* sleeps no time only when a degraded pass outlived the DuckDuckGo        *)
(* backoff it waited for; then DuckDuckGo can be used, the next pass is    *)
(* not degraded, and passes that are not degraded sleep.  So the theorem   *)
(* needs DuckDuckGo among the providers: without it there is no backoff to *)
(* wait for and the argument breaks, as the run SchedulerBusyLoop shows.   *)
(***************************************************************************)
EXTENDS Scheduler, TLAPS

\* Between a sleep of no time and the next one no pass is degraded.
AwakeAndSearching ==
    spins > 0 => IF pc = "asleep" THEN backoff = 0 /\ sleep = 0
                                  ELSE ~ degraded

IInv == TypeOK /\ spins < 2 /\ AwakeAndSearching

\* The usual sleep is never empty: the floor MIN_ACTIVE_DELAY (scheduler.py:6).
LEMMA UsualSleepPositive == UsualSleep \in Nat \ {0}
BY SchedulerAssumption DEF UsualSleep, Longer

LEMMA HardOverdueType == HardOverdue \in Nat
BY SchedulerAssumption DEF HardOverdue

LEMMA InitType == Init => TypeOK
<1> SUFFICES ASSUME Init PROVE TypeOK
  OBVIOUS
<1>1. age \in {Never} \cup (0 .. HardOverdue)
  BY HardOverdueType DEF Init
<1>2. degraded \in BOOLEAN
  BY DEF Init
<1>3. /\ pc \in {"asleep", "first", "discover", "passive"} /\ sleep \in Nat
      /\ backoff \in 0 .. MaxBackoff /\ cooldown \in 0 .. MaxCooldown
      /\ restarts \in 0 .. MaxRestarts /\ spins \in 0 .. 2
  BY SchedulerAssumption DEF Init
<1>4. /\ source \in [Sources -> {"absent", "new", "crawled"}]
      /\ owed \in [Sources -> 0 .. MaxSkip] /\ saved \in [Sources -> 0 .. MaxSkip]
  BY SchedulerAssumption DEF Init
<1> QED
  BY <1>1, <1>2, <1>3, <1>4 DEF TypeOK

\* Paying for a skipped crawl keeps the books in range (domain_registry.py:110).
LEMMA PayByType ==
    ASSUME owed \in [Sources -> 0 .. MaxSkip], NEW crawled, PayBy(crawled)
    PROVE  owed' \in [Sources -> 0 .. MaxSkip]
BY SchedulerAssumption DEF PayBy

\* A pass that falls asleep after a time leaves the loop's variables typed.
LEMMA FallAsleepType ==
    ASSUME NEW time \in Nat, spins \in 0 .. 2, FallAsleep(time)
    PROVE  /\ pc' = "asleep" /\ degraded' \in BOOLEAN /\ sleep' = time
           /\ spins' \in 0 .. 2
<1>1. pc' = "asleep" /\ degraded' \in BOOLEAN /\ sleep' = time
  BY DEF FallAsleep
<1>2. spins' = IF time = 0 THEN Shorter(spins + 1, 2) ELSE 0
  BY DEF FallAsleep
<1>3. Shorter(spins + 1, 2) \in 0 .. 2
  BY DEF Shorter
<1> QED
  BY <1>1, <1>2, <1>3

LEMMA DegradedSleepType ==
    ASSUME backoff' \in 0 .. MaxBackoff
    PROVE  /\ DegradedSleep \in Nat
           /\ DegradedSleep = 0 => backoff' = 0
BY SchedulerAssumption DEF DegradedSleep, Shorter

LEMMA TypeKept == TypeOK /\ [Next]_vars => TypeOK'
<1> SUFFICES ASSUME TypeOK, [Next]_vars PROVE TypeOK'
  OBVIOUS
<1> USE SchedulerAssumption DEF search, hosts
<1>0. UsualSleep \in Nat
  BY UsualSleepPositive
<1>1. CASE Wake
  BY <1>1 DEF Wake, TypeOK
<1>2. CASE NoFirstCrawl
  BY <1>2 DEF NoFirstCrawl, TypeOK
<1>3. ASSUME NEW lost \in SUBSET Sources, FirstCrawl(lost)
      PROVE  TypeOK'
  <2>1. owed' \in [Sources -> 0 .. MaxSkip]
    BY <1>3, PayByType DEF FirstCrawl, TypeOK
  <2>2. source' \in [Sources -> {"absent", "new", "crawled"}]
    BY <1>3 DEF FirstCrawl, TypeOK
  <2> QED
    BY <1>3, <2>1, <2>2 DEF FirstCrawl, TypeOK
<1>4. CASE Discover
  <2>1. backoff' \in 0 .. MaxBackoff /\ cooldown' \in 0 .. MaxCooldown
    BY <1>4 DEF Discover, TypeOK
  <2>2. UNCHANGED <<age, source, owed, restarts>> /\ saved' = owed
    BY <1>4 DEF Discover
  <2>3. /\ pc' \in {"asleep", "passive"} /\ degraded' \in BOOLEAN
        /\ sleep' \in Nat /\ spins' \in 0 .. 2
    <3>1. CASE degraded /\ Due
      BY <1>4, <3>1 DEF Discover, TypeOK
    <3>2. CASE ~ (degraded /\ Due)
      <4> DEFINE time == IF degraded THEN DegradedSleep ELSE UsualSleep
      <4>1. FallAsleep(time)
        BY <1>4, <3>2 DEF Discover
      <4>2. time \in Nat
        BY <1>0, <2>1, DegradedSleepType
      <4>3. spins \in 0 .. 2
        BY DEF TypeOK
      <4> HIDE DEF time
      <4> QED
        BY <4>1, <4>2, <4>3, FallAsleepType
    <3> QED
      BY <3>1, <3>2
  <2> QED
    BY <2>1, <2>2, <2>3 DEF TypeOK
<1>5. ASSUME NEW lost \in SUBSET Sources, Passive(lost)
      PROVE  TypeOK'
  <2>1. /\ UNCHANGED <<backoff, cooldown, restarts>> /\ saved' = owed' /\ age' = 0
    BY <1>5 DEF Passive
  <2>2. owed' \in [Sources -> 0 .. MaxSkip]
    BY <1>5, PayByType DEF Passive, TypeOK
  <2>3. source' \in [Sources -> {"absent", "new", "crawled"}]
    BY <1>5 DEF Passive, TypeOK
  <2>4. pc' = "asleep" /\ degraded' \in BOOLEAN /\ sleep' \in Nat /\ spins' \in 0 .. 2
    <3> DEFINE time == IF degraded THEN DegradedSleep ELSE UsualSleep
    <3>1. FallAsleep(time)
      BY <1>5 DEF Passive
    <3>2. time \in Nat
      BY <1>0, <2>1, DegradedSleepType DEF TypeOK
    <3>3. spins \in 0 .. 2
      BY DEF TypeOK
    <3> HIDE DEF time
    <3> QED
      BY <3>1, <3>2, <3>3, FallAsleepType
  <2>5. 0 \in 0 .. HardOverdue
    BY HardOverdueType
  <2> QED
    BY <2>1, <2>2, <2>3, <2>4, <2>5 DEF TypeOK
<1>6. CASE PassFails
  <2>1. spins \in 0 .. 2
    BY DEF TypeOK
  <2>2. pc' = "asleep" /\ degraded' \in BOOLEAN /\ sleep' \in Nat /\ spins' \in 0 .. 2
    BY <1>0, <1>6, <2>1, FallAsleepType DEF PassFails
  <2> QED
    BY <1>6, <2>2 DEF PassFails, TypeOK
<1>7. ASSUME NEW s \in Sources, NEW k \in 0 .. MaxSkip, AddSource(s, k)
      PROVE  TypeOK'
  BY <1>7 DEF AddSource, TypeOK
<1>8. CASE Tick
  <2>1. /\ backoff' \in 0 .. MaxBackoff /\ cooldown' \in 0 .. MaxCooldown
        /\ sleep' \in Nat
    BY <1>8 DEF Tick, Less, TypeOK
  <2>2. age' \in {Never} \cup (0 .. HardOverdue)
    BY <1>8, HardOverdueType DEF Tick, Shorter, TypeOK, Never
  <2> QED
    BY <1>8, <2>1, <2>2 DEF Tick, TypeOK
<1>9. CASE Restart
  <2>1. /\ pc' = "asleep" /\ sleep' = 0 /\ spins' = 0 /\ cooldown' = 0
        /\ owed' = saved /\ UNCHANGED <<backoff, age, source, saved>>
    BY <1>9 DEF Restart
  <2>2. restarts' \in 0 .. MaxRestarts
    BY <1>9 DEF Restart, TypeOK
  <2>3. degraded' \in BOOLEAN
    BY <1>9 DEF Restart
  <2> QED
    BY <2>1, <2>2, <2>3 DEF TypeOK
<1>10. CASE UNCHANGED vars
  BY <1>10 DEF vars, TypeOK
<1> QED
  BY <1>1, <1>2, <1>3, <1>4, <1>5, <1>6, <1>7, <1>8, <1>9, <1>10
  DEF Next, FirstCrawlEnds, PassiveEnds

\* How the end of a pass counts: only a degraded one may sleep no time, and
\* only because the backoff is over.
LEMMA EndKeeps ==
    ASSUME IInv, pc # "asleep", backoff' \in 0 .. MaxBackoff,
           FallAsleep(IF degraded THEN DegradedSleep ELSE UsualSleep)
    PROVE  spins' < 2 /\ AwakeAndSearching'
<1> DEFINE time == IF degraded THEN DegradedSleep ELSE UsualSleep
<1>1. /\ pc' = "asleep" /\ sleep' = time
      /\ spins' = IF time = 0 THEN Shorter(spins + 1, 2) ELSE 0
  BY DEF FallAsleep
<1>2. CASE degraded
  <2>1. spins = 0
    BY <1>2 DEF IInv, AwakeAndSearching, TypeOK
  <2>2. time \in Nat /\ (time = 0 => backoff' = 0)
    BY <1>2, DegradedSleepType
  <2> HIDE DEF time
  <2> QED
    BY <1>1, <2>1, <2>2 DEF AwakeAndSearching, Shorter
<1>3. CASE ~ degraded
  <2>1. time \in Nat \ {0}
    BY <1>3, UsualSleepPositive
  <2> HIDE DEF time
  <2> QED
    BY <1>1, <2>1 DEF AwakeAndSearching
<1> QED
  BY <1>2, <1>3

LEMMA SpinsKept ==
    ASSUME "duckduckgo" \in Providers, IInv, [Next]_vars
    PROVE  spins' < 2 /\ AwakeAndSearching'
<1> USE SchedulerAssumption DEF search, hosts
<1>0. TypeOK'
  BY TypeKept DEF IInv
<1>1. CASE Wake
  <2>1. backoff = 0 => SearchAvailable
    BY DEF SearchAvailable, Available
  <2> QED
    BY <1>1, <2>1 DEF Wake, IInv, AwakeAndSearching, TypeOK
<1>2. CASE FirstCrawlEnds
  BY <1>2 DEF FirstCrawlEnds, NoFirstCrawl, FirstCrawl, IInv, AwakeAndSearching
<1>3. CASE Discover
  <2>1. CASE degraded /\ Due
    BY <1>3, <2>1 DEF Discover, IInv, AwakeAndSearching
  <2>2. CASE ~ (degraded /\ Due)
    <3>1. FallAsleep(IF degraded THEN DegradedSleep ELSE UsualSleep)
      BY <1>3, <2>2 DEF Discover
    <3>2. pc # "asleep" /\ backoff' \in 0 .. MaxBackoff
      BY <1>0, <1>3 DEF Discover, TypeOK
    <3> QED
      BY <3>1, <3>2, EndKeeps
  <2> QED
    BY <2>1, <2>2
<1>4. CASE PassiveEnds
  <2>1. FallAsleep(IF degraded THEN DegradedSleep ELSE UsualSleep)
    BY <1>4 DEF PassiveEnds, Passive
  <2>2. pc # "asleep" /\ backoff' \in 0 .. MaxBackoff
    BY <1>0, <1>4 DEF PassiveEnds, Passive, TypeOK
  <2> QED
    BY <2>1, <2>2, EndKeeps
<1>5. CASE PassFails
  BY <1>5, UsualSleepPositive DEF PassFails, FallAsleep, AwakeAndSearching
<1>6. CASE \E s \in Sources, k \in 0 .. MaxSkip : AddSource(s, k)
  BY <1>6 DEF AddSource, IInv, AwakeAndSearching
<1>7. CASE Tick
  BY <1>7 DEF Tick, Less, IInv, AwakeAndSearching, TypeOK
<1>8. CASE Restart
  BY <1>8 DEF Restart, AwakeAndSearching
<1>9. CASE UNCHANGED vars
  BY <1>9 DEF vars, IInv, AwakeAndSearching
<1> QED
  BY <1>1, <1>2, <1>3, <1>4, <1>5, <1>6, <1>7, <1>8, <1>9 DEF Next

-----------------------------------------------------------------------------

\* The loop's variables keep their types in every reachable state.
THEOREM TypeCorrect == Spec => []TypeOK
BY InitType, TypeKept, PTL DEF Spec

\* With DuckDuckGo among the providers the loop never runs two passes in a
\* row without sleeping (scheduler.py:6), whatever backoffs and cooldowns the
\* searches leave, whichever calls fail and however often it is restarted.
THEOREM LoopSleeps ==
    ASSUME "duckduckgo" \in Providers
    PROVE  Spec => []NoBusyLoop
<1>1. Init => IInv
  BY InitType DEF Init, IInv, AwakeAndSearching
<1>2. IInv /\ [Next]_vars => IInv'
  BY SpinsKept, TypeKept DEF IInv
<1>3. IInv => NoBusyLoop
  BY DEF IInv, NoBusyLoop
<1> QED
  BY <1>1, <1>2, <1>3, PTL DEF Spec
=============================================================================
