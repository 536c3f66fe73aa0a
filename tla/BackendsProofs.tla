--------------------------- MODULE BackendsProofs ---------------------------
(***************************************************************************)
(* Theorems about the rotating provider, for any pool, any times and any   *)
(* answers of the backends.                                                *)
(*                                                                         *)
(* The inductive invariant joins what each property needs: the deadlines   *)
(* of one backend are ordered (HealthSound), the global backoff covers the *)
(* wait for some backend and no call runs during it (BackoffCovered), a    *)
(* dead backend's next trial is as far away as its last failure is recent  *)
(* (TrialsApart), and a backend passed over k times is at most Size-1-k    *)
(* places ahead of the cursor (RotationAdvances).                          *)
(***************************************************************************)
EXTENDS Backends, TLAPS

\* What is left until b can be used again, if nothing happens to it.
Wait(b) ==
    IF Selectable(b) THEN 0
    ELSE IF quarantine[b] > 0 THEN reprobe[b] ELSE cooldown[b]

HealthSound ==
    \A b \in Pool :
        /\ reprobe[b] <= quarantine[b]
        /\ quarantine[b] > 0 => Dead(fails[b])
        /\ Dead(fails[b]) => cooldown[b] <= quarantine[b]

BackoffCovered ==
    backoff > 0 => /\ call = Idle
                   /\ \E b \in Pool : Wait(b) <= backoff

TrialsApart ==
    \A b \in Pool : Dead(fails[b]) => since[b] + reprobe[b] >= ReprobeTime

RotationAdvances ==
    \A b \in Pool : passed[b] + Steps(b, cursor) <= Size - 1

IInv ==
    /\ TypeOK
    /\ HealthSound
    /\ BackoffCovered
    /\ TrialsApart
    /\ RotationAdvances

-----------------------------------------------------------------------------
(* Facts about the helpers.                                                *)

\* After a failure the counter stays in its range, does not fall, and what
\* was dead stays dead (search_state.py:103).
LEMMA NextFails ==
    ASSUME NEW n \in 0 .. FailsBound
    PROVE  LET f == Shorter(n + 1, FailsBound)
           IN  /\ f \in 0 .. FailsBound
               /\ n <= f
               /\ Dead(n) => Dead(f)
<1>1. Shorter(n + 1, FailsBound) \in 0 .. FailsBound /\ n <= Shorter(n + 1, FailsBound)
  BY BoundAssumption DEF Shorter
<1> QED
  BY <1>1, BoundAssumption DEF Dead

\* The rotation after a take: every backend is at most Size-1 places ahead,
\* and one that was further ahead than the backend taken has come nearer by
\* at least one place (providers.py:158-169).
LEMMA StepsBounded ==
    ASSUME NEW b \in Pool, NEW c \in Pool
    PROVE  Steps(b, c) \in 0 .. Size - 1
BY SizeAssumption DEF Steps, Pool

LEMMA StepsAdvance ==
    ASSUME NEW b \in Pool, NEW o \in Pool, NEW c \in Pool,
           b # o, Steps(b, c) <= Steps(o, c)
    PROVE  /\ After(b) \in Pool
           /\ Steps(o, After(b)) + 1 <= Steps(o, c)
BY SizeAssumption DEF Steps, Pool, After

-----------------------------------------------------------------------------
(* The invariant holds initially and is kept by every action.              *)

LEMMA InitHolds == Init => IInv
<1> SUFFICES ASSUME Init PROVE IInv
  OBVIOUS
<1> USE SizeAssumption, TimesAssumption, BoundAssumption
<1>1. TypeOK
  BY DEF Init, TypeOK, Pool, Calls, Idle, Nobody
<1>2. HealthSound
  BY DEF Init, HealthSound, Dead
<1>3. BackoffCovered
  BY DEF Init, BackoffCovered
<1>4. TrialsApart
  BY DEF Init, TrialsApart
<1>5. RotationAdvances
  BY DEF Init, RotationAdvances, Steps, Pool
<1> QED
  BY <1>1, <1>2, <1>3, <1>4, <1>5 DEF IInv

LEMMA TakeKeeps ==
    ASSUME IInv, NEW b \in Pool, Take(b)
    PROVE  IInv'
<1> USE SizeAssumption, TimesAssumption, BoundAssumption
<1>1. UNCHANGED <<health, backoff, since>> /\ backoff = 0
  BY DEF IInv, Take, MayChoose, BackoffCovered, Idle, TypeOK, Calls
<1>2. TypeOK'
  <2>1. call' \in Calls
    BY DEF IInv, TypeOK, Take, MayChoose, AttemptsLeft, Calls
  <2>2. passed' \in [Pool -> 0 .. Size]
    BY DEF IInv, TypeOK, Take, Shorter
  <2>3. cursor' \in Pool
    BY DEF Take, After, Pool
  <2> QED
    BY <1>1, <2>1, <2>2, <2>3 DEF IInv, TypeOK, health
<1>3. HealthSound'
  BY <1>1 DEF IInv, HealthSound, health
<1>4. BackoffCovered'
  BY <1>1 DEF BackoffCovered
<1>5. TrialsApart'
  BY <1>1 DEF IInv, TrialsApart, health
<1>6. RotationAdvances'
  <2> SUFFICES ASSUME NEW o \in Pool
               PROVE  passed'[o] + Steps(o, cursor') <= Size - 1
    BY DEF RotationAdvances
  <2>1. cursor' = After(b) /\ cursor \in Pool /\ cursor' \in Pool
    BY DEF IInv, TypeOK, Take, After, Pool
  <2>2. CASE o = b \/ ~ Selectable(o)
    <3>1. passed'[o] = 0
      BY <2>2 DEF Take
    <3>2. Steps(o, cursor') \in 0 .. Size - 1
      BY <2>1, StepsBounded
    <3> QED
      BY <3>1, <3>2
  <2>3. CASE o # b /\ Selectable(o)
    <3>1. passed'[o] <= passed[o] + 1 /\ passed[o] \in Nat /\ passed'[o] \in Nat
      BY <2>3 DEF Take, IInv, TypeOK, Shorter
    <3>2. Steps(o, After(b)) + 1 <= Steps(o, cursor)
      BY <2>1, <2>3, StepsAdvance DEF Take
    <3>3. /\ Steps(o, cursor) \in 0 .. Size - 1
          /\ Steps(o, After(b)) \in 0 .. Size - 1
      BY <2>1, StepsBounded
    <3>4. passed[o] + Steps(o, cursor) <= Size - 1
      BY DEF IInv, RotationAdvances
    <3> QED
      BY <2>1, <3>1, <3>2, <3>3, <3>4
  <2> QED
    BY <2>2, <2>3
<1> QED
  BY <1>2, <1>3, <1>4, <1>5, <1>6 DEF IInv

LEMMA ExhaustedKeeps ==
    ASSUME IInv, Exhausted
    PROVE  IInv'
<1> USE SizeAssumption, TimesAssumption, BoundAssumption
<1>1. UNCHANGED <<health, cursor, since, passed>> /\ call' = Idle
  BY DEF Exhausted
<1>2. PICK b \in Pool : backoff' = Longer(Floor, Remaining(b))
  BY DEF Exhausted, SoonestRecovery
<1>3. Remaining(b) \in Nat /\ Remaining(b) = Wait(b)
  <2>1. ~ Selectable(b)
    BY DEF Exhausted, NoneSelectable
  <2>2. quarantine[b] \in Nat /\ reprobe[b] \in Nat /\ cooldown[b] \in Nat
    BY DEF IInv, TypeOK
  <2> QED
    BY <2>1, <2>2 DEF Remaining, Wait, Selectable, ReprobeDue
<1>4. backoff' \in Nat /\ Remaining(b) <= backoff'
  BY <1>2, <1>3 DEF Longer
<1>5. TypeOK'
  BY <1>1, <1>4 DEF IInv, TypeOK, health, Idle, Calls
<1>6. Wait(b)' = Wait(b)
  BY <1>1 DEF Wait, Selectable, ReprobeDue, health
<1>7. BackoffCovered'
  BY <1>1, <1>3, <1>4, <1>6 DEF BackoffCovered
<1> QED
  BY <1>1, <1>5, <1>7
  DEF IInv, HealthSound, TrialsApart, RotationAdvances, health

\* What a call of record_success leaves of the invariant of the health.
LEMMA SuccessKeeps ==
    ASSUME IInv, call.at # Nobody, RecordSuccess(call.at),
           UNCHANGED <<cursor, backoff, since, passed>>,
           call' \in Calls
    PROVE  IInv'
<1> USE SizeAssumption, TimesAssumption, BoundAssumption
<1>1. call.at \in Pool
  BY DEF IInv, TypeOK, Calls
<1>2. backoff = 0
  BY DEF IInv, TypeOK, BackoffCovered, Idle
<1>3. TypeOK'
  BY <1>1 DEF IInv, TypeOK, RecordSuccess
<1>4. HealthSound'
  <2> SUFFICES ASSUME NEW b \in Pool
               PROVE  /\ reprobe'[b] <= quarantine'[b]
                      /\ quarantine'[b] > 0 => Dead(fails'[b])
                      /\ Dead(fails'[b]) => cooldown'[b] <= quarantine'[b]
    BY DEF HealthSound
  <2>1. CASE b = call.at
    BY <2>1 DEF IInv, TypeOK, RecordSuccess
  <2>2. CASE b # call.at
    BY <2>2 DEF IInv, TypeOK, RecordSuccess, HealthSound
  <2> QED
    BY <2>1, <2>2
<1>5. BackoffCovered'
  BY <1>2 DEF BackoffCovered
<1>6. TrialsApart'
  <2> SUFFICES ASSUME NEW b \in Pool, Dead(fails'[b])
               PROVE  since'[b] + reprobe'[b] >= ReprobeTime
    BY DEF TrialsApart
  <2>1. b # call.at
    BY DEF IInv, TypeOK, RecordSuccess, Dead
  <2> QED
    BY <2>1 DEF IInv, TypeOK, RecordSuccess, TrialsApart
<1>7. RotationAdvances'
  BY DEF IInv, RotationAdvances
<1> QED
  BY <1>3, <1>4, <1>5, <1>6, <1>7 DEF IInv

LEMMA FailKeeps ==
    ASSUME IInv, Fail
    PROVE  IInv'
<1> USE SizeAssumption, TimesAssumption, BoundAssumption
<1> DEFINE at == call.at
           f == Shorter(fails[at] + 1, FailsBound)
<1>1. at \in Pool
  BY DEF IInv, TypeOK, Calls, Fail
<1>2. backoff = 0 /\ backoff' = 0
  BY DEF IInv, TypeOK, BackoffCovered, Idle, Fail
<1>3. /\ f \in 0 .. FailsBound
      /\ fails[at] \in 0 .. FailsBound
      /\ fails[at] <= f
      /\ Dead(fails[at]) => Dead(f)
  <2>1. fails[at] \in 0 .. FailsBound
    BY <1>1 DEF IInv, TypeOK
  <2> HIDE DEF at
  <2> QED
    BY <2>1, NextFails
<1>4. PICK d \in 0 .. Longest : cooldown' = [cooldown EXCEPT ![at] = d]
  BY DEF Fail, RecordBlock, Delays
<1>5. /\ fails' = [fails EXCEPT ![at] = f]
      /\ quarantine' = [quarantine EXCEPT ![at] = IF Dead(f) THEN QuarantineTime ELSE @]
      /\ reprobe' = [reprobe EXCEPT ![at] = IF Dead(f) THEN ReprobeTime ELSE @]
      /\ since' = [since EXCEPT ![at] = 0]
      /\ UNCHANGED <<cursor, backoff, passed>>
  BY DEF Fail, RecordBlock
<1>6. call' \in Calls
  BY DEF IInv, TypeOK, Fail, Calls, Nobody
<1> HIDE DEF at, f
<1>7. TypeOK'
  BY <1>1, <1>3, <1>4, <1>5, <1>6 DEF IInv, TypeOK
<1>8. HealthSound'
  <2> SUFFICES ASSUME NEW b \in Pool
               PROVE  /\ reprobe'[b] <= quarantine'[b]
                      /\ quarantine'[b] > 0 => Dead(fails'[b])
                      /\ Dead(fails'[b]) => cooldown'[b] <= quarantine'[b]
    BY DEF HealthSound
  <2>1. CASE b # at
    BY <1>4, <1>5, <2>1 DEF IInv, TypeOK, HealthSound
  <2>2. CASE b = at /\ Dead(f)
    BY <1>4, <1>5, <2>2 DEF IInv, TypeOK
  <2>3. CASE b = at /\ ~ Dead(f)
    <3>1. ~ Dead(fails[b])
      BY <1>3, <2>3
    <3>2. /\ quarantine'[b] = quarantine[b] /\ reprobe'[b] = reprobe[b]
          /\ fails'[b] = f
      BY <1>5, <2>3 DEF IInv, TypeOK
    <3> QED
      BY <3>1, <3>2, <2>3 DEF IInv, HealthSound
  <2> QED
    BY <2>1, <2>2, <2>3
<1>9. BackoffCovered'
  BY <1>2 DEF BackoffCovered
<1>10. TrialsApart'
  <2> SUFFICES ASSUME NEW b \in Pool, Dead(fails'[b])
               PROVE  since'[b] + reprobe'[b] >= ReprobeTime
    BY DEF TrialsApart
  <2>1. CASE b # at
    BY <1>5, <2>1 DEF IInv, TypeOK, TrialsApart
  <2>2. CASE b = at
    BY <1>1, <1>5, <2>2 DEF IInv, TypeOK
  <2> QED
    BY <2>1, <2>2
<1>11. RotationAdvances'
  BY <1>5 DEF IInv, RotationAdvances
<1> QED
  BY <1>7, <1>8, <1>9, <1>10, <1>11 DEF IInv

\* As time passes a wait gets shorter by one, or is over and stays over.
LEMMA TickShortens ==
    ASSUME IInv, Tick, NEW b \in Pool
    PROVE  /\ Wait(b) \in Nat /\ Wait(b)' \in Nat
           /\ Wait(b)' <= Less(Wait(b))
           /\ Wait(b)' = 0 => Selectable(b)'
<1> USE SizeAssumption, TimesAssumption, BoundAssumption
<1>1. /\ cooldown[b] \in Nat /\ quarantine[b] \in Nat /\ reprobe[b] \in Nat
      /\ reprobe[b] <= quarantine[b]
      /\ quarantine[b] > 0 => cooldown[b] <= quarantine[b]
  BY DEF IInv, TypeOK, HealthSound
<1>2. /\ cooldown'[b] = Less(cooldown[b])
      /\ quarantine'[b] = Less(quarantine[b])
      /\ reprobe'[b] = Less(reprobe[b])
  BY DEF Tick
<1> QED
  BY <1>1, <1>2 DEF Wait, Selectable, ReprobeDue, Less

LEMMA TickKeeps ==
    ASSUME IInv, Tick
    PROVE  IInv'
<1> USE SizeAssumption, TimesAssumption, BoundAssumption
<1>1. TypeOK'
  <2>1. cooldown' \in [Pool -> 0 .. Longest]
    BY DEF IInv, TypeOK, Tick, Less
  <2>2. quarantine' \in [Pool -> 0 .. QuarantineTime]
    BY DEF IInv, TypeOK, Tick, Less
  <2>3. reprobe' \in [Pool -> 0 .. ReprobeTime]
    BY DEF IInv, TypeOK, Tick, Less
  <2>4. since' \in [Pool -> 0 .. ReprobeTime]
    BY DEF IInv, TypeOK, Tick, Shorter
  <2> QED
    BY <2>1, <2>2, <2>3, <2>4 DEF IInv, TypeOK, Tick, Less
<1>2. HealthSound'
  <2> SUFFICES ASSUME NEW b \in Pool
               PROVE  /\ reprobe'[b] <= quarantine'[b]
                      /\ quarantine'[b] > 0 => Dead(fails[b])
                      /\ Dead(fails[b]) => cooldown'[b] <= quarantine'[b]
    BY DEF HealthSound, Tick
  <2>1. /\ cooldown[b] \in Nat /\ quarantine[b] \in Nat /\ reprobe[b] \in Nat
        /\ reprobe[b] <= quarantine[b]
        /\ quarantine[b] > 0 => Dead(fails[b])
        /\ Dead(fails[b]) => cooldown[b] <= quarantine[b]
    BY DEF IInv, TypeOK, HealthSound
  <2>2. /\ cooldown'[b] = Less(cooldown[b])
        /\ quarantine'[b] = Less(quarantine[b])
        /\ reprobe'[b] = Less(reprobe[b])
    BY DEF Tick
  <2> QED
    BY <2>1, <2>2 DEF Less
<1>3. BackoffCovered'
  <2> SUFFICES ASSUME backoff' > 0
               PROVE  call' = Idle /\ \E b \in Pool : Wait(b)' <= backoff'
    BY DEF BackoffCovered
  <2>1. backoff \in Nat /\ backoff > 0 /\ backoff' = backoff - 1
    BY DEF IInv, TypeOK, Tick, Less
  <2>2. PICK b \in Pool : Wait(b) <= backoff
    BY <2>1 DEF IInv, BackoffCovered
  <2>3. Wait(b)' <= backoff'
    BY <2>1, <2>2, TickShortens DEF Less
  <2> QED
    BY <2>1, <2>3 DEF IInv, BackoffCovered, Tick
<1>4. TrialsApart'
  <2> SUFFICES ASSUME NEW b \in Pool, Dead(fails[b])
               PROVE  since'[b] + reprobe'[b] >= ReprobeTime
    BY DEF TrialsApart, Tick
  <2>1. /\ since[b] \in Nat /\ reprobe[b] \in Nat
        /\ since[b] + reprobe[b] >= ReprobeTime
    BY DEF IInv, TypeOK, TrialsApart
  <2>2. /\ since'[b] = Shorter(since[b] + 1, ReprobeTime)
        /\ reprobe'[b] = Less(reprobe[b])
    BY DEF Tick
  <2> QED
    BY <2>1, <2>2 DEF Shorter, Less
<1>5. RotationAdvances'
  BY DEF IInv, RotationAdvances, Tick
<1> QED
  BY <1>1, <1>2, <1>3, <1>4, <1>5 DEF IInv

LEMMA NextKeeps == IInv /\ [Next]_vars => IInv'
<1> SUFFICES ASSUME IInv, [Next]_vars PROVE IInv'
  OBVIOUS
<1>1. CASE \E b \in Pool : Take(b)
  BY <1>1, TakeKeeps
<1>2. CASE Exhausted
  BY <1>2, ExhaustedKeeps
<1>3. CASE Answer
  <2>1. call' \in Calls
    BY <1>3 DEF Answer, Idle, Calls
  <2> QED
    BY <1>3, <2>1, SuccessKeeps DEF Answer
<1>4. CASE AnswerEmpty
  <2>1. call' \in Calls
    BY <1>4 DEF AnswerEmpty, Calls, IInv, TypeOK
  <2> QED
    BY <1>4, <2>1, SuccessKeeps DEF AnswerEmpty
<1>5. CASE Fail
  BY <1>5, FailKeeps
<1>6. CASE Restart
  BY <1>6 DEF Restart, IInv, TypeOK, HealthSound, BackoffCovered, TrialsApart,
     RotationAdvances, Wait, Selectable, ReprobeDue, health, Idle, Calls
<1>7. CASE Tick
  BY <1>7, TickKeeps
<1>8. CASE UNCHANGED vars
  BY <1>8 DEF vars, IInv, TypeOK, HealthSound, BackoffCovered, TrialsApart,
     RotationAdvances, Wait, Selectable, ReprobeDue
<1> QED
  BY <1>1, <1>2, <1>3, <1>4, <1>5, <1>6, <1>7, <1>8 DEF Next, Ask, Respond

-----------------------------------------------------------------------------
(* The theorems.                                                           *)

\* Every reachable state satisfies the inductive invariant.
THEOREM Invariance == Spec => []IInv
<1>1. IInv /\ [Next]_vars => IInv'
  BY NextKeeps
<1> QED
  BY InitHolds, <1>1, PTL DEF Spec

\* The health record, the cursor and the call keep their types: the cursor
\* always names a backend, no time left exceeds what the configuration sets.
THEOREM TypeCorrect == Spec => []TypeOK
<1>1. IInv => TypeOK
  BY DEF IInv
<1> QED
  BY Invariance, <1>1, PTL

\* A dead backend is tried at most once per ReprobeTime: record_block pushes
\* the next trial out at every failed one (search_state.py:113).
THEOREM DeadBackendsRarelyTried == Spec => []DeadRarelyTried
<1>1. IInv => DeadRarelyTried
  <2> SUFFICES ASSUME IInv, NEW b \in Pool, Dead(fails[b]), Selectable(b)
               PROVE  since[b] = ReprobeTime
    BY DEF DeadRarelyTried
  <2>1. /\ since[b] \in 0 .. ReprobeTime /\ reprobe[b] \in Nat /\ quarantine[b] \in Nat
        /\ since[b] + reprobe[b] >= ReprobeTime
        /\ reprobe[b] <= quarantine[b]
    BY DEF IInv, TypeOK, TrialsApart, HealthSound
  <2>2. reprobe[b] = 0
    BY <2>1 DEF Selectable, ReprobeDue
  <2> QED
    BY <2>1, <2>2, TimesAssumption
<1> QED
  BY Invariance, <1>1, PTL

\* Round-robin is fair among the usable backends: none is passed over Size
\* times in a row (providers.py:158).
THEOREM RotationIsFair == Spec => []NoOnePassedOver
<1>1. IInv => NoOnePassedOver
  <2> SUFFICES ASSUME IInv, NEW b \in Pool PROVE passed[b] < Size
    BY DEF NoOnePassedOver
  <2>1. passed[b] + Steps(b, cursor) <= Size - 1
    BY DEF IInv, RotationAdvances
  <2>2. Steps(b, cursor) \in 0 .. Size - 1
    BY StepsBounded DEF IInv, TypeOK
  <2>3. passed[b] \in Nat
    BY DEF IInv, TypeOK
  <2> QED
    BY <2>1, <2>2, <2>3, SizeAssumption
<1> QED
  BY Invariance, <1>1, PTL

\* The global backoff never ends on an empty pool: only time ends it, and by
\* then the wait it covers is over (search_state.py:132-146).
THEOREM BackoffLeavesSomeBackend == Spec => BackoffEndsInTime
<1>1. IInv /\ [Next]_vars => (backoff > 0 /\ backoff' = 0 => ~ NoneSelectable')
  <2> SUFFICES ASSUME IInv, [Next]_vars, backoff > 0, backoff' = 0
               PROVE  \E b \in Pool : Selectable(b)'
    BY DEF NoneSelectable
  <2>1. call = Idle
    BY DEF IInv, BackoffCovered
  <2>2. Tick
    <3>1. ~ (Answer \/ AnswerEmpty \/ Fail)
      BY <2>1 DEF Idle, Answer, AnswerEmpty, Fail
    <3>2. ~ (Exhausted \/ \E b \in Pool : Take(b))
      BY <2>1 DEF Idle, Exhausted, Take, MayChoose
    <3>3. ~ Restart /\ ~ UNCHANGED vars
      BY <2>1 DEF Restart, vars
    <3> QED
      BY <3>1, <3>2, <3>3 DEF Next, Ask, Respond
  <2>3. backoff = 1
    BY <2>2 DEF Tick, Less, IInv, TypeOK
  <2>4. PICK b \in Pool : Wait(b) <= backoff
    BY DEF IInv, BackoffCovered
  <2>5. Wait(b)' = 0
    BY <2>2, <2>3, <2>4, TickShortens DEF Less
  <2> QED
    BY <2>2, <2>5, TickShortens
<1> QED
  BY Invariance, <1>1, PTL DEF Spec, BackoffEndsInTime
=============================================================================
