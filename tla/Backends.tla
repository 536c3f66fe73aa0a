------------------------------ MODULE Backends ------------------------------
(***************************************************************************)
(* The rotating DuckDuckGo provider (crawler/discovery/providers.py) and   *)
(* the health it keeps of its backends in the persistent SearchState       *)
(* (crawler/discovery/search_state.py): exponential cooldowns, quarantine  *)
(* of a dead backend with rare re-probes, a rotation cursor, and a global  *)
(* backoff once no backend can be used.                                    *)
(*                                                                         *)
(* A backend is its position in the configured pool.  The deadlines of the *)
(* code (cooldown_until, ...) are the time that is left until them: 0 is a *)
(* deadline that has passed.  The state file is saved by every change, so  *)
(* a restart loses the call in progress and nothing else.                  *)
(***************************************************************************)
EXTENDS Integers

CONSTANTS
    Size,            \* number of backends in the pool
    Base, Cap,       \* first and longest cooldown, before jitter
    Jitter,          \* the largest jitter, in percent of the cooldown
    Threshold,       \* failures in a row that quarantine a backend; 0: never
    QuarantineTime, ReprobeTime,
    Floor,           \* shortest global backoff
    FailsBound       \* bound: the failure counter stops growing here

Longest == Cap + (Cap * Jitter) \div 100

(***************************************************************************)
(* The configuration is sane: a quarantine lasts at least as long as any   *)
(* cooldown and as the wait for a re-probe (24 h against 9 h and 6 h with  *)
(* the defaults of crawler/config.py).                                     *)
(***************************************************************************)
ASSUME SizeAssumption == Size \in Nat \ {0}

ASSUME TimesAssumption ==
    /\ Base \in Nat \ {0} /\ Cap \in Nat \ {0} /\ Jitter \in Nat
    /\ Floor \in Nat \ {0}
    /\ QuarantineTime \in Nat /\ ReprobeTime \in Nat \ {0}
    /\ Longest \in Nat
    /\ Longest <= QuarantineTime
    /\ ReprobeTime <= QuarantineTime

\* The counter may stop where neither the cooldown nor the quarantine
\* changes any more.
ASSUME BoundAssumption ==
    /\ Threshold \in Nat
    /\ FailsBound \in Nat \ {0}
    /\ Threshold <= FailsBound

VARIABLES
    fails,        \* fails[b]: failures in a row
    cooldown,     \* cooldown[b]: time left
    quarantine,   \* quarantine[b]: time left
    reprobe,      \* reprobe[b]: time left until the next trial
    cursor,       \* where the rotation goes on
    backoff,      \* time left until next_allowed_at
    call,         \* the call in progress
    since,        \* history: since[b], time since b last failed (to ReprobeTime)
    passed        \* history: passed[b], takes in a row that passed over a
                  \* usable b (to Size)

health == <<fails, cooldown, quarantine, reprobe>>
vars == <<fails, cooldown, quarantine, reprobe, cursor, backoff, call, since, passed>>

Pool == 0 .. Size - 1

\* A call tries at most two backends; "at" is the one it waits for.
Nobody == -1
Idle == [left |-> 0, at |-> Nobody]
Calls == [left : 0 .. 2, at : Pool \cup {Nobody}]

Shorter(a, b) == IF a < b THEN a ELSE b
Longer(a, b) == IF a < b THEN b ELSE a

-----------------------------------------------------------------------------
(* Health of a backend.                                                    *)

ReprobeDue(b) == quarantine[b] > 0 /\ reprobe[b] = 0

\* A quarantined backend waits for its trial, any other for its cooldown.
Selectable(b) ==
    IF quarantine[b] > 0 THEN ReprobeDue(b) ELSE cooldown[b] = 0

NoneSelectable == \A b \in Pool : ~ Selectable(b)

\* The cooldowns record_block may draw after the f-th failure in a row.
Delays(f) ==
    LET full == Shorter(Base * 2 ^ (f - 1), Cap)
    IN  {d \in 0 .. Longest : full <= d /\ 100 * d <= (100 + Jitter) * full}

RecordSuccess(b) ==
    /\ fails' = [fails EXCEPT ![b] = 0]
    /\ cooldown' = [cooldown EXCEPT ![b] = 0]
    /\ quarantine' = [quarantine EXCEPT ![b] = 0]
    /\ reprobe' = [reprobe EXCEPT ![b] = 0]

Dead(f) == Threshold > 0 /\ f >= Threshold

\* Mutant: a failed trial leaves the time of the next one alone.
RecordBlockOnce(b) ==
    LET f == Shorter(fails[b] + 1, FailsBound)
    IN  /\ fails' = [fails EXCEPT ![b] = f]
        /\ \E d \in Delays(f) : cooldown' = [cooldown EXCEPT ![b] = d]
        /\ quarantine' = [quarantine EXCEPT ![b] =
                            IF Dead(f) THEN QuarantineTime ELSE @]
        /\ reprobe' = [reprobe EXCEPT ![b] =
                         IF Dead(f) /\ quarantine[b] = 0 THEN ReprobeTime ELSE @]

RecordBlock(b) ==
    LET f == Shorter(fails[b] + 1, FailsBound)
    IN  /\ fails' = [fails EXCEPT ![b] = f]
        /\ \E d \in Delays(f) : cooldown' = [cooldown EXCEPT ![b] = d]
        /\ quarantine' = [quarantine EXCEPT ![b] =
                            IF Dead(f) THEN QuarantineTime ELSE @]
        /\ reprobe' = [reprobe EXCEPT ![b] =
                         IF Dead(f) THEN ReprobeTime ELSE @]

\* Mutant: the cooldown of a quarantined backend counts like any other.
RemainingCooldown(b) == cooldown[b]

\* What one backend contributes to soonest_recovery.
Remaining(b) ==
    IF quarantine[b] > 0 /\ reprobe[b] > 0 THEN reprobe[b] ELSE cooldown[b]

\* The global backoffs soonest_recovery may ask for: the least contribution,
\* at least the floor.
SoonestRecovery ==
    {Longer(Floor, Remaining(b)) :
        b \in {b \in Pool : \A o \in Pool : Remaining(b) <= Remaining(o)}}

-----------------------------------------------------------------------------
(* One call of the provider for one keyword.                               *)

Init ==
    /\ fails = [b \in Pool |-> 0]
    /\ cooldown = [b \in Pool |-> 0]
    /\ quarantine = [b \in Pool |-> 0]
    /\ reprobe = [b \in Pool |-> 0]
    /\ cursor = 0
    /\ backoff = 0
    /\ call = Idle
    /\ since = [b \in Pool |-> ReprobeTime]
    /\ passed = [b \in Pool |-> 0]

\* Mutant: the search for a backend always starts at the head of the pool.
StepsFromHead(b, from) == b

\* Places the rotation moves on from the cursor to reach b.
Steps(b, from) == IF b >= from THEN b - from ELSE b - from + Size

\* Mutant: the cursor stays on the backend that was used.
AfterStay(b) == b

After(b) == IF b + 1 = Size THEN 0 ELSE b + 1

\* A new call looks at the global backoff; a second attempt does not.
MayChoose == call.at = Nobody /\ (call.left > 0 \/ backoff = 0)

AttemptsLeft == IF call.left = 0 THEN 2 ELSE call.left

\* _take_next_healthy: the first usable backend from the cursor on.
Take(b) ==
    /\ MayChoose
    /\ Selectable(b)
    /\ \A o \in Pool : Selectable(o) => Steps(b, cursor) <= Steps(o, cursor)
    /\ cursor' = After(b)
    /\ call' = [left |-> AttemptsLeft - 1, at |-> b]
    /\ passed' = [o \in Pool |->
                    IF o = b \/ ~ Selectable(o) THEN 0
                    ELSE Shorter(passed[o] + 1, Size)]
    /\ UNCHANGED <<health, backoff, since>>

\* No backend can be used: the global backoff, and an empty, degraded answer.
Exhausted ==
    /\ MayChoose
    /\ NoneSelectable
    /\ backoff' \in SoonestRecovery
    /\ call' = Idle
    /\ UNCHANGED <<health, cursor, since, passed>>

\* The backend answers with results: the call is over.
Answer ==
    /\ call.at # Nobody
    /\ RecordSuccess(call.at)
    /\ call' = Idle
    /\ UNCHANGED <<cursor, backoff, since, passed>>

\* The backend has nothing for the keyword: healthy, but the next is asked.
AnswerEmpty ==
    /\ call.at # Nobody
    /\ RecordSuccess(call.at)
    /\ call' = [call EXCEPT !.at = Nobody]
    /\ UNCHANGED <<cursor, backoff, since, passed>>

\* The backend throttles, times out or breaks: it cools, the next is asked.
Fail ==
    /\ call.at # Nobody
    /\ RecordBlock(call.at)
    /\ call' = [call EXCEPT !.at = Nobody]
    /\ since' = [since EXCEPT ![call.at] = 0]
    /\ UNCHANGED <<cursor, backoff, passed>>

\* The process stops and starts again on the saved state.
Restart ==
    /\ call # Idle
    /\ call' = Idle
    /\ UNCHANGED <<health, cursor, backoff, since, passed>>

Less(t) == IF t > 0 THEN t - 1 ELSE 0

\* Time passes, between the calls and while a backend is being asked.
Tick ==
    /\ cooldown' = [b \in Pool |-> Less(cooldown[b])]
    /\ quarantine' = [b \in Pool |-> Less(quarantine[b])]
    /\ reprobe' = [b \in Pool |-> Less(reprobe[b])]
    /\ backoff' = Less(backoff)
    /\ since' = [b \in Pool |-> Shorter(since[b] + 1, ReprobeTime)]
    /\ UNCHANGED <<fails, cursor, call, passed>>

Ask == Exhausted \/ \E b \in Pool : Take(b)

Respond == Answer \/ AnswerEmpty \/ Fail

Next == Ask \/ Respond \/ Restart \/ Tick

Spec == Init /\ [][Next]_vars

(***************************************************************************)
(* The crawler searches forever, every request ends (the client has a      *)
(* timeout) and time passes.  Nothing is assumed of the answers.           *)
(***************************************************************************)
FairSpec == Spec /\ WF_vars(Tick) /\ WF_vars(Ask) /\ WF_vars(Respond)

-----------------------------------------------------------------------------
(* Properties.                                                             *)

TypeOK ==
    /\ fails \in [Pool -> 0 .. FailsBound]
    /\ cooldown \in [Pool -> 0 .. Longest]
    /\ quarantine \in [Pool -> 0 .. QuarantineTime]
    /\ reprobe \in [Pool -> 0 .. ReprobeTime]
    /\ cursor \in Pool
    /\ backoff \in Nat
    /\ call \in Calls
    /\ since \in [Pool -> 0 .. ReprobeTime]
    /\ passed \in [Pool -> 0 .. Size]

\* When the global backoff runs out some backend can be used: the sleep
\* soonest_recovery computed (search_state.py:132) counts quarantined
\* backends by their trial and the others by their cooldown, so the search
\* that follows the sleep does not find an empty pool again.
BackoffEndsInTime ==
    [][backoff > 0 /\ backoff' = 0 => ~ NoneSelectable']_vars

\* A dead backend is tried at most once per ReprobeTime, however often the
\* provider is called and whatever the other backends do: every failed trial
\* pushes the next one out (search_state.py:113-115), across restarts too.
DeadRarelyTried ==
    \A b \in Pool : Dead(fails[b]) /\ Selectable(b) => since[b] = ReprobeTime

\* The rotation passes over a usable backend fewer times than there are
\* backends, wherever failures, cooldowns and restarts leave the cursor
\* (providers.py:158).
NoOnePassedOver == \A b \in Pool : passed[b] < Size

\* However the backends fail, each of them keeps being tried: cooldown,
\* quarantine and global backoff all end and the rotation comes round.
EveryBackendGetsItsTurn == \A b \in Pool : []<>(call.at = b)
=============================================================================
