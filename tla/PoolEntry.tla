----------------------------- MODULE PoolEntry -----------------------------
(***************************************************************************)
(* One entry of the account pool (src/internal/pool) as a record, and the  *)
(* pool's mutators as operators that map an entry to the entry they leave  *)
(* behind.  Every mutator of the code runs under the pool mutex, so one    *)
(* operator is one atomic step of the modules that use it.                 *)
(*                                                                         *)
(* TIME.  A deadline of the code is a wall-clock instant compared with     *)
(* time.Now().  Here a deadline is the number of ticks left until it:      *)
(*     Never  = -1   the zero time.Time (never set, or cleared)            *)
(*     0             an instant that has passed                            *)
(*     k > 0         an instant k ticks ahead                              *)
(* now.Before(t) is Active(t) and one tick of the clock is Elapse(e).  The *)
(* code tells the zero time from a passed instant (modelExempt), and so    *)
(* does the model.                                                         *)
(*                                                                         *)
(* BOUNDS.  retryCount, softStreak and Hits only index a backoff that has  *)
(* reached its cap at MaxRetry, MaxStreak and MaxHits, where they saturate *)
(* here: larger values of the code are indistinguishable.                  *)
(***************************************************************************)
EXTENDS Integers, FiniteSets

CONSTANTS
  Models,             \* model names a request can carry
  BreakerThreshold,   \* consecutive failures that open the breaker
  MaxRetry,           \* retryCount at which the breaker backoff is capped
  BreakerDur,         \* [0..MaxRetry -> ticks]: backoff after that many openings
  DegradeThreshold,   \* consecutive unexplained failures that degrade
  DegradeDur,         \* ticks of one degradation
  SessionDeadThreshold, \* consecutive 12153 that disable
  MaxStreak,          \* softStreak beyond which the soft backoff is not doubled again
  Shl(_, _),          \* d << k in the width of time.Duration, which may overflow
  SoftRateMax,        \* soft_rate_max, in ticks
  MaxHits,            \* Hits at which the 11102 backoff is capped
  BlockDur,           \* [1..MaxHits -> ticks]: 11102 negative-cache TTL
  HardMax,            \* longest distance to the next 04:00, in ticks
  MaxCredits          \* largest balance an instance uses

ASSUME EntryAssumption ==
  /\ BreakerThreshold \in Nat \ {0}
  /\ MaxRetry \in Nat
  /\ BreakerDur \in [0..MaxRetry -> Nat \ {0}]
  /\ \A k \in 0..MaxRetry : k + 1 \in 0..MaxRetry => BreakerDur[k] <= BreakerDur[k + 1]
  /\ DegradeThreshold \in Nat \ {0}
  /\ DegradeDur \in Nat \ {0}
  /\ SessionDeadThreshold \in Nat \ {0}
  /\ MaxStreak \in Nat \ {0}
  /\ SoftRateMax \in Nat \ {0}
  /\ MaxHits \in Nat \ {0}
  /\ BlockDur \in [1..MaxHits -> Nat \ {0}]
  /\ HardMax \in Nat \ {0}
  /\ MaxCredits \in Nat
-----------------------------------------------------------------------------
Never == -1
Deadline == Int                       \* Never, 0 or ticks left
Active(d) == d > 0                    \* !t.IsZero() && now.Before(t)
Later(d) == IF d > 0 THEN d - 1 ELSE d
Lesser(a, b) == IF a <= b THEN a ELSE b

CoolKinds == {"hard", "soft"}         \* CoolHard is the zero value of CoolKind
Reasons == {"none", "credit", "rate", "dead", "banned"}
DisableReasons == {"dead", "banned"}

\* modelCooldown: kind "limit" is a 6004 row, "blocked" an 11102 row.
NoCooldown == [left |-> Never, kind |-> "none", hits |-> 0]
ModelCooldown ==
  [left : Int, kind : {"none", "limit", "blocked"}, hits : 0..MaxHits]
NoModels == [m \in Models |-> NoCooldown]

Entry ==
  [ until : Deadline, coolKind : CoolKinds, reason : Reasons,
    softStreak : 0..MaxStreak, models : [Models -> ModelCooldown],
    disabled : BOOLEAN, manualDisabled : BOOLEAN,
    breakerUntil : Deadline, fails : 0..(BreakerThreshold - 1),
    retryCount : 0..MaxRetry,
    sessionDeadFails : 0..(SessionDeadThreshold - 1),
    consecutiveFails : 0..(DegradeThreshold - 1), degradeUntil : Deadline,
    credits : Nat, creditsExpiring : Nat ]

\* &entry{a: a}: every field has its zero value.
Fresh ==
  [ until |-> Never, coolKind |-> "hard", reason |-> "none",
    softStreak |-> 0, models |-> NoModels,
    disabled |-> FALSE, manualDisabled |-> FALSE,
    breakerUntil |-> Never, fails |-> 0, retryCount |-> 0,
    sessionDeadFails |-> 0, consecutiveFails |-> 0, degradeUntil |-> Never,
    credits |-> 0, creditsExpiring |-> 0 ]

LaterRow(row) == [row EXCEPT !.left = Later(row.left)]

\* One tick of the clock.
Elapse(e) ==
  [e EXCEPT !.until = Later(@), !.breakerUntil = Later(@), !.degradeUntil = Later(@),
            !.models = [m \in Models |-> LaterRow(e.models[m])]]
-----------------------------------------------------------------------------
(* Predicates *)

Healthy(e) ==
  /\ ~e.disabled /\ ~e.manualDisabled
  /\ ~Active(e.until) /\ ~Active(e.breakerUntil) /\ ~Active(e.degradeUntil)

ModelCooled(e, m) == Active(e.models[m].left)
HealthyForModel(e, m) == Healthy(e) /\ ~ModelCooled(e, m)

HasModelRows(e) == \E m \in Models : e.models[m].kind # "none"

\* expiry: the earliest of the deadlines still in force.
Expiries(e) ==
  {d \in {e.until, e.breakerUntil, e.degradeUntil} : Active(d)}
Expiry(e) == CHOOSE d \in Expiries(e) : \A x \in Expiries(e) : d <= x

HardCooled(e) == e.coolKind = "hard" /\ Active(e.until)
SoftCooled(e) == e.coolKind = "soft" /\ Active(e.until)

\* An account pickEarliestExpiryLocked may fall back to.
FallbackEligible(e) ==
  /\ ~e.disabled /\ ~e.manualDisabled /\ ~HardCooled(e)
  /\ Expiries(e) # {}

PruneExpiredModelCooldowns(e) ==
  [e EXCEPT !.models =
     [m \in Models |-> IF ModelCooled(e, m) THEN e.models[m] ELSE NoCooldown]]
-----------------------------------------------------------------------------
(* State-machine primitives (transition.go) *)

ClearCooling(e) ==
  [e EXCEPT !.until = Never, !.coolKind = "hard", !.reason = "none",
            !.softStreak = 0, !.models = NoModels]

DisableEntry(e, why) ==
  [ClearCooling(e) EXCEPT !.disabled = TRUE, !.reason = why]

ReviveCooling(e, remain) == [ClearCooling(e) EXCEPT !.credits = remain]
-----------------------------------------------------------------------------
(* Cooldowns (cooldown.go) *)

CooldownEntry(e, kind, d, why) ==
  [e EXCEPT !.until = d, !.coolKind = kind, !.reason = why, !.models = NoModels]

CappedSoftUntil(reset) == IF reset <= 0 THEN 1 ELSE Lesser(reset, SoftRateMax)

NextStreak(e) == Lesser(e.softStreak + 1, MaxStreak)

\* softDurationLocked: the first cooldown lasts d as it is asked for; a later one
\* is doubled, and a doubled one that overflows or passes soft_rate_max is capped.
SoftDuration(d, streak) ==
  LET doubled == Shl(d, streak - 1)
  IN  IF streak <= 1 THEN d
      ELSE IF doubled \in 1..SoftRateMax THEN doubled ELSE SoftRateMax

\* resetAt zero: enter a new soft cooldown, unless one is already running.
SoftBackoff(e, d, why) ==
  LET entered == IF SoftCooled(e) THEN e
                 ELSE [e EXCEPT !.softStreak = NextStreak(e),
                                !.until = SoftDuration(d, NextStreak(e))]
  IN  [entered EXCEPT !.coolKind = "soft", !.reason = why, !.models = NoModels]

\* CooldownSoftRate with an authoritative reset instant.
SoftUntilReset(e, reset, why) ==
  CooldownEntry(e, "soft", CappedSoftUntil(reset), why)

\* CooldownSoftForModel with a reset instant: the row of that model only.
LimitModel(e, m, reset) ==
  [e EXCEPT !.models[m] =
     [left |-> CappedSoftUntil(reset), kind |-> "limit", hits |-> 0]]

BlockModel(e, m) ==
  LET hits == Lesser(e.models[m].hits + 1, MaxHits)
  IN  [e EXCEPT !.models[m] =
         [left |-> BlockDur[hits], kind |-> "blocked", hits |-> hits]]

UnblockModel(e, m) ==
  IF e.models[m].kind = "blocked" THEN [e EXCEPT !.models[m] = NoCooldown] ELSE e
-----------------------------------------------------------------------------
(* Failures and successes (state.go, cooldown.go, degrade.go) *)

\* NoteError and recordBreakerFailureLocked.
Failed(e) ==
  IF e.fails + 1 < BreakerThreshold
  THEN [e EXCEPT !.fails = @ + 1]
  ELSE [e EXCEPT !.fails = 0,
                 !.retryCount = Lesser(@ + 1, MaxRetry),
                 !.breakerUntil = BreakerDur[e.retryCount]]

\* NoteFailures: an already degraded account is not degraded for longer.
FailedUnexplained(e) ==
  IF e.consecutiveFails + 1 < DegradeThreshold
  THEN [e EXCEPT !.consecutiveFails = @ + 1]
  ELSE [e EXCEPT !.consecutiveFails = 0,
                 !.degradeUntil = IF Active(@) THEN @ ELSE DegradeDur]

SessionDied(e) ==
  IF e.sessionDeadFails + 1 < SessionDeadThreshold
  THEN [e EXCEPT !.sessionDeadFails = @ + 1]
  ELSE DisableEntry([e EXCEPT !.sessionDeadFails = 0], "dead")

SessionAlive(e) == [e EXCEPT !.sessionDeadFails = 0]

\* Mutants: success forgets the deadline of the breaker; or enables the account.
SucceededKeepsBreaker(e) ==
  [e EXCEPT !.fails = 0, !.retryCount = 0, !.softStreak = 0,
            !.sessionDeadFails = 0, !.consecutiveFails = 0, !.degradeUntil = Never]
SucceededEnables(e) ==
  [e EXCEPT !.fails = 0, !.retryCount = 0, !.breakerUntil = Never,
            !.softStreak = 0, !.disabled = FALSE]

Succeeded(e) ==
  [e EXCEPT !.fails = 0, !.retryCount = 0, !.breakerUntil = Never,
            !.softStreak = 0, !.sessionDeadFails = 0,
            !.consecutiveFails = 0, !.degradeUntil = Never]

Revived(e) ==
  IF e.disabled
  THEN [e EXCEPT !.disabled = FALSE, !.reason = "none", !.sessionDeadFails = 0]
  ELSE e
-----------------------------------------------------------------------------
(* Balance (cooldown.go, state.go) *)

Reenabled(e, remain) ==
  IF remain > 0 /\ ~e.disabled THEN ReviveCooling(e, remain)
  ELSE [e EXCEPT !.credits = remain]

SetBalance(e, credits, expiring) ==
  [e EXCEPT !.credits = credits, !.creditsExpiring = Lesser(expiring, credits)]

\* Mutant: debits the total but not the batch that expires first.
DebitedTotalOnly(e, d) == [e EXCEPT !.credits = @ - Lesser(d, @)]

\* The debit of NoteModelCost; both balances are clamped at zero.
Debited(e, d) ==
  LET spent == Lesser(d, e.credits)
  IN  [e EXCEPT !.credits = @ - spent,
                !.creditsExpiring = @ - Lesser(spent, @)]
-----------------------------------------------------------------------------
(* The state file (persist.go) *)

\* What both writing and reading leave out: deadlines that have passed, the
\* retryCount of a closed breaker, and the hits of every model row.
Unexpired(e) ==
  [e EXCEPT
     !.models = [m \in Models |-> IF ModelCooled(e, m) THEN [e.models[m] EXCEPT !.hits = 0]
                                                        ELSE NoCooldown],
     !.retryCount = IF Active(e.breakerUntil) THEN @ ELSE 0,
     !.breakerUntil = IF Active(@) THEN @ ELSE Never,
     !.degradeUntil = IF Active(@) THEN @ ELSE Never]

\* stateOverviewLocked: fails is not written, and coolKind and reason only while
\* they mean something (cooledReasonLocked).
Filed(e) ==
  LET meant == e.disabled \/ Active(e.until)
  IN  [Unexpired(e) EXCEPT !.fails = 0,
                           !.coolKind = IF meant THEN @ ELSE "hard",
                           !.reason = IF meant THEN @ ELSE "none"]

\* applyAccountsLocked.
Loaded(s) == [Unexpired(s) EXCEPT !.creditsExpiring = Lesser(@, s.credits)]
=============================================================================
