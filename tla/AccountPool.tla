---------------------------- MODULE AccountPool ----------------------------
(***************************************************************************)
(* The account pool's state machine (src/internal/pool): which accounts    *)
(* are in the pool and the entry of each, changed by the calls the chat    *)
(* handler, the scheduler, the operator's endpoints and the directory      *)
(* watcher make.  Each call holds p.mu from its first read to its last     *)
(* write, so it is one action; a call about a uid the pool no longer has   *)
(* does nothing.  Calls come in any order: a request that was sent before  *)
(* an account was cooled or disabled reports its outcome afterwards.       *)
(*                                                                         *)
(* In-flight leases are module Leases, the state file PoolPersistence; of  *)
(* selection only its effect on the entries (PickPrunes) is here.          *)
(***************************************************************************)
EXTENDS PoolEntry

CONSTANTS
  UIDs,         \* account ids that can appear in the auth directory
  SoftBases,    \* soft cooldowns the handler asks for: soft_rate, which no check
                \* holds below soft_rate_max, and about 60s for a 404 or a WAF page
  ResetAts,     \* reset instants an upstream answer can name, ticks from now
  Debits,       \* credit charges an upstream answer can report
  CallSets      \* sets of calls; in one behaviour only those of one set are made

ASSUME PoolAssumption ==
  /\ SoftBases \subseteq Nat \ {0}
  /\ ResetAts \subseteq Int
  /\ Debits \subseteq Nat

VARIABLES
  members,      \* uids the pool has (the keys of byUID)
  acct,         \* the entry of every uid; Fresh outside the pool
  calls         \* the calls made in this behaviour: a way to bound an instance

vars == <<members, acct, calls>>

\* Every entry stays inside its type: no counter passes the threshold that
\* should have reset it and no balance goes below zero, however the outcomes of
\* stale requests interleave with the scheduler's and the operator's calls.
TypeOK ==
  /\ members \subseteq UIDs
  /\ acct \in [UIDs -> Entry]

Init ==
  /\ members \in SUBSET UIDs
  /\ acct = [u \in UIDs |-> Fresh]
  /\ calls \in CallSets

\* The locked body of a call about u, which leaves entry e behind.
Put(u, e) ==
  /\ u \in members
  /\ acct' = [acct EXCEPT ![u] = e]
  /\ UNCHANGED <<members, calls>>
-----------------------------------------------------------------------------
(* Outcomes of chat requests, reported by the handler *)

NoteSuccess(u) == "success" \in calls /\ Put(u, Succeeded(acct[u]))
NoteError(u) == "error" \in calls /\ Put(u, Failed(acct[u]))
NoteFailures(u) == "unexplained" \in calls /\ Put(u, FailedUnexplained(acct[u]))
NoteSessionDead(u) == "sessionDead" \in calls /\ Put(u, SessionDied(acct[u]))
NoteModelCost(u, d) == "cost" \in calls /\ Put(u, Debited(acct[u], d))

CooldownSoft(u, d) == "coolSoft" \in calls /\ Put(u, CooldownEntry(acct[u], "soft", d, "rate"))

CooldownUntilTomorrow4AM(u, d) ==
  "coolHard" \in calls /\ Put(u, CooldownEntry(acct[u], "hard", d, "credit"))

CooldownSoftRateReset(u, reset) ==
  "coolReset" \in calls /\ Put(u, SoftUntilReset(acct[u], reset, "rate"))

CooldownSoftRateBackoff(u, d) ==
  "coolBackoff" \in calls /\ Put(u, SoftBackoff(acct[u], d, "rate"))

CooldownSoftForModel(u, m, reset) ==
  "limitModel" \in calls /\ Put(u, LimitModel(acct[u], m, reset))

BlockModelBackoff(u, m) == "blockModel" \in calls /\ Put(u, BlockModel(acct[u], m))
BlockModelClear(u, m) == "unblockModel" \in calls /\ Put(u, UnblockModel(acct[u], m))
Disable(u, why) == "disable" \in calls /\ Put(u, DisableEntry(acct[u], why))

\* pick prunes the expired model rows of every account before it chooses.
PickPrunes ==
  /\ "pick" \in calls
  /\ acct' = [u \in UIDs |-> PruneExpiredModelCooldowns(acct[u])]
  /\ UNCHANGED <<members, calls>>
-----------------------------------------------------------------------------
(* The scheduler, the operator and the directory watcher *)

ClearSessionDead(u) == "alive" \in calls /\ Put(u, SessionAlive(acct[u]))
ReenableIfCredits(u, remain) == "reenable" \in calls /\ Put(u, Reenabled(acct[u], remain))

SetCreditsDetailed(u, credits, expiring) ==
  "balance" \in calls /\ Put(u, SetBalance(acct[u], credits, expiring))

ReviveDisabled(u) == "revive" \in calls /\ Put(u, Revived(acct[u]))

SetManualDisabled(u, b) ==
  "manual" \in calls /\ Put(u, [acct[u] EXCEPT !.manualDisabled = b])

\* SyncToDir: accounts that vanished are dropped, new ones start fresh.
SyncToDir(found) ==
  /\ "sync" \in calls
  /\ members' = found
  /\ acct' = [u \in UIDs |-> IF u \in members \cap found THEN acct[u] ELSE Fresh]
  /\ UNCHANGED calls

\* The process writes the state file, ends, and starts again from it after no
\* time or a tick.
Restart(down) ==
  /\ "restart" \in calls
  /\ acct' = [u \in UIDs |-> Loaded(IF down THEN Elapse(Filed(acct[u])) ELSE Filed(acct[u]))]
  /\ UNCHANGED <<members, calls>>

Tick ==
  /\ acct' = [u \in UIDs |-> Elapse(acct[u])]
  /\ UNCHANGED <<members, calls>>
-----------------------------------------------------------------------------
ChatOutcome(u) ==
  \/ NoteSuccess(u)
  \/ NoteError(u)
  \/ NoteFailures(u)
  \/ NoteSessionDead(u)
  \/ \E d \in Debits : NoteModelCost(u, d)
  \/ \E d \in SoftBases : CooldownSoft(u, d)
  \/ \E d \in 1..HardMax : CooldownUntilTomorrow4AM(u, d)
  \/ \E reset \in ResetAts : CooldownSoftRateReset(u, reset)
  \/ \E d \in SoftBases : CooldownSoftRateBackoff(u, d)
  \/ \E m \in Models, reset \in ResetAts : CooldownSoftForModel(u, m, reset)
  \/ \E m \in Models : BlockModelBackoff(u, m)
  \/ \E m \in Models : BlockModelClear(u, m)
  \/ \E why \in DisableReasons : Disable(u, why)

Upkeep(u) ==
  \/ ClearSessionDead(u)
  \/ \E remain \in 0..MaxCredits : ReenableIfCredits(u, remain)
  \/ \E credits \in 0..MaxCredits, expiring \in 0..MaxCredits :
       SetCreditsDetailed(u, credits, expiring)
  \/ ReviveDisabled(u)
  \/ \E b \in BOOLEAN : SetManualDisabled(u, b)

Next ==
  \/ \E u \in UIDs : ChatOutcome(u) \/ Upkeep(u)
  \/ PickPrunes
  \/ \E found \in SUBSET UIDs : SyncToDir(found)
  \/ \E down \in BOOLEAN : Restart(down)
  \/ Tick

Spec == Init /\ [][Next]_vars
-----------------------------------------------------------------------------
(* Safety *)

\* An open breaker never has longer to run than the backoff its retryCount
\* would open it for now: the strengthening behind FailureNeverShortensBreaker.
BreakerWithin(e) == e.breakerUntil <= BreakerDur[e.retryCount]
BreakerBounded == \A u \in UIDs : BreakerWithin(acct[u])

\* A failure reported while the breaker is already open (a fallback probe, a
\* request that was in flight) may lengthen the ban, never cut it short
\* (recordBreakerFailureLocked overwrites breakerUntil unconditionally).
FailureNeverShortensBreaker ==
  [][\A u \in UIDs :
       NoteError(u) => acct'[u].breakerUntil >= acct[u].breakerUntil]_vars

\* Whatever the order of rate limits, hard cooldowns, check-ins and disables, a
\* soft cooldown in force ends within soft_rate_max or within what the handler
\* asked for at once: nothing doubled and no reset instant of upstream's goes
\* beyond (cooldown.go: softDurationLocked, cappedSoftUntilLocked, Cooldown).
WithinSoftMax(d) == d <= SoftRateMax \/ \E base \in SoftBases : d <= base
SoftWithin(e) == SoftCooled(e) => WithinSoftMax(e.until)
SoftCoolingBounded == \A u \in UIDs : SoftWithin(acct[u])

\* An account the system disabled comes back only through the operator's
\* ReviveDisabled, as state.go:62-66 and :115-119 have it; no late success,
\* check-in or cooldown of an earlier request revives it.  transition.go:25-26 and
\* :80-81 say that check-ins and refreshes do; they do not.
DisabledUntilRevived ==
  [][\A u \in members \cap members' :
       acct[u].disabled /\ ~acct'[u].disabled => ReviveDisabled(u)]_vars
-----------------------------------------------------------------------------
\* state.go, NoteModelCost and cooldown.go, SetCreditsDetailed: credits about to
\* expire are spent first; the long-term part of a balance shrinks only once
\* nothing of the expiring part is left.
LongTermSpentLast ==
  [][\A u \in UIDs, d \in Debits :
       /\ NoteModelCost(u, d)
       /\ acct'[u].credits - acct'[u].creditsExpiring
            < acct[u].credits - acct[u].creditsExpiring
       => acct'[u].creditsExpiring = 0]_vars
-----------------------------------------------------------------------------
\* persist.go: a restart in no time changes no account's health for any model,
\* whatever mix of cooldowns, rows, bans and switches it was in.
RestartChangesNoHealth ==
  [][\A u \in UIDs, m \in Models :
       Restart(FALSE) => HealthyForModel(acct'[u], m) = HealthyForModel(acct[u], m)]_vars
=============================================================================
