----------------------------- MODULE PoolProofs -----------------------------
(***************************************************************************)
(* Proofs about the pool: its entries (AccountPool) for every set of       *)
(* accounts and models and every value of the thresholds and backoffs, and *)
(* its slots (Leases) for any number of requests, accounts, limits and     *)
(* re-additions.                                                           *)
(*                                                                         *)
(* Entries.  Every action of AccountPool is a Put of an operator of        *)
(* PoolEntry, a SyncToDir, a Tick, a Restart or the prune of pick.  So the *)
(* argument is about entries first: each operator keeps an entry inside    *)
(* its type (PoolEntryProofs), and keeps the predicate that an open        *)
(* breaker has no longer to run than the backoff of its retryCount (the    *)
(* ...Within lemmas).                                                      *)
(*                                                                         *)
(* Slots.  SlotInv is the invariant the compare-and-swap loops live on: a  *)
(* request about to raise a counter read a value below the limit, one      *)
(* about to lower it read a value above zero, so a successful swap is a    *)
(* Take or a Give.  Bookkeeping and Counted are the strengthening behind   *)
(* NoPhantomLease and HeldUntilReadded: a request gives its lease back to  *)
(* the entry it was taken of or to a later one, which the slot never       *)
(* burdens.                                                                *)
(***************************************************************************)
EXTENDS AccountPool, Leases, PoolEntryProofs, FiniteSetTheorems, TLAPS

USE DEF Deadline

-----------------------------------------------------------------------------
(* Type correctness of the pool *)

LEMMA PutType ==
  ASSUME TypeOK, NEW u \in UIDs, NEW e \in Entry, Put(u, e)
  PROVE  TypeOK'
  BY DEF TypeOK, Put

\* Every entry stays inside its type, whatever the thresholds are.
THEOREM TypeCorrect == Spec => []TypeOK
  <1>1. Init => TypeOK
    BY FreshType DEF Init, TypeOK
  <1>2. TypeOK /\ [Next]_vars => TypeOK'
    <2> SUFFICES ASSUME TypeOK, [Next]_vars PROVE TypeOK'
      OBVIOUS
    <2> USE DEF TypeOK
    <2>1. ASSUME NEW u \in UIDs, ChatOutcome(u) PROVE TypeOK'
      <3>1. acct[u] \in Entry
        OBVIOUS
      <3>2. "rate" \in Reasons /\ "credit" \in Reasons /\ CoolKinds = {"soft", "hard"}
        BY DEF Reasons, CoolKinds
      <3>3. CASE NoteSuccess(u)
        BY <3>1, <3>3, SuccessType, PutType DEF NoteSuccess
      <3>4. CASE NoteError(u)
        BY <3>1, <3>4, FailedType, PutType DEF NoteError
      <3>5. CASE NoteFailures(u)
        BY <3>1, <3>5, FailedUnexplainedType, PutType DEF NoteFailures
      <3>6. CASE NoteSessionDead(u)
        BY <3>1, <3>6, SessionType, PutType DEF NoteSessionDead
      <3>7. CASE \E d \in Debits : NoteModelCost(u, d)
        BY <3>1, <3>7, BalanceType, PutType, PoolAssumption DEF NoteModelCost
      <3>8. CASE \E d \in SoftBases : CooldownSoft(u, d)
        BY <3>1, <3>2, <3>8, CooldownType, PutType, PoolAssumption DEF CooldownSoft
      <3>9. CASE \E d \in 1..HardMax : CooldownUntilTomorrow4AM(u, d)
        BY <3>1, <3>2, <3>9, CooldownType, PutType DEF CooldownUntilTomorrow4AM
      <3>10. CASE \E reset \in ResetAts : CooldownSoftRateReset(u, reset)
        BY <3>1, <3>2, <3>10, SoftUntilResetType, PutType, PoolAssumption DEF CooldownSoftRateReset
      <3>11. CASE \E d \in SoftBases : CooldownSoftRateBackoff(u, d)
        BY <3>1, <3>2, <3>11, SoftBackoffType, PutType, PoolAssumption DEF CooldownSoftRateBackoff
      <3>12. CASE \E m \in Models, reset \in ResetAts : CooldownSoftForModel(u, m, reset)
        BY <3>1, <3>12, ModelRowsType, PutType, PoolAssumption DEF CooldownSoftForModel
      <3>13. CASE \E m \in Models : BlockModelBackoff(u, m)
        BY <3>1, <3>13, ModelRowsType, PutType DEF BlockModelBackoff
      <3>14. CASE \E m \in Models : BlockModelClear(u, m)
        BY <3>1, <3>14, ModelRowsType, PutType DEF BlockModelClear
      <3>15. CASE \E why \in DisableReasons : Disable(u, why)
        BY <3>1, <3>15, DisableType, PutType DEF Disable
      <3>16. QED
        BY <2>1, <3>3, <3>4, <3>5, <3>6, <3>7, <3>8, <3>9, <3>10, <3>11, <3>12,
           <3>13, <3>14, <3>15 DEF ChatOutcome
    <2>2. ASSUME NEW u \in UIDs, Upkeep(u) PROVE TypeOK'
      <3>1. acct[u] \in Entry
        OBVIOUS
      <3>2. CASE ClearSessionDead(u)
        BY <3>1, <3>2, SessionType, PutType DEF ClearSessionDead
      <3>3. CASE \E remain \in 0..MaxCredits : ReenableIfCredits(u, remain)
        BY <3>1, <3>3, BalanceType, PutType, Naturals DEF ReenableIfCredits
      <3>4. CASE \E credits \in 0..MaxCredits, expiring \in 0..MaxCredits :
                   SetCreditsDetailed(u, credits, expiring)
        BY <3>1, <3>4, BalanceType, PutType, Naturals DEF SetCreditsDetailed
      <3>5. CASE ReviveDisabled(u)
        BY <3>1, <3>5, SuccessType, PutType DEF ReviveDisabled
      <3>6. CASE \E b \in BOOLEAN : SetManualDisabled(u, b)
        <4>1. \A b \in BOOLEAN : [acct[u] EXCEPT !.manualDisabled = b] \in Entry
          BY <3>1 DEF Entry
        <4>2. QED
          BY <3>6, <4>1, PutType DEF SetManualDisabled
      <3>7. QED
        BY <2>2, <3>2, <3>3, <3>4, <3>5, <3>6 DEF Upkeep
    <2>3. CASE PickPrunes
      BY <2>3, PruneType DEF PickPrunes
    <2>4. CASE \E found \in SUBSET UIDs : SyncToDir(found)
      BY <2>4, FreshType DEF SyncToDir
    <2>5. CASE Tick
      BY <2>5, ElapseType DEF Tick
    <2>6. CASE \E down \in BOOLEAN : Restart(down)
      BY <2>6, ReloadType DEF Restart
    <2>7. CASE UNCHANGED vars
      BY <2>7 DEF vars
    <2>8. QED
      BY <2>1, <2>2, <2>3, <2>4, <2>5, <2>6, <2>7 DEF Next
  <1>3. QED
    BY <1>1, <1>2, PTL DEF Spec
-----------------------------------------------------------------------------
(* Bounds of the breaker and of soft cooling *)

\* The inductive invariant of one entry: what BreakerBounded and
\* SoftCoolingBounded say of it.  The two are kept together because one
\* mutator (DisableEntry, Succeeded) touches the fields of both.
Within(e) == BreakerWithin(e) /\ SoftWithin(e)

\* A mutator that leaves the breaker and the account cooldown alone.
LEMMA SameFieldsWithin ==
  ASSUME NEW e, NEW f, Within(e),
         f.breakerUntil = e.breakerUntil, f.retryCount = e.retryCount,
         f.until = e.until, f.coolKind = e.coolKind
  PROVE  Within(f)
  BY DEF Within, BreakerWithin, SoftWithin, SoftCooled, Active

\* A mutator that leaves the breaker alone and ends the account cooldown.
LEMMA ClearedWithin ==
  ASSUME NEW e, NEW f, Within(e),
         f.breakerUntil = e.breakerUntil, f.retryCount = e.retryCount,
         f.until = Never
  PROVE  Within(f)
  BY DEF Within, BreakerWithin, SoftWithin, SoftCooled, Active, Never

LEMMA CooldownWithin ==
  ASSUME NEW e \in Entry, Within(e), NEW kind, NEW d \in Int, NEW why,
         kind = "soft" => WithinSoftMax(d)
  PROVE  Within(CooldownEntry(e, kind, d, why))
  BY DEF Within, BreakerWithin, SoftWithin, SoftCooled, Active, CooldownEntry, Entry

LEMMA SoftBackoffWithin ==
  ASSUME NEW e \in Entry, Within(e), NEW d \in SoftBases, NEW why
  PROVE  Within(SoftBackoff(e, d, why))
  <1>1. WithinSoftMax(SoftDuration(d, NextStreak(e)))
    BY NextStreakType, SoftDurationBounded, PoolAssumption DEF WithinSoftMax
  <1>2. QED
    BY <1>1 DEF SoftBackoff, Within, BreakerWithin, SoftWithin, SoftCooled, Active, Entry

\* The opening backoff grows with retryCount, so the retryCount of the next
\* opening bounds the deadline this one sets.
LEMMA FailedWithin ==
  ASSUME NEW e \in Entry, Within(e)
  PROVE  Within(Failed(e)) /\ Failed(e).breakerUntil >= e.breakerUntil
  <1>1. /\ e.retryCount \in 0..MaxRetry
        /\ e.fails \in 0..(BreakerThreshold - 1)
        /\ e.breakerUntil \in Int
    BY DEF Entry
  <1>2. SoftWithin(Failed(e))
    BY DEF Failed, Within, SoftWithin, SoftCooled, Active, Entry
  <1>3. CASE e.fails + 1 < BreakerThreshold
    BY <1>1, <1>2, <1>3 DEF Failed, Within, BreakerWithin, Entry
  <1>4. CASE ~(e.fails + 1 < BreakerThreshold)
    <2> DEFINE next == Lesser(e.retryCount + 1, MaxRetry)
    <2>1. next \in 0..MaxRetry /\ next \in {e.retryCount, e.retryCount + 1}
      BY <1>1, Naturals DEF Lesser
    <2>2. /\ Failed(e).retryCount = next
          /\ Failed(e).breakerUntil = BreakerDur[e.retryCount]
      BY <1>4 DEF Failed, Entry
    <2> HIDE DEF next
    <2>3. BreakerDur[e.retryCount] <= BreakerDur[next]
      <3>1. CASE next = e.retryCount
        BY <1>1, <3>1, EntryAssumption
      <3>2. CASE next = e.retryCount + 1
        BY <1>1, <2>1, <3>2, EntryAssumption
      <3>3. QED
        BY <2>1, <3>1, <3>2
    <2>4. e.breakerUntil <= BreakerDur[e.retryCount]
      BY DEF Within, BreakerWithin
    <2>5. BreakerDur[e.retryCount] \in Int
      BY <1>1, EntryAssumption
    <2>6. QED
      BY <1>1, <1>2, <2>2, <2>3, <2>4, <2>5 DEF Within, BreakerWithin
  <1>5. QED
    BY <1>3, <1>4

LEMMA SucceededWithin ==
  ASSUME NEW e \in Entry, Within(e)
  PROVE  Within(Succeeded(e))
  <1>1. BreakerDur[0] \in Nat
    BY EntryAssumption
  <1>2. /\ Succeeded(e).breakerUntil = Never /\ Succeeded(e).retryCount = 0
        /\ Succeeded(e).until = e.until /\ Succeeded(e).coolKind = e.coolKind
    BY DEF Succeeded, Entry
  <1>3. QED
    BY <1>1, <1>2 DEF Within, BreakerWithin, SoftWithin, SoftCooled, Never

LEMMA FreshWithin == Within(Fresh)
  <1>1. BreakerDur[0] \in Nat
    BY EntryAssumption
  <1>2. QED
    BY <1>1 DEF Fresh, Within, BreakerWithin, SoftWithin, SoftCooled, Never

LEMMA ElapseWithin ==
  ASSUME NEW e \in Entry, Within(e)
  PROVE  Within(Elapse(e))
  <1>1. e.breakerUntil \in Int /\ e.until \in Int /\ BreakerDur[e.retryCount] \in Int
    BY EntryAssumption, SMTT(30) DEF Entry
  <1>2. \A d \in Int : Later(d) <= d /\ Later(d) \in Int /\ (Later(d) > 0 => d > 0)
    BY DEF Later
  <1>3. /\ Elapse(e).breakerUntil = Later(e.breakerUntil)
        /\ Elapse(e).until = Later(e.until)
        /\ Elapse(e).retryCount = e.retryCount /\ Elapse(e).coolKind = e.coolKind
    BY DEF Elapse, Entry
  <1>4. BreakerWithin(Elapse(e))
    BY <1>1, <1>2, <1>3 DEF Within, BreakerWithin
  <1>5. SoftWithin(Elapse(e))
    BY <1>1, <1>2, <1>3, Naturals, PoolAssumption DEF Within, SoftWithin, WithinSoftMax, SoftCooled, Active
  <1>6. QED
    BY <1>4, <1>5 DEF Within

\* The breaker's deadline and retryCount go through the state file together.
LEMMA FileWithin ==
  ASSUME NEW e \in Entry, Within(e)
  PROVE  Within(Unexpired(e)) /\ Within(Filed(e)) /\ Within(Loaded(e))
  <1>1. /\ Unexpired(e).until = e.until /\ Unexpired(e).coolKind = e.coolKind
        /\ Unexpired(e).retryCount = IF Active(e.breakerUntil) THEN e.retryCount ELSE 0
        /\ Unexpired(e).breakerUntil = IF Active(e.breakerUntil) THEN e.breakerUntil ELSE Never
    BY DEF Unexpired, Entry
  <1>2. BreakerDur[0] \in Nat
    BY EntryAssumption
  <1>3. Within(Unexpired(e))
    BY <1>1, <1>2 DEF Within, BreakerWithin, SoftWithin, SoftCooled, Never
  <1>4. Unexpired(e) \in Entry
    BY FileType
  <1>5. Within(Filed(e))
    <2>1. /\ Filed(e).breakerUntil = Unexpired(e).breakerUntil
          /\ Filed(e).retryCount = Unexpired(e).retryCount
          /\ Filed(e).until = Unexpired(e).until
          /\ Filed(e).coolKind \in {Unexpired(e).coolKind, "hard"}
      BY <1>4 DEF Filed, Entry
    <2>2. QED
      BY <1>3, <2>1 DEF Within, BreakerWithin, SoftWithin, SoftCooled
  <1>6. Within(Loaded(e))
    BY <1>3, <1>4, SameFieldsWithin DEF Loaded, Entry
  <1>7. QED
    BY <1>3, <1>5, <1>6

LEMMA ReloadWithin ==
  ASSUME NEW e \in Entry, Within(e), NEW down \in BOOLEAN
  PROVE  Within(Loaded(IF down THEN Elapse(Filed(e)) ELSE Filed(e)))
  <1>1. Filed(e) \in Entry /\ Within(Filed(e))
    BY FileType, FileWithin
  <1>2. Elapse(Filed(e)) \in Entry /\ Within(Elapse(Filed(e)))
    BY <1>1, ElapseType, ElapseWithin
  <1>3. QED
    BY <1>1, <1>2, FileWithin
-----------------------------------------------------------------------------
Bounded == BreakerBounded /\ SoftCoolingBounded

LEMMA PutBounded ==
  ASSUME TypeOK, Bounded, NEW u \in UIDs, NEW e, Within(e), Put(u, e)
  PROVE  Bounded'
  BY DEF TypeOK, Put, Bounded, BreakerBounded, SoftCoolingBounded, Within

LEMMA BoundedOfEntry ==
  ASSUME Bounded, NEW u \in UIDs
  PROVE  Within(acct[u])
  BY DEF Bounded, BreakerBounded, SoftCoolingBounded, Within

LEMMA ClearingWithin ==
  ASSUME NEW e \in Entry, Within(e)
  PROVE  /\ \A why : Within(DisableEntry(e, why))
         /\ \A remain : Within(ReviveCooling(e, remain))
  <1>1. \A why : /\ DisableEntry(e, why).breakerUntil = e.breakerUntil
                 /\ DisableEntry(e, why).retryCount = e.retryCount
                 /\ DisableEntry(e, why).until = Never
    BY DEF DisableEntry, ClearCooling, Entry
  <1>2. \A remain : /\ ReviveCooling(e, remain).breakerUntil = e.breakerUntil
                    /\ ReviveCooling(e, remain).retryCount = e.retryCount
                    /\ ReviveCooling(e, remain).until = Never
    BY DEF ReviveCooling, ClearCooling, Entry
  <1>3. QED
    BY <1>1, <1>2, ClearedWithin

LEMMA ChatOutcomeBounded ==
  ASSUME TypeOK, Bounded, NEW u \in UIDs, ChatOutcome(u)
  PROVE  Bounded'
  <1> DEFINE e == acct[u]
  <1>1. e \in Entry /\ Within(e)
    BY BoundedOfEntry DEF TypeOK
  <1>2. ASSUME NEW f, f.breakerUntil = e.breakerUntil, f.retryCount = e.retryCount,
               f.until = e.until, f.coolKind = e.coolKind, Put(u, f)
        PROVE  Bounded'
    BY <1>1, <1>2, SameFieldsWithin, PutBounded
  <1>3. CASE NoteSuccess(u)
    BY <1>1, <1>3, SucceededWithin, PutBounded DEF NoteSuccess
  <1>4. CASE NoteError(u)
    BY <1>1, <1>4, FailedWithin, PutBounded DEF NoteError
  <1>5. CASE NoteFailures(u)
    BY <1>1, <1>2, <1>5 DEF NoteFailures, FailedUnexplained, Entry
  <1>6. CASE NoteSessionDead(u)
    <2> DEFINE reset == [e EXCEPT !.sessionDeadFails = 0]
    <2>1. reset \in Entry
      BY <1>1, SessionType DEF SessionAlive
    <2>2. Within(reset)
      BY <1>1, SameFieldsWithin DEF Entry
    <2>3. CASE e.sessionDeadFails + 1 < SessionDeadThreshold
      BY <1>1, <1>2, <1>6, <2>3 DEF NoteSessionDead, SessionDied, Entry
    <2>4. CASE ~(e.sessionDeadFails + 1 < SessionDeadThreshold)
      <3>1. Within(DisableEntry(reset, "dead"))
        BY <2>1, <2>2, ClearingWithin
      <3>2. QED
        BY <1>6, <2>4, <3>1, PutBounded DEF NoteSessionDead, SessionDied
    <2>5. QED
      BY <2>3, <2>4
  <1>7. CASE \E d \in Debits : NoteModelCost(u, d)
    BY <1>1, <1>2, <1>7 DEF NoteModelCost, Debited, Entry
  <1>8. CASE \E d \in SoftBases : CooldownSoft(u, d)
    <2>1. \A d \in SoftBases : d \in Int /\ WithinSoftMax(d)
      BY PoolAssumption DEF WithinSoftMax
    <2>2. QED
      BY <1>1, <1>8, <2>1, CooldownWithin, PutBounded DEF CooldownSoft
  <1>9. CASE \E d \in 1..HardMax : CooldownUntilTomorrow4AM(u, d)
    BY <1>1, <1>9, CooldownWithin, PutBounded DEF CooldownUntilTomorrow4AM
  <1>10. CASE \E reset \in ResetAts : CooldownSoftRateReset(u, reset)
    <2>1. \A reset \in ResetAts : /\ CappedSoftUntil(reset) \in Int
                                  /\ WithinSoftMax(CappedSoftUntil(reset))
      BY CappedType, PoolAssumption DEF WithinSoftMax
    <2>2. QED
      BY <1>1, <1>10, <2>1, CooldownWithin, PutBounded DEF CooldownSoftRateReset, SoftUntilReset
  <1>11. CASE \E d \in SoftBases : CooldownSoftRateBackoff(u, d)
    BY <1>1, <1>11, SoftBackoffWithin, PutBounded DEF CooldownSoftRateBackoff
  <1>12. CASE \E m \in Models, reset \in ResetAts : CooldownSoftForModel(u, m, reset)
    BY <1>1, <1>2, <1>12 DEF CooldownSoftForModel, LimitModel, Entry
  <1>13. CASE \E m \in Models : BlockModelBackoff(u, m)
    BY <1>1, <1>2, <1>13 DEF BlockModelBackoff, BlockModel, Entry
  <1>14. CASE \E m \in Models : BlockModelClear(u, m)
    BY <1>1, <1>2, <1>14 DEF BlockModelClear, UnblockModel, Entry
  <1>15. CASE \E why \in DisableReasons : Disable(u, why)
    BY <1>1, <1>15, ClearingWithin, PutBounded DEF Disable
  <1>16. QED
    BY <1>3, <1>4, <1>5, <1>6, <1>7, <1>8, <1>9, <1>10, <1>11, <1>12, <1>13, <1>14, <1>15
       DEF ChatOutcome

LEMMA UpkeepBounded ==
  ASSUME TypeOK, Bounded, NEW u \in UIDs, Upkeep(u)
  PROVE  Bounded'
  <1> DEFINE e == acct[u]
  <1>1. e \in Entry /\ Within(e)
    BY BoundedOfEntry DEF TypeOK
  <1>2. ASSUME NEW f, f.breakerUntil = e.breakerUntil, f.retryCount = e.retryCount,
               f.until = e.until, f.coolKind = e.coolKind, Put(u, f)
        PROVE  Bounded'
    BY <1>1, <1>2, SameFieldsWithin, PutBounded
  <1>3. CASE ClearSessionDead(u)
    BY <1>1, <1>2, <1>3 DEF ClearSessionDead, SessionAlive, Entry
  <1>4. CASE \E remain \in 0..MaxCredits : ReenableIfCredits(u, remain)
    <2>1. PICK remain \in 0..MaxCredits : Put(u, Reenabled(e, remain))
      BY <1>4 DEF ReenableIfCredits
    <2>2. CASE remain > 0 /\ ~e.disabled
      <3>1. Within(ReviveCooling(e, remain))
        BY <1>1, ClearingWithin
      <3>2. QED
        BY <2>1, <2>2, <3>1, PutBounded DEF Reenabled
    <2>3. CASE ~(remain > 0 /\ ~e.disabled)
      BY <1>1, <1>2, <2>1, <2>3 DEF Reenabled, Entry
    <2>4. QED
      BY <2>2, <2>3
  <1>5. CASE \E credits \in 0..MaxCredits, expiring \in 0..MaxCredits :
               SetCreditsDetailed(u, credits, expiring)
    BY <1>1, <1>2, <1>5 DEF SetCreditsDetailed, SetBalance, Entry
  <1>6. CASE ReviveDisabled(u)
    BY <1>1, <1>2, <1>6 DEF ReviveDisabled, Revived, Entry
  <1>7. CASE \E b \in BOOLEAN : SetManualDisabled(u, b)
    BY <1>1, <1>2, <1>7 DEF SetManualDisabled, Entry
  <1>8. QED
    BY <1>3, <1>4, <1>5, <1>6, <1>7 DEF Upkeep

LEMMA StepBounded == TypeOK /\ Bounded /\ [Next]_vars => Bounded'
  <1> SUFFICES ASSUME TypeOK, Bounded, [Next]_vars PROVE Bounded'
    OBVIOUS
  <1> USE DEF Bounded, BreakerBounded, SoftCoolingBounded
  <1>1. \A u \in UIDs : acct[u] \in Entry /\ Within(acct[u])
    BY BoundedOfEntry DEF TypeOK
  <1>2. SUFFICES \/ Bounded'
                 \/ \A u \in UIDs : Within(acct'[u])
    BY DEF Within
  <1>3. CASE PickPrunes
    <2>1. \A u \in UIDs : Within(PruneExpiredModelCooldowns(acct[u]))
      BY <1>1, SameFieldsWithin DEF PruneExpiredModelCooldowns, Entry
    <2>2. QED
      BY <1>3, <2>1 DEF PickPrunes
  <1>4. CASE \E found \in SUBSET UIDs : SyncToDir(found)
    BY <1>1, <1>4, FreshWithin DEF SyncToDir
  <1>5. CASE Tick
    BY <1>1, <1>5, ElapseWithin DEF Tick
  <1>6. CASE \E down \in BOOLEAN : Restart(down)
    BY <1>1, <1>6, ReloadWithin DEF TypeOK, Restart
  <1>7. CASE UNCHANGED vars
    BY <1>1, <1>7 DEF vars
  <1>8. QED
    BY <1>3, <1>4, <1>5, <1>6, <1>7, ChatOutcomeBounded, UpkeepBounded DEF Next

LEMMA SpecBounded == Spec => []Bounded
  <1>1. Init => Bounded
    BY FreshWithin DEF Init, Bounded, BreakerBounded, SoftCoolingBounded, Within
  <1>2. QED
    BY <1>1, StepBounded, TypeCorrect, PTL DEF Spec

\* Whatever the order of the calls, the settings and the overflow of a doubled
\* duration, a soft cooldown ends within soft_rate_max or within the length a
\* call asked for.
THEOREM SoftCoolingIsBounded == Spec => []SoftCoolingBounded
  BY SpecBounded, PTL DEF Bounded

\* An open breaker has at most the backoff of its retryCount to run.
THEOREM BreakerIsBounded == Spec => []BreakerBounded
  BY SpecBounded, PTL DEF Bounded

\* A failure reported while the breaker is open never cuts the ban short.
THEOREM FailureLengthens == Spec => FailureNeverShortensBreaker
  <1>1. TypeOK /\ Bounded
        => [\A u \in UIDs : NoteError(u) => acct'[u].breakerUntil >= acct[u].breakerUntil]_vars
    <2> SUFFICES ASSUME TypeOK, Bounded, NEW u \in UIDs, NoteError(u)
                 PROVE  acct'[u].breakerUntil >= acct[u].breakerUntil
      OBVIOUS
    <2>1. acct[u] \in Entry /\ Within(acct[u])
      BY BoundedOfEntry DEF TypeOK
    <2>2. acct'[u] = Failed(acct[u])
      BY DEF NoteError, Put, TypeOK
    <2>3. QED
      BY <2>1, <2>2, FailedWithin
  <1>2. QED
    BY <1>1, TypeCorrect, SpecBounded, PTL DEF FailureNeverShortensBreaker
-----------------------------------------------------------------------------
(* Nothing but ReviveDisabled takes back a disable of the system *)

LEMMA PutKeepsDisabled ==
  ASSUME TypeOK, NEW u \in UIDs, NEW v \in UIDs, NEW f, Put(u, f),
         acct[u].disabled => f.disabled, acct[v].disabled
  PROVE  acct'[v].disabled
  BY DEF Put, TypeOK

\* A system-disabled account is enabled by ReviveDisabled alone: not by a late
\* success, a check-in, an authoritative balance or the operator's own switch.
THEOREM DisabledUntilRevivedHolds == Spec => DisabledUntilRevived
  <1>1. TypeOK /\ [Next]_vars
        => [\A u \in members \cap members' :
              acct[u].disabled /\ ~acct'[u].disabled => ReviveDisabled(u)]_vars
    <2> SUFFICES ASSUME TypeOK, [Next]_vars, NEW v \in members \cap members',
                        acct[v].disabled, ~ReviveDisabled(v), ~UNCHANGED vars
                 PROVE  acct'[v].disabled
      OBVIOUS
    <2>1. v \in UIDs /\ \A u \in UIDs : acct[u] \in Entry
      BY DEF TypeOK
    <2>2. ASSUME NEW u \in UIDs, ChatOutcome(u) PROVE acct'[v].disabled
      <3>1. acct[u] \in Entry
        BY <2>1
      <3>2. /\ acct[u].disabled => Succeeded(acct[u]).disabled
            /\ acct[u].disabled => Failed(acct[u]).disabled
            /\ acct[u].disabled => FailedUnexplained(acct[u]).disabled
        BY <3>1 DEF Succeeded, Failed, FailedUnexplained, Entry
      <3>3. acct[u].disabled => SessionDied(acct[u]).disabled
        BY <3>1 DEF SessionDied, DisableEntry, ClearCooling, Entry
      <3>4. \A d : acct[u].disabled => Debited(acct[u], d).disabled
        BY <3>1 DEF Debited, Entry
      <3>5. \A kind, d, why : acct[u].disabled => CooldownEntry(acct[u], kind, d, why).disabled
        BY <3>1 DEF CooldownEntry, Entry
      <3>6. \A d, why : acct[u].disabled => SoftBackoff(acct[u], d, why).disabled
        BY <3>1 DEF SoftBackoff, Entry
      <3>7. \A m : /\ acct[u].disabled => BlockModel(acct[u], m).disabled
                   /\ acct[u].disabled => UnblockModel(acct[u], m).disabled
                   /\ \A d : acct[u].disabled => LimitModel(acct[u], m, d).disabled
        BY <3>1 DEF BlockModel, UnblockModel, LimitModel, Entry
      <3>8. \A why : DisableEntry(acct[u], why).disabled
        BY <3>1 DEF DisableEntry, ClearCooling, Entry
      <3>9. PICK f : Put(u, f) /\ (acct[u].disabled => f.disabled)
        BY <2>2, <3>2, <3>3, <3>4, <3>5, <3>6, <3>7, <3>8
           DEF ChatOutcome, NoteSuccess, NoteError, NoteFailures, NoteSessionDead,
               NoteModelCost, CooldownSoft, CooldownUntilTomorrow4AM, CooldownSoftRateReset,
               SoftUntilReset, CooldownSoftRateBackoff, CooldownSoftForModel,
               BlockModelBackoff, BlockModelClear, Disable
      <3>10. QED
        BY <2>1, <3>9, PutKeepsDisabled
    <2>3. ASSUME NEW u \in UIDs, Upkeep(u) PROVE acct'[v].disabled
      <3>1. acct[u] \in Entry
        BY <2>1
      <3>2. CASE ReviveDisabled(u)
        BY <2>1, <3>2 DEF ReviveDisabled, Put, TypeOK
      <3>3. /\ acct[u].disabled => SessionAlive(acct[u]).disabled
            /\ \A r : acct[u].disabled => Reenabled(acct[u], r).disabled
            /\ \A c, x : acct[u].disabled => SetBalance(acct[u], c, x).disabled
            /\ \A b : acct[u].disabled => [acct[u] EXCEPT !.manualDisabled = b].disabled
        BY <3>1 DEF SessionAlive, Reenabled, SetBalance, Entry
      <3>4. CASE ~ReviveDisabled(u)
        <4>1. PICK f : Put(u, f) /\ (acct[u].disabled => f.disabled)
          BY <2>3, <3>3, <3>4
             DEF Upkeep, ClearSessionDead, ReenableIfCredits, SetCreditsDetailed, SetManualDisabled
        <4>2. QED
          BY <2>1, <4>1, PutKeepsDisabled
      <3>5. QED
        BY <3>2, <3>4
    <2>4. CASE PickPrunes
      BY <2>1, <2>4 DEF PickPrunes, PruneExpiredModelCooldowns, Entry
    <2>5. CASE \E found \in SUBSET UIDs : SyncToDir(found)
      BY <2>1, <2>5 DEF SyncToDir
    <2>6. CASE Tick
      BY <2>1, <2>6 DEF Tick, Elapse, Entry
    <2>7. CASE \E down \in BOOLEAN : Restart(down)
      <3>1. PICK down \in BOOLEAN : Restart(down)
        BY <2>7
      <3>2. Filed(acct[v]) \in Entry /\ Filed(acct[v]).disabled
        BY <2>1, FileType, FileKeeps
      <3>3. Elapse(Filed(acct[v])) \in Entry /\ Elapse(Filed(acct[v])).disabled
        BY <3>2, ElapseType DEF Elapse, Entry
      <3>4. \A e \in Entry : Loaded(e).disabled = e.disabled
        BY FileKeeps
      <3>5. QED
        BY <2>1, <3>1, <3>2, <3>3, <3>4 DEF Restart
    <2>8. QED
      BY <2>2, <2>3, <2>4, <2>5, <2>6, <2>7 DEF Next
  <1>2. QED
    BY <1>1, TypeCorrect, PTL DEF Spec, DisabledUntilRevived
-----------------------------------------------------------------------------
\* No restart makes an account usable that was not, nor the other way round.
THEOREM RestartKeepsHealth == Spec => RestartChangesNoHealth
  <1>1. TypeOK
        => [\A u \in UIDs, m \in Models :
              Restart(FALSE)
              => HealthyForModel(acct'[u], m) = HealthyForModel(acct[u], m)]_vars
    <2> SUFFICES ASSUME TypeOK, NEW u \in UIDs, NEW m \in Models, Restart(FALSE)
                 PROVE  HealthyForModel(acct'[u], m) = HealthyForModel(acct[u], m)
      OBVIOUS
    <2>1. acct[u] \in Entry /\ acct'[u] = Loaded(Filed(acct[u]))
      BY DEF TypeOK, Restart
    <2>2. Filed(acct[u]) \in Entry
      BY <2>1, FileType
    <2>3. SameHealth(acct[u], Filed(acct[u])) /\ SameHealth(Filed(acct[u]), acct'[u])
      BY <2>1, <2>2, FileKeeps
    <2>4. QED
      BY <2>3 DEF SameHealth, HealthyForModel, Healthy
  <1>2. QED
    BY <1>1, TypeCorrect, PTL DEF RestartChangesNoHealth
-----------------------------------------------------------------------------
\* A debit takes from the expiring credits until none is left.
THEOREM ExpiringSpentFirst == Spec => LongTermSpentLast
  <1>1. ASSUME NEW e \in Entry, NEW d \in Nat,
               Debited(e, d).credits - Debited(e, d).creditsExpiring
                 < e.credits - e.creditsExpiring
        PROVE  Debited(e, d).creditsExpiring = 0
    <2> DEFINE spent == Lesser(d, e.credits)
    <2>1. e.credits \in Nat /\ e.creditsExpiring \in Nat /\ spent \in Nat
      BY DEF Entry, Lesser
    <2>2. /\ Debited(e, d).credits = e.credits - spent
          /\ Debited(e, d).creditsExpiring = e.creditsExpiring - Lesser(spent, e.creditsExpiring)
      BY DEF Debited, Entry
    <2> HIDE DEF spent
    <2>3. QED
      BY <1>1, <2>1, <2>2 DEF Lesser
  <1>2. TypeOK
        => [\A u \in UIDs, d \in Debits :
              /\ NoteModelCost(u, d)
              /\ acct'[u].credits - acct'[u].creditsExpiring
                   < acct[u].credits - acct[u].creditsExpiring
              => acct'[u].creditsExpiring = 0]_vars
    <2> SUFFICES ASSUME TypeOK, NEW u \in UIDs, NEW d \in Debits, NoteModelCost(u, d),
                        acct'[u].credits - acct'[u].creditsExpiring
                          < acct[u].credits - acct[u].creditsExpiring
                 PROVE  acct'[u].creditsExpiring = 0
      OBVIOUS
    <2>1. acct[u] \in Entry /\ acct'[u] = Debited(acct[u], d)
      BY DEF TypeOK, NoteModelCost, Put
    <2>2. QED
      BY <1>1, <2>1, PoolAssumption
  <1>3. QED
    BY <1>2, TypeCorrect, PTL DEF LongTermSpentLast
-----------------------------------------------------------------------------
(* The slots *)

SlotInv ==
  \A r \in Requests :
    /\ req[r].pc = "cas" => req[r].cur < Limit[req[r].e]
    /\ req[r].pc = "relCas" => req[r].cur > 0

LeasesInv == LeasesTypeOK /\ SlotInv

LEMMA LimitType == Limit \in [Entries -> Nat]
  BY LeaseAssumption DEF Limit, Entries

LEMMA InitLeases == LeasesInit => LeasesInv
  BY LeaseAssumption DEF LeasesInit, LeasesInv, LeasesTypeOK, SlotInv, Entries, AcquirePCs, ReleasePCs, NoLease

PCs == {"idle", "held"} \cup AcquirePCs \cup ReleasePCs
Position == [pc : PCs, uid : Accounts, e : Entries, cur : Nat]

\* A step of one request to a position the invariant allows.
LEMMA MoveLeases ==
  ASSUME LeasesInv, NEW r \in Requests, NEW q \in Position, req' = [req EXCEPT ![r] = q],
         q.pc = "cas" => q.cur < Limit[q.e],
         q.pc = "relCas" => q.cur > 0,
         inFlight' \in [Entries -> Nat],
         lease' \in [Requests -> Entries \cup {NoLease}],
         UNCHANGED <<present, gen>>
  PROVE  LeasesInv'
  <1>1. LeasesTypeOK'
    BY DEF LeasesInv, LeasesTypeOK, Position, PCs
  <1>2. ASSUME NEW s \in Requests
        PROVE  /\ req'[s].pc = "cas" => req'[s].cur < Limit[req'[s].e]
               /\ req'[s].pc = "relCas" => req'[s].cur > 0
    <2>1. CASE s = r
      BY <2>1 DEF LeasesInv, LeasesTypeOK
    <2>2. CASE s # r
      BY <2>2 DEF LeasesInv, LeasesTypeOK, SlotInv
    <2>3. QED
      BY <2>1, <2>2
  <1>3. QED
    BY <1>1, <1>2 DEF LeasesInv, SlotInv, Limit

LEMMA StepLeases == LeasesInv /\ [LeasesNext]_leasesVars => LeasesInv'
  <1> SUFFICES ASSUME LeasesInv, [LeasesNext]_leasesVars PROVE LeasesInv'
    OBVIOUS
  <1>1. \A r \in Requests :
          /\ req[r] \in Position
          /\ \A pc \in PCs, e \in Entries, u \in Accounts, cur \in Nat :
               /\ [req[r] EXCEPT !.pc = pc] \in Position
               /\ [req[r] EXCEPT !.pc = pc, !.e = e] \in Position
               /\ [req[r] EXCEPT !.pc = pc, !.uid = u] \in Position
               /\ [req[r] EXCEPT !.pc = pc, !.cur = cur] \in Position
    BY ZenonT(40) DEF LeasesInv, LeasesTypeOK, Position, PCs
  <1>2. \A r \in Requests, p \in PCs \ {"cas", "relCas"} :
          /\ req' = [req EXCEPT ![r].pc = p]
          /\ inFlight' \in [Entries -> Nat]
          /\ lease' \in [Requests -> Entries \cup {NoLease}]
          /\ UNCHANGED <<present, gen>>
          => LeasesInv'
    <2> SUFFICES ASSUME NEW r \in Requests, NEW p \in PCs \ {"cas", "relCas"},
                        req' = [req EXCEPT ![r].pc = p],
                        inFlight' \in [Entries -> Nat],
                        lease' \in [Requests -> Entries \cup {NoLease}],
                        UNCHANGED <<present, gen>>
                 PROVE  LeasesInv'
      OBVIOUS
    <2> DEFINE q == [req[r] EXCEPT !.pc = p]
    <2>1. q \in Position /\ q.pc = p /\ req' = [req EXCEPT ![r] = q]
      BY <1>1 DEF Position
    <2> HIDE DEF q
    <2>2. QED
      BY <2>1, MoveLeases
  <1>3. /\ inFlight \in [Entries -> Nat]
        /\ lease \in [Requests -> Entries \cup {NoLease}]
        /\ \A u \in Accounts : <<u, gen[u]>> \in Entries
        /\ {"idle", "held", "lookup", "load", "relLookup", "relLoad"}
             \subseteq PCs \ {"cas", "relCas"}
        /\ "cas" \in PCs /\ "relCas" \in PCs
    BY DEF LeasesInv, LeasesTypeOK, Entries, PCs, AcquirePCs, ReleasePCs
  <1>4. \A r \in Requests : req[r].e \in Entries /\ req[r].cur \in Nat /\ req[r].uid \in Accounts
    BY <1>1 DEF Position
  <1>5. ASSUME NEW r \in Requests, NEW p \in PCs \ {"cas", "relCas"}, NEW e \in Entries,
               req' = [req EXCEPT ![r].pc = p, ![r].e = e],
               UNCHANGED <<present, gen, inFlight, lease>>
        PROVE  LeasesInv'
    <2> DEFINE q == [req[r] EXCEPT !.pc = p, !.e = e]
    <2>1. q \in Position /\ q.pc = p /\ req' = [req EXCEPT ![r] = q]
      BY <1>1, <1>5 DEF Position
    <2> HIDE DEF q
    <2>2. QED
      BY <1>3, <1>5, <2>1, MoveLeases
  <1>6. ASSUME NEW r \in Requests, AcquireLookup(r) PROVE LeasesInv'
    <2>1. CASE req[r].uid \in present
      <3>1. PICK e \in Entries : req' = [req EXCEPT ![r].pc = "load", ![r].e = e]
        BY <1>3, <1>4, <1>6, <2>1 DEF AcquireLookup
      <3>2. QED
        BY <1>3, <1>5, <1>6, <3>1 DEF AcquireLookup
    <2>2. CASE req[r].uid \notin present
      BY <1>2, <1>3, <1>6, <2>2 DEF AcquireLookup
    <2>3. QED
      BY <2>1, <2>2
  <1>7. ASSUME NEW r \in Requests, AcquireLoad(r) PROVE LeasesInv'
    <2> DEFINE e == req[r].e
    <2>1. CASE Limit[e] = 0
      <3>1. inFlight' \in [Entries -> Nat] /\ lease' \in [Requests -> Entries \cup {NoLease}]
        BY <1>3, <1>4, <1>7, <2>1 DEF AcquireLoad
      <3>2. QED
        BY <1>2, <1>3, <1>7, <2>1, <3>1 DEF AcquireLoad
    <2>2. CASE Limit[e] # 0 /\ inFlight[e] >= Limit[e]
      BY <1>2, <1>3, <1>7, <2>2 DEF AcquireLoad
    <2>3. CASE Limit[e] # 0 /\ ~(inFlight[e] >= Limit[e])
      <3> DEFINE q == [req[r] EXCEPT !.pc = "cas", !.cur = inFlight[e]]
      <3>1. inFlight[e] < Limit[e] /\ inFlight[e] \in Nat
        BY <1>3, <1>4, <2>3, LimitType
      <3>2. q \in Position /\ q.cur = inFlight[e] /\ q.e = e /\ q.pc = "cas"
        BY <1>1, <1>3, <3>1, ZenonT(40) DEF Position
      <3>3. req' = [req EXCEPT ![r] = q] /\ UNCHANGED <<present, gen, inFlight, lease>>
        BY <1>7, <2>3 DEF AcquireLoad
      <3> HIDE DEF q
      <3>4. QED
        BY <1>3, <3>1, <3>2, <3>3, MoveLeases
    <2>4. QED
      BY <2>1, <2>2, <2>3
  <1>8. ASSUME NEW r \in Requests, AcquireCAS(r) PROVE LeasesInv'
    <2>1. inFlight' \in [Entries -> Nat] /\ lease' \in [Requests -> Entries \cup {NoLease}]
      BY <1>3, <1>4, <1>8 DEF AcquireCAS
    <2>2. QED
      BY <1>2, <1>3, <1>8, <2>1 DEF AcquireCAS
  <1>9. ASSUME NEW r \in Requests, ReleaseLookup(r) PROVE LeasesInv'
    <2>1. CASE req[r].uid \in present
      <3>1. PICK e \in Entries : req' = [req EXCEPT ![r].pc = "relLoad", ![r].e = e]
        BY <1>3, <1>4, <1>9, <2>1 DEF ReleaseLookup
      <3>2. QED
        BY <1>3, <1>5, <1>9, <2>1, <3>1 DEF ReleaseLookup
    <2>2. CASE req[r].uid \notin present
      <3>1. lease' \in [Requests -> Entries \cup {NoLease}]
        BY <1>3, <1>9, <2>2 DEF ReleaseLookup
      <3>2. QED
        BY <1>2, <1>3, <1>9, <2>2, <3>1 DEF ReleaseLookup
    <2>3. QED
      BY <2>1, <2>2
  <1>10. ASSUME NEW r \in Requests, ReleaseLoad(r) PROVE LeasesInv'
    <2> DEFINE e == req[r].e
    <2>1. lease' \in [Requests -> Entries \cup {NoLease}]
      BY <1>3, <1>10 DEF ReleaseLoad
    <2>2. CASE inFlight[e] = 0
      BY <1>2, <1>3, <1>10, <2>1, <2>2 DEF ReleaseLoad
    <2>3. CASE inFlight[e] # 0
      <3> DEFINE q == [req[r] EXCEPT !.pc = "relCas", !.cur = inFlight[e]]
      <3>1. inFlight[e] \in Nat /\ inFlight[e] > 0
        BY <1>3, <1>4, <2>3
      <3>2. q \in Position /\ q.cur = inFlight[e] /\ q.pc = "relCas"
        BY <1>1, <1>3, <3>1 DEF Position
      <3>3. req' = [req EXCEPT ![r] = q] /\ UNCHANGED <<present, gen, inFlight>>
        BY <1>10, <2>3 DEF ReleaseLoad
      <3> HIDE DEF q
      <3>4. QED
        BY <1>3, <2>1, <3>1, <3>2, <3>3, MoveLeases
    <2>4. QED
      BY <2>2, <2>3
  <1>11. ASSUME NEW r \in Requests, ReleaseCAS(r) PROVE LeasesInv'
    <2>1. req[r].cur - 1 \in Nat
      BY <1>4, <1>11 DEF ReleaseCAS, LeasesInv, SlotInv
    <2>2. inFlight' \in [Entries -> Nat] /\ lease' \in [Requests -> Entries \cup {NoLease}]
      BY <1>3, <1>4, <1>11, <2>1 DEF ReleaseCAS
    <2>3. QED
      BY <1>2, <1>3, <1>11, <2>2 DEF ReleaseCAS
  <1>12. ASSUME NEW r \in Requests, Finish(r) PROVE LeasesInv'
    BY <1>2, <1>3, <1>12 DEF Finish
  <1>13. ASSUME NEW r \in Requests, NEW u \in Accounts, Start(r, u) PROVE LeasesInv'
    <2> DEFINE q == [req[r] EXCEPT !.pc = "lookup", !.uid = u]
    <2>1. q \in Position /\ q.pc = "lookup" /\ req' = [req EXCEPT ![r] = q]
      BY <1>1, <1>3, <1>13 DEF Start, Position
    <2> HIDE DEF q
    <2>2. QED
      BY <1>3, <1>13, <2>1, MoveLeases DEF Start
  <1>14. ASSUME NEW found \in SUBSET Accounts, SyncEntries(found) PROVE LeasesInv'
    BY <1>14, LeaseAssumption DEF SyncEntries, LeasesInv, LeasesTypeOK, SlotInv, Limit
  <1>15. CASE UNCHANGED leasesVars
    BY <1>15 DEF leasesVars, LeasesInv, LeasesTypeOK, SlotInv, Limit
  <1>16. QED
    BY <1>6, <1>7, <1>8, <1>9, <1>10, <1>11, <1>12, <1>13, <1>14, <1>15 DEF LeasesNext, Step

\* Counters are natural numbers and requests are where their code can be.
THEOREM LeasesTypeCorrect == LeasesSpec => []LeasesTypeOK
  BY InitLeases, StepLeases, PTL DEF LeasesSpec, LeasesInv
-----------------------------------------------------------------------------
\* The loops of Acquire and Release implement indivisible slots: every step is
\* a Take, a Give or leaves the counters alone.
THEOREM Refinement == LeasesSpec => SlotsSpec
  <1>1. LeasesInit => Slots!Init
    BY DEF LeasesInit, Slots!Init
  <1>2. LeasesInv /\ [LeasesNext]_leasesVars => [Slots!Next]_inFlight
    <2> SUFFICES ASSUME LeasesInv, [LeasesNext]_leasesVars, inFlight' # inFlight PROVE Slots!Next
      OBVIOUS
    <2> USE LimitType DEF LeasesInv, LeasesTypeOK, SlotInv
    <2>1. ASSUME NEW r \in Requests, AcquireLoad(r) PROVE Slots!Next
      BY <2>1 DEF AcquireLoad, Slots!Next, Slots!Take
    <2>2. ASSUME NEW r \in Requests, AcquireCAS(r) PROVE Slots!Next
      BY <2>2 DEF AcquireCAS, Slots!Next, Slots!Take
    <2>3. ASSUME NEW r \in Requests, ReleaseCAS(r) PROVE Slots!Next
      BY <2>3 DEF ReleaseCAS, Slots!Next, Slots!Give
    <2>4. QED
      BY <2>1, <2>2, <2>3
         DEF LeasesNext, Step, leasesVars, AcquireLookup, ReleaseLookup, ReleaseLoad, Finish, Start, SyncEntries
  <1>3. QED
    BY <1>1, <1>2, InitLeases, StepLeases, PTL DEF LeasesSpec, SlotsSpec, Slots!Spec
-----------------------------------------------------------------------------
(* Leases and counters *)

\* A request has looked up entries that existed, of the account it asks for.
Seen ==
  \A r \in Requests :
    /\ req[r].e[2] <= gen[req[r].e[1]]
    /\ req[r].pc \in {"load", "cas", "relLoad", "relCas"} => req[r].e[1] = req[r].uid

\* A request has a lease from its Acquire to the end of its Release, and gives it back to
\* the entry it was taken of or to a later one.
Owned ==
  \A r \in Requests :
    /\ lease[r] \in Entries <=> req[r].pc \in {"held"} \cup ReleasePCs
    /\ lease[r] \in Entries => lease[r][1] = req[r].uid /\ lease[r][2] <= gen[req[r].uid]
    /\ req[r].pc \in {"relLoad", "relCas"} => lease[r][2] <= req[r].e[2]

\* Entries to come count nothing.
Unused == \A e \in Entries : e[2] > gen[e[1]] => inFlight[e] = 0

Bookkeeping == Seen /\ Owned /\ Unused

Limited == \A e \in Entries : Limit[e] > 0 => inFlight[e] <= Limit[e]

\* The first entry of an account counts every lease of it.
Backed == \A u \in Accounts : gen[u] = 0 => Cardinality(Holders(<<u, 0>>)) <= inFlight[<<u, 0>>]

Counted == NoPhantomLease /\ Limited /\ Backed

LEMMA EntryFacts ==
  /\ NoLease \notin Entries
  /\ \A e \in Entries : e[1] \in Accounts /\ e[2] \in 0..MaxGen /\ e = <<e[1], e[2]>>
  /\ \A u \in Accounts, g \in 0..MaxGen : <<u, g>> \in Entries /\ <<u, g>>[1] = u /\ <<u, g>>[2] = g
  BY DEF Entries, NoLease

\* Taking and giving back a lease changes the number of holders by one, of that entry only.
LEMMA HolderCount ==
  ASSUME NEW e
  PROVE  /\ IsFiniteSet(Holders(e)) /\ Cardinality(Holders(e)) \in Nat
         /\ \A r \in Requests \ Holders(e) :
              Cardinality(Holders(e) \cup {r}) = Cardinality(Holders(e)) + 1
         /\ \A r \in Holders(e) : Cardinality(Holders(e) \ {r}) = Cardinality(Holders(e)) - 1
  <1>1. Holders(e) \subseteq Requests
    BY DEF Holders
  <1>2. IsFiniteSet(Holders(e))
    BY <1>1, LeaseAssumption, FS_Subset
  <1>3. QED
    BY <1>2, FS_CardinalityType, FS_AddElement, FS_RemoveElement

\* The lease of r becomes l: who holds what then.
LEMMA HoldersMove ==
  ASSUME LeasesTypeOK, NEW r \in Requests, NEW l, lease' = [lease EXCEPT ![r] = l], NEW e
  PROVE  Holders(e)' = IF l = e THEN Holders(e) \cup {r} ELSE Holders(e) \ {r}
  BY DEF Holders, LeasesTypeOK

LEMMA MoveKeepsBooks ==
  ASSUME LeasesInv, Bookkeeping, NEW r \in Requests, NEW q \in Position, NEW l \in Entries \cup {NoLease},
         req' = [req EXCEPT ![r] = q], lease' = [lease EXCEPT ![r] = l],
         UNCHANGED <<present, gen>>,
         q.e[2] <= gen[q.e[1]],
         q.pc \in {"load", "cas", "relLoad", "relCas"} => q.e[1] = q.uid,
         l \in Entries <=> q.pc \in {"held"} \cup ReleasePCs,
         l \in Entries => l[1] = q.uid /\ l[2] <= gen[q.uid],
         q.pc \in {"relLoad", "relCas"} => l[2] <= q.e[2],
         \A e \in Entries : inFlight'[e] # inFlight[e] => e[2] <= gen[e[1]]
  PROVE  Bookkeeping'
  <1>1. \A s \in Requests : /\ req'[s] = IF s = r THEN q ELSE req[s]
                           /\ lease'[s] = IF s = r THEN l ELSE lease[s]
    BY DEF LeasesInv, LeasesTypeOK
  <1>2. Seen'
    BY <1>1 DEF Bookkeeping, Seen
  <1>3. Owned'
    BY <1>1 DEF Bookkeeping, Owned
  <1>4. Unused'
    BY EntryFacts DEF Bookkeeping, Unused, LeasesInv, LeasesTypeOK
  <1>5. QED
    BY <1>2, <1>3, <1>4 DEF Bookkeeping

\* Where a request is.
LEMMA PositionType ==
  ASSUME LeasesInv, NEW r \in Requests
  PROVE  /\ req[r] \in Position /\ req[r].pc \in PCs
         /\ req[r].e \in Entries /\ req[r].uid \in Accounts /\ req[r].cur \in Nat
         /\ lease[r] \in Entries \cup {NoLease}
  BY DEF LeasesInv, LeasesTypeOK, Position, PCs

\* The same for a step that leaves leases and counters alone.
LEMMA StayKeepsBooks ==
  ASSUME LeasesInv, Bookkeeping, NEW r \in Requests, NEW q \in Position,
         req' = [req EXCEPT ![r] = q], UNCHANGED <<present, gen, inFlight, lease>>,
         q.e[2] <= gen[q.e[1]],
         q.pc \in {"load", "cas", "relLoad", "relCas"} => q.e[1] = q.uid,
         lease[r] \in Entries <=> q.pc \in {"held"} \cup ReleasePCs,
         lease[r] \in Entries => lease[r][1] = q.uid /\ lease[r][2] <= gen[q.uid],
         q.pc \in {"relLoad", "relCas"} => lease[r][2] <= q.e[2]
  PROVE  Bookkeeping'
  <1>1. lease[r] \in Entries \cup {NoLease} /\ lease' = [lease EXCEPT ![r] = lease[r]]
    BY DEF LeasesInv, LeasesTypeOK
  <1>2. QED
    BY <1>1, MoveKeepsBooks

LEMMA StepBooks == LeasesInv /\ Bookkeeping /\ [LeasesNext]_leasesVars => Bookkeeping'
  <1> SUFFICES ASSUME LeasesInv, Bookkeeping, [LeasesNext]_leasesVars PROVE Bookkeeping'
    OBVIOUS
  <1>1. /\ PCs = {"idle", "held", "lookup", "load", "cas", "relLookup", "relLoad", "relCas"}
        /\ {"held"} \cup ReleasePCs = {"held", "relLookup", "relLoad", "relCas"}
    BY DEF PCs, AcquirePCs, ReleasePCs
  \* Only the place of r changes.
  <1>2. ASSUME NEW r \in Requests, NEW p \in PCs, NEW l \in Entries \cup {NoLease},
               req' = [req EXCEPT ![r].pc = p], lease' = [lease EXCEPT ![r] = l],
               UNCHANGED <<present, gen>>,
               p \in {"load", "cas", "relLoad", "relCas"} => req[r].e[1] = req[r].uid,
               l \in Entries <=> p \in {"held"} \cup ReleasePCs,
               l \in Entries => l[1] = req[r].uid /\ l[2] <= gen[req[r].uid],
               p \in {"relLoad", "relCas"} => l[2] <= req[r].e[2],
               \A e \in Entries : inFlight'[e] # inFlight[e] => e = req[r].e
        PROVE  Bookkeeping'
    <2> DEFINE q == [req[r] EXCEPT !.pc = p]
    <2>1. /\ q \in Position /\ q.pc = p /\ q.e = req[r].e /\ q.uid = req[r].uid
          /\ req' = [req EXCEPT ![r] = q]
      BY <1>2, PositionType DEF Position
    <2>2. q.e[2] <= gen[q.e[1]]
      BY <2>1 DEF Bookkeeping, Seen
    <2> HIDE DEF q
    <2>3. QED
      BY <1>2, <2>1, <2>2, MoveKeepsBooks
  <1>2a. ASSUME NEW r \in Requests, NEW p \in PCs,
                req' = [req EXCEPT ![r].pc = p], UNCHANGED <<present, gen, inFlight, lease>>,
                p \in {"load", "cas", "relLoad", "relCas"} => req[r].e[1] = req[r].uid,
                lease[r] \in Entries <=> p \in {"held"} \cup ReleasePCs,
                p \in {"relLoad", "relCas"} => lease[r][2] <= req[r].e[2]
         PROVE  Bookkeeping'
    <2>1. lease[r] \in Entries => lease[r][1] = req[r].uid /\ lease[r][2] <= gen[req[r].uid]
      BY DEF Bookkeeping, Owned
    <2>2. /\ lease[r] \in Entries \cup {NoLease} /\ lease' = [lease EXCEPT ![r] = lease[r]]
          /\ UNCHANGED <<present, gen>>
          /\ \A e \in Entries : inFlight'[e] # inFlight[e] => e = req[r].e
      BY <1>2a DEF LeasesInv, LeasesTypeOK
    <2>3. QED
      BY <1>2, <1>2a, <2>1, <2>2
  <1>3. ASSUME NEW r \in Requests, AcquireLookup(r) PROVE Bookkeeping'
    <2>1. lease[r] = NoLease
      BY <1>1, <1>3, PositionType DEF AcquireLookup, Bookkeeping, Owned
    <2>2. CASE req[r].uid \in present
      <3> DEFINE e == <<req[r].uid, gen[req[r].uid]>>
                 q == [req[r] EXCEPT !.pc = "load", !.e = e]
      <3>1. e \in Entries /\ e[1] = req[r].uid /\ e[2] = gen[req[r].uid] /\ e[2] \in Nat
        BY PositionType DEF LeasesInv, LeasesTypeOK, Entries
      <3>2. /\ q \in Position /\ q.pc = "load" /\ q.e = e /\ q.uid = req[r].uid
            /\ req' = [req EXCEPT ![r] = q] /\ UNCHANGED <<present, gen, inFlight, lease>>
        BY <1>1, <1>3, <2>2, <3>1, PositionType DEF AcquireLookup, Position
      <3>3. q.e[2] <= gen[q.e[1]] /\ q.e[1] = q.uid /\ q.e[2] = gen[q.uid]
        BY <3>1, <3>2
      <3> HIDE DEF q, e
      <3>4. QED
        BY <1>1, <2>1, <3>2, <3>3, EntryFacts, StayKeepsBooks
    <2>3. CASE req[r].uid \notin present
      BY <1>1, <1>2a, <1>3, <2>1, <2>3, EntryFacts, PositionType DEF AcquireLookup
    <2>4. QED
      BY <2>2, <2>3
  <1>4. ASSUME NEW r \in Requests, AcquireLoad(r) PROVE Bookkeeping'
    <2>1. /\ lease[r] = NoLease /\ req[r].e[1] = req[r].uid
          /\ req[r].e[2] <= gen[req[r].uid]
      BY <1>1, <1>4, PositionType DEF AcquireLoad, Bookkeeping, Owned, Seen
    <2>2. CASE Limit[req[r].e] = 0
      <3>1. /\ req' = [req EXCEPT ![r].pc = "held"] /\ lease' = [lease EXCEPT ![r] = req[r].e]
            /\ UNCHANGED <<present, gen>>
            /\ \A e \in Entries : inFlight'[e] # inFlight[e] => e = req[r].e
        BY <1>4, <2>2 DEF AcquireLoad, LeasesInv, LeasesTypeOK
      <3>2. QED
        BY <1>1, <1>2, <2>1, <3>1, PositionType
    <2>3. CASE Limit[req[r].e] # 0 /\ inFlight[req[r].e] >= Limit[req[r].e]
      BY <1>1, <1>2a, <1>4, <2>1, <2>3, EntryFacts, PositionType DEF AcquireLoad
    <2>4. CASE Limit[req[r].e] # 0 /\ ~(inFlight[req[r].e] >= Limit[req[r].e])
      <3> DEFINE q == [req[r] EXCEPT !.pc = "cas", !.cur = inFlight[req[r].e]]
      <3>1. inFlight[req[r].e] \in Nat
        BY PositionType DEF LeasesInv, LeasesTypeOK
      <3>2. /\ q \in Position /\ q.pc = "cas" /\ q.e = req[r].e /\ q.uid = req[r].uid
            /\ req' = [req EXCEPT ![r] = q] /\ UNCHANGED <<present, gen, inFlight, lease>>
        BY <1>1, <1>4, <2>4, <3>1, PositionType DEF AcquireLoad, Position
      <3> HIDE DEF q
      <3>3. QED
        BY <1>1, <2>1, <3>2, EntryFacts, PositionType, StayKeepsBooks
    <2>5. QED
      BY <2>2, <2>3, <2>4
  <1>5. ASSUME NEW r \in Requests, AcquireCAS(r) PROVE Bookkeeping'
    <2>1. /\ lease[r] = NoLease /\ req[r].e[1] = req[r].uid
          /\ req[r].e[2] <= gen[req[r].uid]
      BY <1>1, <1>5, PositionType DEF AcquireCAS, Bookkeeping, Owned, Seen
    <2>2. CASE inFlight[req[r].e] = req[r].cur
      <3>1. /\ req' = [req EXCEPT ![r].pc = "held"] /\ lease' = [lease EXCEPT ![r] = req[r].e]
            /\ UNCHANGED <<present, gen>>
            /\ \A e \in Entries : inFlight'[e] # inFlight[e] => e = req[r].e
        BY <1>5, <2>2 DEF AcquireCAS, LeasesInv, LeasesTypeOK
      <3>2. QED
        BY <1>1, <1>2, <2>1, <3>1, PositionType
    <2>3. CASE inFlight[req[r].e] # req[r].cur
      BY <1>1, <1>2a, <1>5, <2>1, <2>3, EntryFacts, PositionType DEF AcquireCAS
    <2>4. QED
      BY <2>2, <2>3
  <1>6. ASSUME NEW r \in Requests, Finish(r) PROVE Bookkeeping'
    <2>1. lease[r] \in Entries /\ lease[r][1] = req[r].uid /\ lease[r][2] <= gen[req[r].uid]
      BY <1>1, <1>6 DEF Finish, Bookkeeping, Owned
    <2>2. QED
      BY <1>1, <1>2a, <1>6, <2>1, PositionType DEF Finish
  <1>7. ASSUME NEW r \in Requests, ReleaseLookup(r) PROVE Bookkeeping'
    <2>1. lease[r] \in Entries /\ lease[r][1] = req[r].uid /\ lease[r][2] <= gen[req[r].uid]
      BY <1>1, <1>7 DEF ReleaseLookup, Bookkeeping, Owned
    <2>2. CASE req[r].uid \in present
      <3> DEFINE e == <<req[r].uid, gen[req[r].uid]>>
                 q == [req[r] EXCEPT !.pc = "relLoad", !.e = e]
      <3>1. e \in Entries /\ e[1] = req[r].uid /\ e[2] = gen[req[r].uid] /\ e[2] \in Nat
        BY PositionType DEF LeasesInv, LeasesTypeOK, Entries
      <3>2. /\ q \in Position /\ q.pc = "relLoad" /\ q.e = e /\ q.uid = req[r].uid
            /\ req' = [req EXCEPT ![r] = q] /\ UNCHANGED <<present, gen, inFlight, lease>>
        BY <1>1, <1>7, <2>2, <3>1, PositionType DEF ReleaseLookup, Position
      <3>3. q.e[2] <= gen[q.e[1]] /\ q.e[1] = q.uid /\ q.e[2] = gen[q.uid]
        BY <3>1, <3>2
      <3> HIDE DEF q, e
      <3>4. QED
        BY <1>1, <2>1, <3>2, <3>3, EntryFacts, StayKeepsBooks
    <2>3. CASE req[r].uid \notin present
      BY <1>1, <1>2, <1>7, <2>1, <2>3, EntryFacts, PositionType DEF ReleaseLookup
    <2>4. QED
      BY <2>2, <2>3
  <1>8. ASSUME NEW r \in Requests, ReleaseLoad(r) PROVE Bookkeeping'
    <2>1. /\ lease[r] \in Entries /\ lease[r][1] = req[r].uid /\ lease[r][2] <= gen[req[r].uid]
          /\ lease[r][2] <= req[r].e[2] /\ req[r].e[1] = req[r].uid
      BY <1>1, <1>8 DEF ReleaseLoad, Bookkeeping, Owned, Seen
    <2>2. CASE inFlight[req[r].e] = 0
      BY <1>1, <1>2, <1>8, <2>1, <2>2, EntryFacts, PositionType DEF ReleaseLoad
    <2>3. CASE inFlight[req[r].e] # 0
      <3> DEFINE q == [req[r] EXCEPT !.pc = "relCas", !.cur = inFlight[req[r].e]]
      <3>1. inFlight[req[r].e] \in Nat
        BY PositionType DEF LeasesInv, LeasesTypeOK
      <3>2. /\ q \in Position /\ q.pc = "relCas" /\ q.e = req[r].e /\ q.uid = req[r].uid
            /\ req' = [req EXCEPT ![r] = q] /\ UNCHANGED <<present, gen, inFlight, lease>>
        BY <1>1, <1>8, <2>3, <3>1, PositionType DEF ReleaseLoad, Position
      <3>3. q.e[2] <= gen[q.e[1]]
        BY <3>2 DEF Bookkeeping, Seen
      <3> HIDE DEF q
      <3>4. QED
        BY <1>1, <2>1, <3>2, <3>3, PositionType, StayKeepsBooks
    <2>4. QED
      BY <2>2, <2>3
  <1>9. ASSUME NEW r \in Requests, ReleaseCAS(r) PROVE Bookkeeping'
    <2>1. /\ lease[r] \in Entries /\ lease[r][1] = req[r].uid /\ lease[r][2] <= gen[req[r].uid]
          /\ lease[r][2] <= req[r].e[2] /\ req[r].e[1] = req[r].uid
      BY <1>1, <1>9 DEF ReleaseCAS, Bookkeeping, Owned, Seen
    <2>2. CASE inFlight[req[r].e] = req[r].cur
      <3>1. /\ req' = [req EXCEPT ![r].pc = "idle"] /\ lease' = [lease EXCEPT ![r] = NoLease]
            /\ UNCHANGED <<present, gen>>
            /\ \A e \in Entries : inFlight'[e] # inFlight[e] => e = req[r].e
        BY <1>9, <2>2 DEF ReleaseCAS, LeasesInv, LeasesTypeOK
      <3>2. QED
        BY <1>1, <1>2, <3>1, EntryFacts, PositionType
    <2>3. CASE inFlight[req[r].e] # req[r].cur
      BY <1>1, <1>2a, <1>9, <2>1, <2>3, PositionType DEF ReleaseCAS
    <2>4. QED
      BY <2>2, <2>3
  <1>10. ASSUME NEW r \in Requests, NEW u \in Accounts, Start(r, u) PROVE Bookkeeping'
    <2> DEFINE q == [req[r] EXCEPT !.pc = "lookup", !.uid = u]
    <2>1. /\ q \in Position /\ q.pc = "lookup" /\ q.e = req[r].e /\ q.uid = u
          /\ req' = [req EXCEPT ![r] = q] /\ UNCHANGED <<present, gen, inFlight, lease>>
      BY <1>1, <1>10, PositionType DEF Start, Position
    <2>2. lease[r] = NoLease
      BY <1>1, <1>10, PositionType DEF Start, Bookkeeping, Owned
    <2>3. q.e[2] <= gen[q.e[1]]
      BY <2>1 DEF Bookkeeping, Seen
    <2> HIDE DEF q
    <2>4. QED
      BY <1>1, <2>1, <2>2, <2>3, EntryFacts, PositionType, StayKeepsBooks
  <1>11. ASSUME NEW found \in SUBSET Accounts, SyncEntries(found) PROVE Bookkeeping'
    <2>1. \A u \in Accounts : gen'[u] \in Nat /\ gen[u] \in Nat /\ gen[u] <= gen'[u]
      BY <1>11, LeaseAssumption DEF SyncEntries, LeasesInv, LeasesTypeOK
    <2>2. Seen'
      BY <1>11, <2>1, PositionType, EntryFacts, LeaseAssumption DEF Bookkeeping, Seen, SyncEntries
    <2>3. Owned'
      BY <1>11, <2>1, PositionType, EntryFacts, LeaseAssumption DEF Bookkeeping, Owned, SyncEntries
    <2>4. Unused'
      BY <1>11, <2>1, EntryFacts, LeaseAssumption DEF Bookkeeping, Unused, SyncEntries
    <2>5. QED
      BY <2>2, <2>3, <2>4 DEF Bookkeeping
  <1>12. CASE UNCHANGED leasesVars
    BY <1>12 DEF leasesVars, Bookkeeping, Seen, Owned, Unused
  <1>13. QED
    BY <1>3, <1>4, <1>5, <1>6, <1>7, <1>8, <1>9, <1>10, <1>11, <1>12 DEF LeasesNext, Step

LEMMA InitBooks == LeasesInit => Bookkeeping /\ Counted
  <1> SUFFICES ASSUME LeasesInit PROVE Bookkeeping /\ Counted
    OBVIOUS
  <1>1. PICK u \in Accounts : req = [r \in Requests |-> [pc |-> "idle", uid |-> u, e |-> <<u, 0>>, cur |-> 0]]
    BY DEF LeasesInit
  <1>2. Seen
    BY <1>1 DEF LeasesInit, Seen
  <1>3. Owned
    BY <1>1, EntryFacts DEF LeasesInit, Owned, ReleasePCs
  <1>4. Unused /\ Limited
    BY LimitType DEF LeasesInit, Unused, Limited
  <1>5. 0 \in 0..MaxGen
    BY LeaseAssumption
  <1>6. \A v \in Accounts : <<v, 0>> \in Entries /\ inFlight[<<v, 0>>] = 0 /\ gen[v] = 0
    BY <1>5, EntryFacts DEF LeasesInit
  <1>7. \A v \in Accounts : Holders(<<v, 0>>) = {}
    BY <1>6, EntryFacts DEF LeasesInit, Holders
  <1>8. \A v \in Accounts : Cardinality(Holders(<<v, 0>>)) = 0
    BY <1>7, FS_EmptySet
  <1>9. NoPhantomLease /\ Backed
    BY <1>6, <1>8 DEF LeasesInit, NoPhantomLease, Backed
  <1>10. QED
    BY <1>2, <1>3, <1>4, <1>9 DEF Bookkeeping, Counted

\* The counts after a step that may raise one counter with a lease of it.
LEMMA TakeCounted ==
  ASSUME LeasesInv, Bookkeeping, Counted, NEW r \in Requests, lease[r] = NoLease,
         LET e == req[r].e
         IN  /\ inFlight' = [inFlight EXCEPT ![e] = @ + 1] /\ lease' = [lease EXCEPT ![r] = e]
             /\ Limit[e] > 0 => inFlight[e] < Limit[e],
         UNCHANGED <<present, gen>>
  PROVE  Counted'
  <1> DEFINE e == req[r].e
  <1>1. e \in Entries /\ inFlight \in [Entries -> Nat] /\ LeasesTypeOK
    BY PositionType DEF LeasesInv, LeasesTypeOK
  <1>2. \A c \in Entries : /\ inFlight'[c] = IF c = e THEN inFlight[c] + 1 ELSE inFlight[c]
                           /\ Holders(c)' = IF c = e THEN Holders(c) \cup {r} ELSE Holders(c) \ {r}
                           /\ r \notin Holders(c)
    <2> TAKE c \in Entries
    <2>1. inFlight'[c] = IF c = e THEN inFlight[c] + 1 ELSE inFlight[c]
      BY <1>1
    <2>2. Holders(c)' = IF e = c THEN Holders(c) \cup {r} ELSE Holders(c) \ {r}
      BY <1>1, HoldersMove
    <2>3. r \notin Holders(c)
      BY EntryFacts DEF Holders
    <2>4. QED
      BY <2>1, <2>2, <2>3
  <1>3. \A c \in Entries :
          /\ Cardinality(Holders(c)) \in Nat /\ Cardinality(Holders(c))' \in Nat
          /\ Cardinality(Holders(c))' - inFlight'[c] = Cardinality(Holders(c)) - inFlight[c]
    <2> TAKE c \in Entries
    <2>1. Cardinality(Holders(c)) \in Nat /\ Cardinality(Holders(c) \cup {r}) = Cardinality(Holders(c)) + 1
      BY <1>2, HolderCount
    <2>2. Holders(c) \ {r} = Holders(c)
      BY <1>2
    <2>3. inFlight[c] \in Nat
      BY <1>1
    <2>4. CASE c = e
      <3>1. inFlight'[c] = inFlight[c] + 1 /\ Holders(c)' = Holders(c) \cup {r}
        BY <1>2, <2>4
      <3>2. QED
        BY <2>1, <2>3, <3>1
    <2>5. CASE c # e
      BY <1>2, <2>1, <2>2, <2>3, <2>5
    <2>6. QED
      BY <2>4, <2>5
  <1>4. \A u \in Accounts : <<u, gen[u]>> \in Entries /\ (gen[u] = 0 => <<u, 0>> \in Entries)
    BY LeaseAssumption DEF LeasesInv, LeasesTypeOK, Entries
  <1>5. NoPhantomLease'
    <2> SUFFICES ASSUME NEW u \in present, NEW c \in Entries, c = <<u, gen[u]>>
                 PROVE  inFlight'[c] <= Cardinality(Holders(c))'
      BY <1>1, <1>4 DEF NoPhantomLease, Holders, LeasesTypeOK
    <2>1. inFlight[c] <= Cardinality(Holders(c))
      BY DEF Counted, NoPhantomLease
    <2>2. inFlight[c] \in Nat /\ inFlight'[c] \in Nat
      BY <1>1, <1>2, <2>1
    <2>3. QED
      BY <1>3, <2>1, <2>2
  <1>6. Backed'
    BY <1>1, <1>2, <1>3, <1>4 DEF Counted, Backed
  <1>7. Limited'
    <2>1. Limit' = Limit
      BY DEF Limit
    <2>2. QED
      BY <1>1, <1>2, <2>1, LimitType DEF Counted, Limited
  <1>8. QED
    BY <1>5, <1>6, <1>7 DEF Counted

\* The counts after a step that gives back the lease of r, and may lower the counter of
\* the entry r looked up.
LEMMA GiveCounted ==
  ASSUME LeasesInv, Bookkeeping, Counted, NEW r \in Requests, lease[r] \in Entries,
         lease' = [lease EXCEPT ![r] = NoLease],
         \/ req[r].uid \notin present /\ UNCHANGED inFlight
         \/ /\ req[r].pc \in {"relLoad", "relCas"}
            /\ \/ inFlight[req[r].e] = 0 /\ UNCHANGED inFlight
               \/ inFlight[req[r].e] > 0 /\ inFlight' = [inFlight EXCEPT ![req[r].e] = @ - 1],
         UNCHANGED <<present, gen>>
  PROVE  Counted'
  <1> DEFINE e == req[r].e
  <1>1. /\ e \in Entries /\ inFlight \in [Entries -> Nat] /\ LeasesTypeOK
        /\ inFlight' \in [Entries -> Nat]
    BY PositionType DEF LeasesInv, LeasesTypeOK
  <1>2. \A c \in Entries : Holders(c)' = Holders(c) \ {r} /\ (r \in Holders(c) <=> lease[r] = c)
    <2> TAKE c \in Entries
    <2>1. Holders(c)' = IF NoLease = c THEN Holders(c) \cup {r} ELSE Holders(c) \ {r}
      BY <1>1, HoldersMove
    <2>2. QED
      BY <2>1, EntryFacts DEF Holders
  <1>3. \A c \in Entries :
          /\ Cardinality(Holders(c)) \in Nat /\ Cardinality(Holders(c))' \in Nat
          /\ Cardinality(Holders(c))' = IF lease[r] = c THEN Cardinality(Holders(c)) - 1
                                                         ELSE Cardinality(Holders(c))
    <2> TAKE c \in Entries
    <2>1. Cardinality(Holders(c)) \in Nat
          /\ (r \in Holders(c) => Cardinality(Holders(c) \ {r}) = Cardinality(Holders(c)) - 1)
      BY HolderCount
    <2>2. Cardinality(Holders(c))' \in Nat
      BY <1>2, LeaseAssumption, FS_Subset, FS_CardinalityType, HolderCount, FS_RemoveElement
    <2>3. r \notin Holders(c) => Holders(c) \ {r} = Holders(c)
      OBVIOUS
    <2>4. QED
      BY <1>2, <2>1, <2>2, <2>3
  <1>4. \A u \in Accounts : <<u, gen[u]>> \in Entries /\ gen[u] \in Nat /\ (gen[u] = 0 => <<u, 0>> \in Entries)
    BY LeaseAssumption DEF LeasesInv, LeasesTypeOK, Entries
  <1>5. /\ lease[r][1] = req[r].uid /\ lease[r] = <<lease[r][1], lease[r][2]>>
        /\ lease[r][2] \in Nat /\ lease[r][2] <= gen[req[r].uid]
    BY EntryFacts DEF Bookkeeping, Owned
  <1>6. req[r].pc \in {"relLoad", "relCas"}
        => /\ lease[r][2] <= e[2] /\ e[1] = req[r].uid /\ e[2] <= gen[req[r].uid]
           /\ e = <<e[1], e[2]>> /\ e[2] \in Nat
    BY <1>1, EntryFacts DEF Bookkeeping, Owned, Seen
  <1>7. NoPhantomLease'
    <2> SUFFICES ASSUME NEW u \in present, NEW c \in Entries, c = <<u, gen[u]>>
                 PROVE  inFlight'[c] <= Cardinality(Holders(c))'
      <3>1. \A u \in present : <<u, gen[u]>> \in Entries
        BY <1>1, <1>4 DEF LeasesTypeOK
      <3>2. QED
        BY <3>1 DEF NoPhantomLease, Holders
    <2>0. u \in Accounts /\ inFlight[c] <= Cardinality(Holders(c))
      BY <1>1 DEF Counted, NoPhantomLease, LeasesTypeOK
    <2>1. /\ inFlight[c] \in Nat /\ Cardinality(Holders(c)) \in Nat
          /\ inFlight'[c] <= inFlight[c] /\ inFlight'[c] \in Nat
      BY <1>1, <1>3, <2>0
    <2>2. CASE lease[r] # c
      BY <1>3, <2>0, <2>1, <2>2
    <2>3. CASE lease[r] = c
      <3>1. req[r].uid = u /\ lease[r][2] = gen[u]
        BY <1>5, <2>3
      <3>2. req[r].pc \in {"relLoad", "relCas"}
        BY <3>1
      <3>3. e[1] = u /\ e = <<e[1], e[2]>>
        BY <1>6, <3>1, <3>2
      <3>4. e = c
        <4>1. gen[u] <= e[2] /\ e[2] <= gen[u] /\ e[2] \in Nat
          BY <1>6, <3>1, <3>2
        <4>2. e[2] = gen[u]
          <5>1. gen[u] \in Nat
            BY <1>4, <2>0
          <5> DEFINE g == e[2]
          <5>2. g <= gen[u] /\ gen[u] <= g /\ g \in Nat
            BY <4>1
          <5> HIDE DEF g
          <5>3. g = gen[u]
            BY <5>1, <5>2
          <5>4. QED
            BY <5>3 DEF g
        <4>3. QED
          BY <3>3, <4>2
      <3>5. inFlight'[c] = 0 \/ inFlight'[c] = inFlight[c] - 1
        BY <1>1, <2>0, <2>1, <3>1, <3>4
      <3>6. Cardinality(Holders(c))' = Cardinality(Holders(c)) - 1 /\ Cardinality(Holders(c))' \in Nat
        BY <1>3, <2>0, <2>3
      <3>7. QED
        BY <2>0, <2>1, <3>5, <3>6
    <2>4. QED
      BY <2>2, <2>3
  <1>8. Backed'
    <2> SUFFICES ASSUME NEW u \in Accounts, gen[u] = 0
                 PROVE  Cardinality(Holders(<<u, 0>>))' <= inFlight'[<<u, 0>>]
      BY DEF Backed
    <2> DEFINE c == <<u, 0>>
    <2>1. /\ c \in Entries /\ Cardinality(Holders(c)) <= inFlight[c]
          /\ inFlight[c] \in Nat /\ Cardinality(Holders(c)) \in Nat
      BY <1>1, <1>3, <1>4 DEF Counted, Backed
    <2>2. CASE inFlight'[c] = inFlight[c]
      BY <1>3, <2>1, <2>2
    <2>3. CASE inFlight'[c] # inFlight[c]
      <3>1. req[r].pc \in {"relLoad", "relCas"} /\ e = c /\ inFlight'[c] = inFlight[c] - 1
        BY <1>1, <2>1, <2>3
      <3>2. lease[r] = c
        BY <1>5, <1>6, <3>1
      <3>3. QED
        BY <1>3, <2>1, <3>1, <3>2
    <2>4. QED
      BY <2>2, <2>3
  <1>9. Limited'
    <2>1. Limit' = Limit /\ \A c \in Entries : inFlight'[c] <= inFlight[c]
      BY <1>1 DEF Limit
    <2>2. QED
      BY <1>1, <2>1, LimitType DEF Counted, Limited
  <1>10. QED
    BY <1>7, <1>8, <1>9 DEF Counted

LEMMA StepCounted == LeasesInv /\ Bookkeeping /\ Counted /\ [LeasesNext]_leasesVars => Counted'
  <1> SUFFICES ASSUME LeasesInv, Bookkeeping, Counted, [LeasesNext]_leasesVars PROVE Counted'
    OBVIOUS
  \* Only the places of requests change.
  <1>1. ASSUME UNCHANGED <<present, gen, inFlight, lease>> PROVE Counted'
    BY <1>1 DEF Counted, NoPhantomLease, Limited, Limit, Backed, Holders
  <1>2. \A r \in Requests :
          /\ req[r].e \in Entries /\ inFlight[req[r].e] \in Nat /\ Limit[req[r].e] \in Nat
          /\ lease[r] \in Entries \cup {NoLease}
    BY PositionType, LimitType DEF LeasesInv, LeasesTypeOK
  <1>3. ASSUME NEW r \in Requests, AcquireLoad(r) PROVE Counted'
    <2>1. lease[r] = NoLease
      BY <1>2, <1>3 DEF AcquireLoad, Bookkeeping, Owned, ReleasePCs
    <2>2. CASE Limit[req[r].e] = 0
      BY <1>3, <2>1, <2>2, TakeCounted DEF AcquireLoad
    <2>3. CASE Limit[req[r].e] # 0
      BY <1>1, <1>3, <2>3 DEF AcquireLoad
    <2>4. QED
      BY <2>2, <2>3
  <1>4. ASSUME NEW r \in Requests, AcquireCAS(r) PROVE Counted'
    <2>1. lease[r] = NoLease /\ req[r].cur < Limit[req[r].e]
      BY <1>2, <1>4 DEF AcquireCAS, Bookkeeping, Owned, ReleasePCs, LeasesInv, SlotInv
    <2>2. CASE inFlight[req[r].e] = req[r].cur
      BY <1>4, <2>1, <2>2, TakeCounted DEF AcquireCAS
    <2>3. CASE inFlight[req[r].e] # req[r].cur
      BY <1>1, <1>4, <2>3 DEF AcquireCAS
    <2>4. QED
      BY <2>2, <2>3
  <1>5. ASSUME NEW r \in Requests, ReleaseLookup(r) PROVE Counted'
    <2>1. lease[r] \in Entries
      BY <1>5 DEF ReleaseLookup, Bookkeeping, Owned, ReleasePCs
    <2>2. CASE req[r].uid \in present
      BY <1>1, <1>5, <2>2 DEF ReleaseLookup
    <2>3. CASE req[r].uid \notin present
      BY <1>5, <2>1, <2>3, GiveCounted DEF ReleaseLookup
    <2>4. QED
      BY <2>2, <2>3
  <1>6. ASSUME NEW r \in Requests, ReleaseLoad(r) PROVE Counted'
    <2>1. lease[r] \in Entries
      BY <1>6 DEF ReleaseLoad, Bookkeeping, Owned, ReleasePCs
    <2>2. CASE inFlight[req[r].e] = 0
      BY <1>6, <2>1, <2>2, GiveCounted DEF ReleaseLoad
    <2>3. CASE inFlight[req[r].e] # 0
      BY <1>1, <1>6, <2>3 DEF ReleaseLoad
    <2>4. QED
      BY <2>2, <2>3
  <1>7. ASSUME NEW r \in Requests, ReleaseCAS(r) PROVE Counted'
    <2>1. lease[r] \in Entries /\ req[r].cur > 0
      BY <1>7 DEF ReleaseCAS, Bookkeeping, Owned, ReleasePCs, LeasesInv, SlotInv
    <2>2. CASE inFlight[req[r].e] = req[r].cur
      BY <1>7, <2>1, <2>2, GiveCounted DEF ReleaseCAS
    <2>3. CASE inFlight[req[r].e] # req[r].cur
      BY <1>1, <1>7, <2>3 DEF ReleaseCAS
    <2>4. QED
      BY <2>2, <2>3
  <1>8. ASSUME NEW found \in SUBSET Accounts, SyncEntries(found) PROVE Counted'
    <2>1. /\ inFlight \in [Entries -> Nat] /\ gen \in [Accounts -> 0..MaxGen] /\ present \subseteq Accounts
          /\ UNCHANGED <<inFlight, lease>> /\ present' = found
      BY <1>8 DEF SyncEntries, LeasesInv, LeasesTypeOK
    <2>2. \A u \in Accounts : /\ gen'[u] = IF u \in found \ present THEN gen[u] + 1 ELSE gen[u]
                         /\ gen[u] \in Nat /\ gen'[u] \in 0..MaxGen
      BY <1>8, <2>1, LeaseAssumption DEF SyncEntries
    <2>3. \A c : Holders(c)' = Holders(c)
      BY <2>1 DEF Holders
    <2>4. NoPhantomLease'
      <3> SUFFICES ASSUME NEW u \in found, NEW c \in Entries, c = <<u, gen'[u]>>
                   PROVE  inFlight[c] <= Cardinality(Holders(c))
        <4>1. \A u \in found : <<u, gen'[u]>> \in Entries
          BY <2>2 DEF Entries
        <4>2. QED
          BY <2>1, <2>3, <4>1 DEF NoPhantomLease
      <3>1. inFlight[c] \in Nat /\ Cardinality(Holders(c)) \in Nat /\ u \in Accounts
        BY <2>1, HolderCount
      <3>2. CASE u \in present
        BY <2>2, <3>1, <3>2 DEF Counted, NoPhantomLease
      <3>3. CASE u \notin present
        <4>1. c[1] = u /\ c[2] > gen[u]
          BY <2>2, <3>1, <3>3
        <4>2. inFlight[c] = 0
          BY <4>1 DEF Bookkeeping, Unused
        <4>3. QED
          BY <3>1, <4>2
      <3>4. QED
        BY <3>2, <3>3
    <2>5. Backed'
      <3> SUFFICES ASSUME NEW u \in Accounts, gen'[u] = 0
                   PROVE  Cardinality(Holders(<<u, 0>>)) <= inFlight[<<u, 0>>]
        BY <2>1, <2>3 DEF Backed
      <3>1. gen[u] = 0
        BY <2>2
      <3>2. QED
        BY <3>1 DEF Counted, Backed
    <2>6. Limited'
      BY <2>1 DEF Counted, Limited, Limit
    <2>7. QED
      BY <2>4, <2>5, <2>6 DEF Counted
  <1>9. QED
    BY <1>1, <1>3, <1>4, <1>5, <1>6, <1>7, <1>8 DEF LeasesNext, Step, leasesVars, AcquireLookup, Finish, Start

LEMMA SpecCounted == LeasesSpec => [](LeasesInv /\ Bookkeeping /\ Counted)
  BY InitLeases, StepLeases, InitBooks, StepBooks, StepCounted, PTL DEF LeasesSpec

\* No slot of an entry in the pool is lost, whoever gave it back to which entry.
THEOREM NoSlotLost == LeasesSpec => []NoPhantomLease
  BY SpecCounted, PTL DEF Counted

\* An account that was never re-added serves no more requests than its limit.
THEOREM LimitHolds == LeasesSpec => []HeldUntilReadded
  <1>1. LeasesInv /\ Bookkeeping /\ Counted => HeldUntilReadded
    <2> SUFFICES ASSUME LeasesInv, Bookkeeping, Counted, NEW u \in Accounts, gen[u] = 0, MaxInFlight[u] > 0
                 PROVE  Cardinality(HoldersOf(u)) <= MaxInFlight[u]
      BY DEF HeldUntilReadded, WithinLimit
    <2>1. <<u, 0>> \in Entries /\ Limit[<<u, 0>>] = MaxInFlight[u]
      BY EntryFacts, LeaseAssumption DEF Limit
    <2>2. HoldersOf(u) = Holders(<<u, 0>>)
      <3>1. ASSUME NEW r \in Requests, lease[r] \in Entries, lease[r][1] = u PROVE lease[r] = <<u, 0>>
        <4>1. lease[r][2] <= gen[u] /\ lease[r][2] \in 0..MaxGen /\ lease[r] = <<lease[r][1], lease[r][2]>>
          BY <3>1, EntryFacts DEF Bookkeeping, Owned
        <4>2. lease[r][2] = 0
          BY <4>1
        <4>3. QED
          BY <3>1, <4>1, <4>2
      <3>2. \A r \in Requests : lease[r] # NoLease => lease[r] \in Entries
        BY DEF LeasesInv, LeasesTypeOK
      <3>3. QED
        BY <2>1, <3>1, <3>2, EntryFacts DEF HoldersOf, Holders
    <2>3. /\ Cardinality(Holders(<<u, 0>>)) <= inFlight[<<u, 0>>]
          /\ inFlight[<<u, 0>>] <= MaxInFlight[u]
      BY <2>1 DEF Counted, Backed, Limited
    <2>4. /\ Cardinality(Holders(<<u, 0>>)) \in Nat /\ inFlight[<<u, 0>>] \in Nat /\ MaxInFlight[u] \in Nat
      BY <2>1, HolderCount, LeaseAssumption DEF LeasesInv, LeasesTypeOK
    <2>5. QED
      BY <2>2, <2>3, <2>4
  <1>2. QED
    BY <1>1, SpecCounted, PTL
=============================================================================
