--------------------------- MODULE PoolEntryProofs ---------------------------
(***************************************************************************)
(* Facts about the entries of the pool, for every value of the thresholds  *)
(* and backoffs: each operator of PoolEntry keeps an entry inside its type *)
(* (the ...Type lemmas), and what the state file keeps of its health.      *)
(***************************************************************************)
EXTENDS PoolEntry, TLAPS

USE DEF Deadline

LEMMA NeverType == Never \in Int
  BY DEF Never

LEMMA LesserType == \A a, b \in Int : Lesser(a, b) \in Int /\ Lesser(a, b) <= a /\ Lesser(a, b) <= b
  BY DEF Lesser

LEMMA Naturals ==
  /\ BreakerThreshold \in Nat \ {0} /\ MaxRetry \in Nat
  /\ DegradeThreshold \in Nat \ {0} /\ DegradeDur \in Nat \ {0}
  /\ SessionDeadThreshold \in Nat \ {0}
  /\ MaxStreak \in Nat \ {0} /\ SoftRateMax \in Nat \ {0}
  /\ MaxHits \in Nat \ {0} /\ HardMax \in Nat \ {0} /\ MaxCredits \in Nat
  BY EntryAssumption

\* The rows of an entry that a mutator writes are rows.
LEMMA NoModelsType == NoCooldown \in ModelCooldown /\ NoModels \in [Models -> ModelCooldown]
  <1>1. NoCooldown \in ModelCooldown
    BY Naturals, NeverType DEF NoCooldown, ModelCooldown
  <1>2. QED
    BY <1>1 DEF NoModels

LEMMA LaterRowType == \A row \in ModelCooldown : LaterRow(row) \in ModelCooldown
  BY DEF LaterRow, Later, ModelCooldown

LEMMA FreshType == Fresh \in Entry
  BY Naturals, NeverType, NoModelsType DEF Fresh, Entry, CoolKinds, Reasons

\* Elapsing, pruning and clearing keep an entry well typed.
LEMMA ElapseType == \A e \in Entry : Elapse(e) \in Entry
  <1> SUFFICES ASSUME NEW e \in Entry PROVE Elapse(e) \in Entry
    OBVIOUS
  <1>1. [m \in Models |-> LaterRow(e.models[m])] \in [Models -> ModelCooldown]
    <2>1. e.models \in [Models -> ModelCooldown]
      BY DEF Entry
    <2>2. QED
      BY <2>1, LaterRowType
  <1>2. \A d \in Int : Later(d) \in Int
    BY DEF Later
  <1>3. QED
    BY <1>1, <1>2 DEF Elapse, Entry

LEMMA PruneType == \A e \in Entry : PruneExpiredModelCooldowns(e) \in Entry
  BY NoModelsType DEF PruneExpiredModelCooldowns, Entry

LEMMA ClearType == \A e \in Entry : ClearCooling(e) \in Entry
  <1> SUFFICES ASSUME NEW e \in Entry PROVE ClearCooling(e) \in Entry
    OBVIOUS
  <1>1. 0 \in 0..MaxStreak /\ "hard" \in CoolKinds /\ "none" \in Reasons /\ Never \in Int
    BY Naturals, NeverType DEF CoolKinds, Reasons
  <1>2. QED
    BY <1>1, NoModelsType DEF ClearCooling, Entry

LEMMA DisableType ==
  \A e \in Entry, why \in DisableReasons : DisableEntry(e, why) \in Entry
  BY ClearType, ZenonT(40) DEF DisableEntry, Entry, Reasons, DisableReasons

LEMMA CooldownType ==
  \A e \in Entry, kind \in CoolKinds, d \in Int, why \in Reasons :
    CooldownEntry(e, kind, d, why) \in Entry
  BY NoModelsType, ZenonT(40) DEF CooldownEntry, Entry

LEMMA FailedType == \A e \in Entry : Failed(e) \in Entry
  <1> SUFFICES ASSUME NEW e \in Entry PROVE Failed(e) \in Entry
    OBVIOUS
  <1>1. /\ e.fails \in 0..(BreakerThreshold - 1)
        /\ e.retryCount \in 0..MaxRetry
    BY DEF Entry
  <1>2. CASE e.fails + 1 < BreakerThreshold
    <2>1. e.fails + 1 \in 0..(BreakerThreshold - 1)
      BY <1>1, <1>2, EntryAssumption, SMTT(30)
    <2>2. QED
      BY <1>2, <2>1 DEF Failed, Entry
  <1>3. CASE ~(e.fails + 1 < BreakerThreshold)
    <2>1. 0 \in 0..(BreakerThreshold - 1)
      BY Naturals
    <2>2. Lesser(e.retryCount + 1, MaxRetry) \in 0..MaxRetry
      BY <1>1, Naturals DEF Lesser
    <2>3. BreakerDur[e.retryCount] \in Int
      BY <1>1, EntryAssumption
    <2>4. QED
      BY <1>3, <2>1, <2>2, <2>3 DEF Failed, Entry
  <1>4. QED
    BY <1>2, <1>3

LEMMA FailedUnexplainedType == \A e \in Entry : FailedUnexplained(e) \in Entry
  <1> SUFFICES ASSUME NEW e \in Entry PROVE FailedUnexplained(e) \in Entry
    OBVIOUS
  <1>1. e.consecutiveFails \in 0..(DegradeThreshold - 1) /\ e.degradeUntil \in Int
    BY DEF Entry
  <1>2. CASE e.consecutiveFails + 1 < DegradeThreshold
    <2>1. e.consecutiveFails + 1 \in 0..(DegradeThreshold - 1)
      BY <1>1, <1>2, Naturals
    <2>2. QED
      BY <1>2, <2>1 DEF FailedUnexplained, Entry
  <1>3. CASE ~(e.consecutiveFails + 1 < DegradeThreshold)
    <2>1. 0 \in 0..(DegradeThreshold - 1) /\ DegradeDur \in Int
      BY Naturals
    <2>2. QED
      BY <1>1, <1>3, <2>1 DEF FailedUnexplained, Entry
  <1>4. QED
    BY <1>2, <1>3

LEMMA SessionType ==
  \A e \in Entry : SessionDied(e) \in Entry /\ SessionAlive(e) \in Entry
  <1> SUFFICES ASSUME NEW e \in Entry
               PROVE  SessionDied(e) \in Entry /\ SessionAlive(e) \in Entry
    OBVIOUS
  <1>1. e.sessionDeadFails \in 0..(SessionDeadThreshold - 1)
    BY DEF Entry
  <1>2. 0 \in 0..(SessionDeadThreshold - 1)
    BY Naturals
  <1>3. SessionAlive(e) \in Entry
    BY <1>2 DEF SessionAlive, Entry
  <1>4. CASE e.sessionDeadFails + 1 < SessionDeadThreshold
    <2>1. e.sessionDeadFails + 1 \in 0..(SessionDeadThreshold - 1)
      BY <1>1, <1>4, Naturals
    <2>2. QED
      BY <1>3, <1>4, <2>1 DEF SessionDied, Entry
  <1>5. CASE ~(e.sessionDeadFails + 1 < SessionDeadThreshold)
    BY <1>3, <1>5, DisableType DEF SessionDied, SessionAlive, DisableReasons
  <1>6. QED
    BY <1>4, <1>5

LEMMA SuccessType ==
  \A e \in Entry : Succeeded(e) \in Entry /\ Revived(e) \in Entry
  <1> SUFFICES ASSUME NEW e \in Entry
               PROVE  Succeeded(e) \in Entry /\ Revived(e) \in Entry
    OBVIOUS
  <1>1. /\ 0 \in 0..(BreakerThreshold - 1) /\ 0 \in 0..MaxRetry
        /\ 0 \in 0..MaxStreak
        /\ 0 \in 0..(SessionDeadThreshold - 1)
        /\ 0 \in 0..(DegradeThreshold - 1)
        /\ "none" \in Reasons
    BY Naturals DEF Reasons
  <1>2. Succeeded(e) \in Entry
    BY <1>1, NeverType DEF Succeeded, Entry
  <1>3. Revived(e) \in Entry
    BY <1>1 DEF Revived, Entry
  <1>4. QED
    BY <1>2, <1>3

\* Every soft cooldown lasts as long as it was asked for or at most the cap,
\* whatever the doubling overflows to.
LEMMA SoftDurationBounded ==
  \A d \in Int, streak \in Nat :
    /\ SoftDuration(d, streak) \in Int
    /\ SoftDuration(d, streak) = d \/ SoftDuration(d, streak) <= SoftRateMax
  BY Naturals DEF SoftDuration

LEMMA NextStreakType == \A e \in Entry : NextStreak(e) \in 0..MaxStreak /\ NextStreak(e) \in Nat
  BY Naturals DEF NextStreak, Lesser, Entry

LEMMA SoftBackoffType ==
  \A e \in Entry, d \in Int, why \in Reasons : SoftBackoff(e, d, why) \in Entry
  <1> SUFFICES ASSUME NEW e \in Entry, NEW d \in Int, NEW why \in Reasons
               PROVE  SoftBackoff(e, d, why) \in Entry
    OBVIOUS
  <1>1. NextStreak(e) \in 0..MaxStreak /\ SoftDuration(d, NextStreak(e)) \in Int
    BY NextStreakType, SoftDurationBounded
  <1>2. "soft" \in CoolKinds
    BY DEF CoolKinds
  <1>3. QED
    BY <1>1, <1>2, NoModelsType DEF SoftBackoff, Entry

LEMMA CappedType ==
  \A reset \in Int : /\ CappedSoftUntil(reset) \in Int
                     /\ CappedSoftUntil(reset) <= SoftRateMax
  BY Naturals DEF CappedSoftUntil, Lesser

LEMMA SoftUntilResetType ==
  \A e \in Entry, reset \in Int, why \in Reasons : SoftUntilReset(e, reset, why) \in Entry
  BY CooldownType, CappedType DEF SoftUntilReset, CoolKinds

LEMMA ModelRowsType ==
  \A e \in Entry, m \in Models :
    /\ \A reset \in Int : LimitModel(e, m, reset) \in Entry
    /\ BlockModel(e, m) \in Entry
    /\ UnblockModel(e, m) \in Entry
  <1> SUFFICES ASSUME NEW e \in Entry, NEW m \in Models
               PROVE  /\ \A reset \in Int : LimitModel(e, m, reset) \in Entry
                      /\ BlockModel(e, m) \in Entry
                      /\ UnblockModel(e, m) \in Entry
    OBVIOUS
  <1>1. e.models \in [Models -> ModelCooldown]
    BY DEF Entry
  <1>2. \A row \in ModelCooldown : [e EXCEPT !.models[m] = row] \in Entry
    <2> SUFFICES ASSUME NEW row \in ModelCooldown
                 PROVE  [e EXCEPT !.models[m] = row] \in Entry
      OBVIOUS
    <2>1. [e.models EXCEPT ![m] = row] \in [Models -> ModelCooldown]
      BY <1>1
    <2>2. QED
      BY <2>1 DEF Entry
  <1>3. \A reset \in Int :
          [left |-> CappedSoftUntil(reset), kind |-> "limit", hits |-> 0] \in ModelCooldown
    BY CappedType, Naturals DEF ModelCooldown
  <1>4. ASSUME NEW hits \in Int, hits = Lesser(e.models[m].hits + 1, MaxHits)
        PROVE  [left |-> BlockDur[hits], kind |-> "blocked", hits |-> hits] \in ModelCooldown
    <2>1. e.models[m].hits \in 0..MaxHits
      BY <1>1 DEF ModelCooldown
    <2>2. hits \in 1..MaxHits
      BY <1>4, <2>1, Naturals DEF Lesser
    <2>3. BlockDur[hits] \in Int /\ hits \in 0..MaxHits
      BY <2>2, EntryAssumption
    <2>4. QED
      BY <2>3 DEF ModelCooldown
  <1>5. \A reset \in Int : LimitModel(e, m, reset) \in Entry
    BY <1>2, <1>3 DEF LimitModel
  <1>6. BlockModel(e, m) \in Entry
    <2>1. Lesser(e.models[m].hits + 1, MaxHits) \in Int
      BY <1>1, Naturals DEF ModelCooldown, Lesser
    <2>2. QED
      BY <1>2, <1>4, <2>1 DEF BlockModel
  <1>7. UnblockModel(e, m) \in Entry
    BY <1>2, NoModelsType DEF UnblockModel
  <1>8. QED
    BY <1>5, <1>6, <1>7

LEMMA BalanceType ==
  \A e \in Entry :
    /\ \A remain \in Nat : Reenabled(e, remain) \in Entry
    /\ \A credits, expiring \in Nat : SetBalance(e, credits, expiring) \in Entry
    /\ \A d \in Nat : Debited(e, d) \in Entry
  <1> SUFFICES ASSUME NEW e \in Entry
               PROVE  /\ \A remain \in Nat : Reenabled(e, remain) \in Entry
                      /\ \A credits, expiring \in Nat : SetBalance(e, credits, expiring) \in Entry
                      /\ \A d \in Nat : Debited(e, d) \in Entry
    OBVIOUS
  <1>1. \A remain \in Nat : Reenabled(e, remain) \in Entry
    BY ClearType DEF Reenabled, ReviveCooling, Entry
  <1>2. \A credits, expiring \in Nat : Lesser(expiring, credits) \in Nat
    BY DEF Lesser
  <1>3. \A credits, expiring \in Nat : SetBalance(e, credits, expiring) \in Entry
    BY <1>2 DEF SetBalance, Entry
  <1>4. ASSUME NEW d \in Nat PROVE Debited(e, d) \in Entry
    <2> DEFINE spent == Lesser(d, e.credits)
    <2>1. e.credits \in Nat /\ e.creditsExpiring \in Nat
      BY DEF Entry
    <2>2. spent \in Nat /\ e.credits - spent \in Nat
      BY <2>1 DEF Lesser
    <2> HIDE DEF spent
    <2>3. e.creditsExpiring - Lesser(spent, e.creditsExpiring) \in Nat
      BY <2>1, <2>2 DEF Lesser
    <2>4. QED
      BY <2>2, <2>3 DEF spent, Debited, Entry
  <1>5. QED
    BY <1>1, <1>3, <1>4

\* What the state file keeps of an entry, and what is read back, are entries.
LEMMA FileType ==
  \A e \in Entry : Unexpired(e) \in Entry /\ Filed(e) \in Entry /\ Loaded(e) \in Entry
  <1>1. ASSUME NEW e \in Entry PROVE Unexpired(e) \in Entry
    <2> DEFINE row(m) == IF ModelCooled(e, m) THEN [e.models[m] EXCEPT !.hits = 0] ELSE NoCooldown
    <2>1. e.models \in [Models -> ModelCooldown] /\ e.retryCount \in 0..MaxRetry
      BY DEF Entry
    <2>2. \A m \in Models : row(m) \in ModelCooldown
      <3> SUFFICES ASSUME NEW m \in Models PROVE row(m) \in ModelCooldown
        OBVIOUS
      <3>1. e.models[m] \in ModelCooldown /\ 0 \in 0..MaxHits
        BY <2>1, Naturals
      <3>2. [e.models[m] EXCEPT !.hits = 0] \in ModelCooldown
        BY <3>1 DEF ModelCooldown
      <3>3. QED
        BY <3>2, NoModelsType
    <2>3. [m \in Models |-> row(m)] \in [Models -> ModelCooldown]
      BY <2>2
    <2>4. 0 \in 0..MaxRetry
      BY Naturals
    <2>5. Unexpired(e).models \in [Models -> ModelCooldown]
      BY <2>3 DEF Unexpired, Entry
    <2>6. QED
      BY <2>1, <2>3, <2>4, NeverType DEF Unexpired, Entry
  <1>2. ASSUME NEW e \in Entry PROVE Filed(e) \in Entry
    <2>1. Unexpired(e) \in Entry /\ 0 \in 0..(BreakerThreshold - 1)
      BY <1>1, Naturals
    <2>2. "hard" \in CoolKinds /\ "none" \in Reasons
      BY DEF CoolKinds, Reasons
    <2>3. QED
      BY <2>1, <2>2 DEF Filed, Entry
  <1>3. ASSUME NEW e \in Entry PROVE Loaded(e) \in Entry
    <2>1. Unexpired(e) \in Entry
      BY <1>1
    <2>2. Lesser(Unexpired(e).creditsExpiring, e.credits) \in Nat
      BY <2>1 DEF Lesser, Entry
    <2>3. QED
      BY <2>1, <2>2 DEF Loaded, Entry
  <1>4. QED
    BY <1>1, <1>2, <1>3

\* What bears on the health of an account goes through the state file unchanged.
SameHealth(e, f) ==
  /\ f.disabled = e.disabled /\ f.manualDisabled = e.manualDisabled /\ f.until = e.until
  /\ Active(f.breakerUntil) = Active(e.breakerUntil)
  /\ Active(f.degradeUntil) = Active(e.degradeUntil)
  /\ \A m \in Models : ModelCooled(f, m) = ModelCooled(e, m)

LEMMA FileKeeps ==
  \A e \in Entry :
    /\ SameHealth(e, Unexpired(e)) /\ SameHealth(e, Filed(e)) /\ SameHealth(e, Loaded(e))
    /\ Filed(e).disabled = e.disabled /\ Loaded(e).disabled = e.disabled
  <1> SUFFICES ASSUME NEW e \in Entry
               PROVE  /\ SameHealth(e, Unexpired(e))
                      /\ SameHealth(e, Filed(e)) /\ SameHealth(e, Loaded(e))
    BY DEF SameHealth
  <1>1. Unexpired(e) \in Entry
    BY FileType
  <1>2. SameHealth(e, Unexpired(e))
    <2>1. /\ Unexpired(e).disabled = e.disabled /\ Unexpired(e).until = e.until
          /\ Unexpired(e).manualDisabled = e.manualDisabled
          /\ Unexpired(e).breakerUntil = IF Active(e.breakerUntil) THEN e.breakerUntil ELSE Never
          /\ Unexpired(e).degradeUntil = IF Active(e.degradeUntil) THEN e.degradeUntil ELSE Never
      BY DEF Unexpired, Entry
    <2>2. ~Active(Never)
      BY DEF Active, Never
    <2>3. ASSUME NEW m \in Models PROVE ModelCooled(Unexpired(e), m) = ModelCooled(e, m)
      <3>1. e.models[m] \in ModelCooldown
        BY DEF Entry
      <3>2. Unexpired(e).models[m] = IF ModelCooled(e, m) THEN [e.models[m] EXCEPT !.hits = 0]
                                                          ELSE NoCooldown
        BY DEF Unexpired, Entry
      <3>3. [e.models[m] EXCEPT !.hits = 0].left = e.models[m].left
        BY <3>1 DEF ModelCooldown
      <3>4. CASE ModelCooled(e, m)
        BY <3>2, <3>3, <3>4 DEF ModelCooled
      <3>5. CASE ~ModelCooled(e, m)
        <4>1. Unexpired(e).models[m].left = Never
          BY <3>2, <3>5 DEF NoCooldown
        <4>2. QED
          BY <2>2, <3>5, <4>1 DEF ModelCooled, Active
      <3>6. QED
        BY <3>4, <3>5
    <2>4. Active(Unexpired(e).breakerUntil) = Active(e.breakerUntil)
      BY <2>1, <2>2 DEF Active
    <2>5. Active(Unexpired(e).degradeUntil) = Active(e.degradeUntil)
      BY <2>1, <2>2 DEF Active
    <2>6. QED
      BY <2>1, <2>3, <2>4, <2>5 DEF SameHealth
  <1>3. SameHealth(Unexpired(e), Filed(e))
    BY <1>1 DEF SameHealth, Filed, ModelCooled, Entry
  <1>4. SameHealth(Unexpired(e), Loaded(e))
    BY <1>1 DEF SameHealth, Loaded, ModelCooled, Entry
  <1>5. QED
    BY <1>2, <1>3, <1>4 DEF SameHealth

LEMMA ReloadType ==
  \A e \in Entry, down \in BOOLEAN :
    Loaded(IF down THEN Elapse(Filed(e)) ELSE Filed(e)) \in Entry
  BY FileType, ElapseType
=============================================================================
