# Verification of buddyclaw2api

TLA+ modules, TLC model checks and TLAPS proofs about the gateway in `src/`: an
OpenAI-compatible server in Go that spreads chat requests over a pool of upstream
accounts. The modules are translated from the code; where a comment, a test or the
README of the repository says something else, a finding in `PROJECT.json` quotes it.

Contents: [the system](#the-system), [modules](#modules), [runs](#runs),
[proofs](#proofs), [findings](#findings), [what is not modelled](#what-is-not-modelled),
[plan](#plan).

## The system

| Component | Code | State | Operations | Interacts with |
|---|---|---|---|---|
| Account pool | `internal/pool` (`entry`, `state`, `cooldown`, `transition`, `degrade`) | one entry per account: cooldown, model rows, breaker, degradation, disable flags, balances | one mutator per outcome, check-in or operator call, each under `p.mu` | called by the handler, the scheduler, the admin endpoints, the watcher |
| In-flight leases | `pool.go` `Acquire`, `Release` | an atomic counter in each entry | load and compare-and-swap without the pool lock | the handler; races with `SyncToDir` |
| Selection | `pick.go`, `realm.go` | `usedSeq`, cost samples | `pick`, fallback to the account that recovers first | called by the handler |
| Persistence | `persist.go`, `redisstore.go`, `cmd/server/main.go` | dirty mark, `state.json`, snapshot in Redis, writes under way | flusher, `Flush`, `Close`, `load`, `RestoreFromSnapshot` | every mutator marks dirty; `main` orders start and stop |
| Session router | `internal/session`, `redisstore.go` | key -> account with a TTL, a row of each in Redis | `ResolveForModel`, `Bind`, `Unbind`, GC, `LoadFromStore` | called by the handler |
| Chat handler | `server/handler.go`, `backoff.go`, `degrade.go`, `wafip.go` | per request: rotation, tried accounts, lease, sticky account; two shared gates | the rotation loop of `chatCompletions`, `applyErrorPolicy` | pool, sessions, gates, upstream |
| Bodies and answers | `internal/prompt`, `upstream/payload.go`, `tool_pairing.go`, `thinking.go`, `sanitize.go`, `cache_key.go`, `hint.go`, `client.go` `Classify`, `session/ids.go` | none; pure functions | what is sent, under which identifiers, and what a refusal means | called by the handler for each call |
| Streams | `upstream/sse.go`, `truncation.go`, `idle.go` | per answer: calls being assembled, names seen, idle time | `Aggregate`, `StreamHint`, idle monitor | between upstream and the client |
| Directory watcher | `pool/watch.go` | last fingerprint | `reloadAuthDir` -> `SyncToDir` | pool, credentials |
| Credentials | `internal/auth`, `client.go` `RefreshToken` | tokens in the file and in each object parsed from it | refresh, save, load with migration, realm backfill | handler, scheduler, watcher |
| Scheduler | `internal/scheduler`, `config/schedule.go` | what is planned, the check-in lock, refusals and claims of the day | wake-ups; check-in, keepalive, activity and travel runs | pool, credentials, upstream's growth calls |
| Catalogues | `handler.go` `modelList`, `global_models.go`, `model_catalog.go`, `modelsdev.go` | a list per realm, cooldowns, `model.json`, misses, the fetched document | listing, probes, background fetch | upstream, models.dev |
| Autoclaw | `internal/autoclaw` | a pool with health and a rotation pointer; access and refresh tokens in memory and in a file per account | `Chat` with failover, `RunSignin`, `ensureToken` | handler routes, scheduler, upstream |
| Qoder | `internal/qoder` | a list of credentials | signed proxying | handler routes |

What is hard here:

* requests are concurrent, long, and report the outcome of a call long after they
  picked the account: every mutator of the pool meets entries in states its author
  did not think of (disabled meanwhile, cooled for something else, removed, re-added);
* a lease outlives the lock it was taken under and even the entry it was taken from;
* requests of one session share a binding, resolve it in two critical sections, and
  each acts on the one it read at its start;
* a request that fails turns to another account, so a bug multiplies calls, punishes
  healthy accounts, or leaks slots, once per rotation;
* memory is saved asynchronously to two places, one of which is written out of
  order, and a start has to choose between them; bindings likewise;
* one account's credentials are a file, the object in the pool, and older objects still
  in use, refreshed and saved by several at once while the watcher reloads the file;
* a day's tasks are chains of calls that fail, take effect unanswered, and straddle
  midnight, in one process or two;
* a conversation passes through a dozen rewriting passes whose order matters, and one
  sequence upstream refuses sticks in the history for good;
* the process stops while requests and the scheduler still change the state.

## Modules

| Module | Models | Used by |
|---|---|---|
| `PoolEntry` | one entry as a record; every mutator of the pool as an operator from an entry to the entry it leaves; what the state file keeps of an entry | `AccountPool`, `ChatRotation` |
| `AccountPool` | the pool: members and entries, one action per mutator, reload, restart, time | `PoolProofs` |
| `InFlightSlots` | abstract: indivisible `Take` and `Give` of slots under a limit | implemented by `Leases` |
| `Leases` | `Acquire` and `Release` as lookup, load and compare-and-swap, against removal and re-addition | `PoolProofs` |
| `ChatRotation` | concurrent chat requests: binding, picking, lease, call, error policy, gates, disconnects | `ChatRotationProofs` |
| `PoolPersistence` | dirty mark, flusher, snapshots, stop, crash, start | `MirrorProofs` |
| `Sessions` | the router in its critical sections, the rows in Redis and the goroutines that write them, restarts | `MirrorProofs` |
| `Credentials` | auth file, parsed objects, refreshes in steps, watcher, logins, restarts, escape hatch | `CredentialsProofs` |
| `Schedule` | configuration, `nextFire`, `nextWake`, the loop, late wake-ups, batches, the check-in lock | `SchedulerProofs` |
| `DailyTasks` | runs of the scheduler and of `cmd/activity` over the accounts, call by call, and upstream's records | `SchedulerProofs` |
| `Frames`, `Streams` | what is done with one frame; one answer read by `Aggregate` and `StreamHint` at once, and the client of the stream | `AutoclawProofs` |
| `Bodies` | the passes of `PrepareBody`, the gateway's prompt, and the identifiers read from a body | `Conversation` |
| `Answers` | `Classify` and what an answer means for the account and the client | `Conversation` |
| `Conversation` | a client's turns, tools, failures and retries, and what each call sends | `UpstreamProofs` |
| `Catalog` | directories, effort levels, `model.json`, misses, the background fetch, listings | `UpstreamProofs` |
| `Autoclaw` | the AutoClaw upstream: its pool, chat requests and the sign-in run, refresh of rotating tokens, crash and restart | `AutoclawProofs` |
| `MC*` | constants for TLC (`Streams` needs none) | |
| `*Proofs` | theorems for every value of the constants (`PoolEntryProofs`: the lemmas about `PoolEntry`) | |

**Correspondence.** `PROJECT.json`'s `map` gives the lines of every definition. The
general rule: a region under one lock is one action; a lock given up between a read
and the write that uses it makes two. So each mutator of the pool is one action, and
`Acquire` is three. In `ChatRotation` the program counter of a request (`pc`) stops
between any two accesses to shared state: `pick -> acquire -> call -> release ->
unbind -> waf -> rotate` for a failure, `unblock -> bind -> stream` for a success. In
`Sessions` a resolution is a read, then a touch or a re-check and assignment; `touch`, `Bind`,
`Unbind` and `gcOnce` change the map in one step and call the store in another (`Mirror`,
`SubmitSwept`), as they unlock between, and every write to Redis is a process of its own. In `Credentials` a refresh reads under the
object's lock, asks without it and writes back under it, then saves; a reload reads,
migrates, and puts the object into the pool. In `DailyTasks` each call upstream, each
check and each mark is a step. In `Autoclaw` an actor is a request or the one sign-in run
`signinMu` admits, and `ensureToken` is `check -> snap -> refresh -> store -> save ->
read`, a step per lock taken. In `Streams` a step is a frame, read by both readers.

**Time.** Deadlines of an entry are ticks left: `-1` for the zero `time.Time`, `0` for one
that has passed. The distinction matters (`modelExempt` asks whether a breaker was *ever*
set). `Sessions`, `Credentials` and `Schedule` have a clock; their comments say what a tick
is long for and what it is short for. In `Catalog` a mark that lasts ends in a step of its own; misses are
numbered in the order they were noted, and those noted before `dayAgo` are a day old.

**Data.** Accounts, models and session keys are model values. The state of all accounts
is a version number in `PoolPersistence`, where only *which* state is saved matters; what a
save keeps of one entry is `Filed` and `Loaded`. Tokens are numbered as upstream issues them.
A text is a class (`plain`, `marked` with a fingerprint, `masked`, empty, null, absent), a
hash is what is hashed, arguments of a call are numbered parts.

**Widths.** Two conversions overflow in the code and do so in the model. `softDurationLocked`
shifts a duration and looks at the sign of what comes out: `Shl` is a constant of which
nothing is assumed; the runs give it few bits. `RefreshToken` multiplies the seconds of an
answer into nanoseconds: `Int64` takes a number of ticks modulo `Word` (2^64 ns in ticks) to
the signed range, so an expiry may be stored that is negative or any number below ten years.

**External.** What upstream, Redis, models.dev, clients and operators do is marked so in the
`map` and described in the header of each module; faults are sets a world names.

**Unlocked neighbours.** Selection in `ChatRotation` is any account `pick` may return: the
weights and cost tiers choose among them and no property depends on the choice.
`Punished` is `applyErrorPolicy`; a client that leaves is a transport error of the
account, as `ChatStreamContext` reports it.

## Runs

Bounds are chosen so that every threshold is reached, every backoff reaches its cap, and
every pair of actors can interleave. To keep instances small, a behaviour lives in one
*world* (of `AccountPool` a *call set*, of `PoolPersistence` a *fault set*): which clients
there are, which events may happen, how far the clock goes. Interactions across worlds are
covered by the proofs where there are any, which have no such bound. Every answer kind,
event and fault is in some world.

| Run | Question | Bounds |
|---|---|---|
| `AccountPool` | Do bans, disables and balances survive any order of late outcomes, upkeep, reloads and restarts? | 1 account (mutators touch one entry each), 2 models, thresholds 3, breaker and row backoffs up to their cap |
| `Leases` | Are slots lost, doubled or exceeded by the lock-free loops and by re-additions? | 2 accounts, one with a limit and one without, re-added once |
| `ChatRotation` | Do requests keep slots, calls, sessions and health right whatever upstream answers, and end? | 2 concurrent requests, 2 or 3 accounts, 1 slot each, 3 rotations, seven worlds |
| `PoolPersistence` | Is anything lost by a stop, a crash, an overtaken snapshot or a failed write, and is everything saved in the end? | 4 changes, 2 restarts, six fault sets |
| `Autoclaw` | Does the rotation serve every account, does any interleaving of refreshes, saves and crashes lose a login, does everybody end? | 2 accounts, 2 requests or a request and the sign-in run, threshold 2, 1 restart, seven worlds |
| `Sessions` | Do concurrent requests of a session agree, and what may Redis bring back? | up to 3 requests of a session or 2 of two, TTL 2, clock up to 5, six worlds |
| `Credentials` | What do overlapping refreshes, saves, logins and reloads leave in the file and in the pool? | 2 users, 3 tokens, 1 edit, 1 restart, clock up to 4, eight worlds, one of which has expiries that overflow; `Word` 64 ticks, ten years 12, a token 3 |
| `Schedule` | Is an hour missed or served twice? | two days of 4 hours, 3 kinds, naps up to 3 hours, four configurations |
| `DailyTasks` | Does every account have its turn, is a reward asked for once a day, do runs end? | 2 runs of one process or two, 1 or 2 accounts, 2 tiers, up to 3 days, eight worlds |
| `Streams` | Are calls assembled, dropped and relayed right? | 2 calls of 2 parts, 6 frames, four styles, every way to end |
| `Conversation` | Is what is sent well formed, complete, clean and counted right, turn after turn? | up to 7 messages, 2 talks, 2 accounts, 2 rotations, four clients, six refusals |
| `Catalog` | Is anything known withheld, forgotten or taken away? | 2 listings, 4 models, 1 restart, four worlds |

What the properties say:

* **Pool.** `FailureNeverShortensBreaker`: `recordBreakerFailureLocked` overwrites
  `breakerUntil`, yet no failure shortens an open ban, because the backoff grows with
  `retryCount` and only an event that closes the breaker resets it. `DisabledUntilRevived`:
  nothing but `ReviveDisabled` enables an account the system disabled, as `state.go` says and
  `transition.go:25-26` and `:80-81` deny (a finding). `LongTermSpentLast`: charges hit the
  credits that expire first.
* **Leases.** `SlotsSpec`: the loops implement indivisible slots. `NoPhantomLease`: the
  counter never exceeds the requests that hold a slot of the account's present entry, so no
  capacity is lost. `HeldUntilReadded`: limits hold as long as the account has not come back.
* **Requests.** `SlotsConserved`: a slot is given back once on every path. `CallsBounded`: a
  rotation calls one account once, and a request calls no account again but the one of its
  degraded retry, and that one once. `WafAmplification`: under an
  IP-level block a request spends no more calls than it takes to tell. `AccountsStayHealthy`:
  errors that are the request's fault cost no account. `SessionFollowsOutcome`: a session
  ends with the account that served it, or none. `EveryStepLeadsOn`: a measure falls with
  every step of a request, so none goes round for ever; that is termination but for a call
  that does not return, which the upstream client's timeouts cut off.
* **Persistence.** `UnsavedIsDirty`, `NothingSavedIsLost`, `EverySaved`.
* **Autoclaw.** `NobodyPassedOver`: no account that could serve is passed over by as many
  picks in a row as there are accounts, though failover moves the pointer. `RefreshTokenKept`:
  unless upstream's answer was lost, the login ended, a save failed or the process died
  before the save, the refresh token upstream takes is in memory and in the file, or an actor
  is about to put it there, whoever else refreshes or saves meanwhile. `EverybodyEnds`.
* **Sessions.** `ResolvesAgree`: requests that resolved a session with nothing changed in
  between were sent to one account. `MirrorContradictsOnlyRaces`: a row names another account
  only if changes of the session to two accounts overlapped. A change lasts from the map over
  the call of the store to the write in Redis, since the call comes after the unlock: another
  request's change may be made, submitted and written in between, and the late call then
  overwrites its row though no two writes ever met. `StaleBindingBounded`: no session
  is sent to an account because of a use two TTLs ago, through any restarts.
* **Credentials.** `ExpiryHonest`: no copy trusts its token beyond its life by more than a
  refresh takes; where an answer's expiry overflows, by no more than ten years.
  `RealmFollowsDomain`: files without a realm get their domain's, in every
  copy. `PoolFollowsDirectory`: left alone, the pool comes to have what the file has, if the
  file can be read.
* **Scheduler.** `MissedOnlyWhileAway`: hours are passed over only in a batch or behind a late
  wake-up. `ServedOnce`. `EveryAccountHasItsTurn`: one account's failure does not end the walk.
  `OneRedemptionADay`: no second request for a reward on one day, whatever was answered.
  `EveryRunEnds`.
* **Streams.** `EachCallItsOwn`: every call is assembled of its own parts, all of them, in
  order, in each style. `NoHalfCalls`: what is answered has all complete calls and no half
  ones. `StreamMatchesAnswer`: both kinds of client get the same.
* **Conversation.** `CallsMeetResults`: calls are followed by their results, and every result
  has its call. `NothingSaidIsLost`: no word of user or assistant and no answered call is
  dropped. `NoFingerprintLeaves`: sanitizing covers what later passes fill in.
  `OneTurnOneRequest`: upstream counts a turn as one request, and two turns as two.
  `RequestFaultsStayHere`: a fault of the request costs no account, ends it with 400, and has
  a hint.
* **Catalogues.** `KnownIsServed`, `ListedStaysKnown`, `FailureTakesNothingAway`.

`MCConversation` also states five facts about the pure readers of `Answers` and `Bodies` as
`ASSUME`s, which TLC evaluates for all small inputs: envelopes are errors, error frames end
like answers, `Retry-After` is sane, default effort levels are listed, and a conversation keeps
its fallback key as it grows.

**Type invariants.** Each module with proofs has one (`TypeOK`, or `LeasesTypeOK`,
`SessionsTypeOK`, `TasksTypeOK`, `TalkTypeOK` where two modules share a module of proofs),
and it is a theorem for all constants; no run lists it.

**Fairness.** `PoolPersistence`: weak fairness of the flusher's tick, which a `time.Ticker`
delivers while the process runs. `Autoclaw`: weak fairness of every request and of the
sign-in run, whose calls have contexts with a timeout and an HTTP client whose timeout covers
the body. `Credentials`: weak fairness of the watcher (its ticker, and `LoadDir` is local) and
of the steps of a refresh that was begun (`refreshIOTimeout`); nothing makes anybody use the
account. `DailyTasks`: weak fairness of each run (every call has a timeout, every pause an
end). Nothing else is assumed fair: neither clients nor signals nor restarts.

**Deadlock** is checked in `AccountPool`, `Leases`, `ChatRotation` and `Sessions`. The other
systems may really stop: the process may stay down for good (`PoolPersistence`), every account
may wait for a login (`Autoclaw`), the scheduler ends (`Schedule`), and in the rest there is
nothing left to do when a world's clock, frames, messages, runs or listings are used up.

**Symmetry.** `Leases` takes requests for interchangeable, `ChatRotation` clients and two of
the accounts, `Sessions` the accounts; the sets of worlds are closed under these
permutations, and none of the three runs checks a liveness property.

## Proofs

TLAPS proves, for all values of the constants that satisfy the `ASSUME`s:

**`PoolProofs`** (with the lemmas of `PoolEntryProofs`).
* `TypeCorrect`: one lemma per operator of `PoolEntry` says that it maps entries to entries; a
  step of the pool changes one entry, or all by `Elapse`, pruning or a restart.
  `SoftCoolingIsBounded` and `BreakerIsBounded` strengthen the type by `SoftWithin` and
  `BreakerWithin` of every entry. A soft cooldown ends within `soft_rate_max` or within a base the
  handler asked for: nothing is assumed about the bases, as the configuration does not compare
  them with the cap, nor about what a shift yields.
* `FailureLengthens` needs `BreakerWithin`: the ban that stands was opened with a smaller
  `retryCount`, and `BreakerDur` is monotone. The code's doubling with a cap meets this
  assumption where the configured `breaker_cooldown` is at most its maximum; a larger one would be
  taken as it is for the first ban and cut to the maximum for the next. `DisabledUntilRevivedHolds` and `ExpiringSpentFirst` go through the operators one by
  one. `RestartKeepsHealth`: `Loaded(Filed(e))` keeps the flags and every deadline still ahead.
* `LeasesTypeCorrect` by `SlotInv`: a request about to swap loaded a value below the limit
  (`cas`) or above zero (`relCas`); without it the swap could pass the limit or go negative.
  `Refinement`: with that invariant, a successful swap is a `Take` or a `Give` of
  `InFlightSlots` and every other step leaves the counters alone.
* `NoSlotLost` and `LimitHolds` by `Bookkeeping` and `Counted`: a lease is given back to the
  entry it was taken of or to a later one, entries to come count nothing, and the first entry
  of an account counts every lease of it; cardinalities of the holders change by one a step.

**`ChatRotationProofs`**.
* One lemma per group of actions says what all steps of a handler have in common (`Moves`): a
  slot is taken or given exactly when the place in the loop begins or ceases to hold one, only
  the session's own binding changes, health only if the answer blames the account, and the
  measure falls. From it follow `NoSlotLeaks` (the counters are the numbers of holders),
  `LoopEnds`, `NobodyPunished` and `NextStartsRight`.
* `OneCallARotation` reads the same steps by what they do to the calls made and the accounts
  tried (`Shape`). `Frugal` is inductive over them: all accounts called are tried, but for the
  one a degraded retry owes a second call; it owes that call only once, as the retry happens
  only while the prompt has not been degraded.
* `WafToldInTime` by `Telling`: while the block is not told, the accounts a request has called
  are those noted as refused plus the one it is about to note, and these are fewer than the
  threshold. That calls to different accounts are no more than the accounts is a pigeonhole
  lemma about sequences. What other requests note only helps.

**`MirrorProofs`**.
* `TypeCorrect` and `SavedIsKept` of `PoolPersistence` by `Ordered`: while the volume keeps the
  file, no snapshot under way or in Redis is newer than the file, and one as new has the same
  contents. So a start that adopts a snapshot adopts what the file has, in whatever order
  snapshots were written. `UnsavedMarked` is inductive by itself. `EmptyVolumeStartsFromMirror`
  looks at `Restart` alone.
* `SessionsTypeCorrect` and, by `SessionsInv`, three more of `Sessions`. `OneAccountASession`
  by `Agreed`: whatever a request read in its first critical section that nothing has disturbed
  since is still what is bound, usable and seen with the same available accounts when it comes
  to the second. `MirrorFollows` by `Mirrored`: a session that is not
  tangled has changes to its present account only on their way, at whatever stage each is, so
  whichever is written last leaves it. `StaleBindingsEnd` by
  `Recent`: a binding is younger than a TTL after its account's last use, a row lives no longer
  than a TTL from it, and a restart takes over rows with a new TTL: two in all.

**`AutoclawProofs`**.
* `TypeCorrect`. `RoundRobin` by `Rotation`: for every account, the picks that passed it over and
  the places from the pointer to it are less than `N` together, since a pick that passes an
  eligible account over leaves the pointer nearer to it.
* `TokensKept` by `TInv`: tokens in use have been issued (`Numbered`), and whoever is to store a
  new refresh token is the only one to hold it, nobody is about to spend it and the memory does
  not have it yet (`SoleHolder`); so no second refresh succeeds before the store, and no save in
  between can write an older token over it for good.
* `StreamsTypeCorrect` and, by `StreamInv`, `EachCallAssembled`, `NoHalfCallAnswered` and
  `BothClientsAgree`, for any number of calls and parts and any interleaving (they stand here as
  AutoClaw hands its answers to the same `Aggregate` and `StreamHint`). That the table has each
  call's own pieces is not inductive: a piece finds its place only because the calls begun are the
  first ones and stand in the table in the order they began (`Gathered`), and, without indexes,
  because ids lead to these places and the one opened last is that of the only incomplete call
  (`NumberedCalls`). `Mirrored` compares what the client of the stream adds up with the table,
  frame by frame, and `Concluded` the answer with the table at the end. That the answer lists the
  table's calls in order, each once (`Ascending`), is a counting argument: the rank of a number in
  a finite set is an injection into as many ranks as the set has elements, so onto them.

**`CredentialsProofs`**.
* `TypeCorrect` and `ExpiriesHonest` by `IInv`: every copy of the credentials (file, objects,
  what a reload has just parsed) is `Good`, with an expiry bounded by the clock and by the birth
  of its token, and an answer on its way is at most a tick old; `TakenReach` says what may become of
  an expiry in `Int64` and the guard. The order of refreshes, saves
  and reloads does not matter. `RealmsFollowDomains` by `AtHome`: every copy, and every answer on
  its way, has its domain's realm or none.

**`SchedulerProofs`**.
* `TypeCorrect` of `Schedule`. `MissesOnlyWhileAway` and `ServesOnce` by `Behind` and `Waits`:
  what was served lies before the clock and before what is planned, and while the loop sleeps
  nothing is due before it. The arithmetic of `nextFire` is three lemmas: it gives a slot of the
  hour, still to come, and the first such.
* `TasksTypeCorrect`. Every step of a run keeps its account, leaves it for the next one, ends
  the run or starts it (`Turn`). `TurnForEveryAccount` by `Walking`: an account is behind a run,
  with its fate, or still in what is left of its walk.
* `RedeemsOnceADay` by `Marked` and `Ungated`: an account whose reward was asked for on a day is
  marked for that day or a later one, or the one run of the process that may ask is about to
  mark it; and a run behind the gate has not asked for the day it passed the gate on, wherever
  midnight falls. That only one run may ask is an assumption: a batch of the scheduler has each
  job once and is waited for, and `cmd/activity` is a process of its own.

**`UpstreamProofs`**.
* `CatalogTypeCorrect` and, by `CatalogInv`, three more of `Catalog`. `NothingForgotten` by
  `InHand`: a model that somebody is looking up, or that was missed, has no better entry than
  the document's, so writing the document's over it takes nothing away; and by `Saved`: a file
  that was saved, or read, is what is in memory, so a restart forgets nothing. `FetchedIsServed`
  by `HeldBack`: a fresh miss of a model the document has is one the fetch has still to go
  through. `FailuresTakeNothing` looks at the failing probe.
* `ConversationTypeCorrect`. `TurnsAreRequests` by `TurnInv`: a history is only added to, so what
  the user said stays where it was said, and the turn is counted by it (`Logged`); a request
  carries the identifier of the last thing said (`Asked`), which is something (`Spoken`); the
  texts so far are part of the identifier, so it tells the turns of a conversation apart.
* `RequestFaultsEndHere` goes through the rules of `Classify`: none that stands before the three
  that end a request takes a fault of it, so the first to hit is one of them, which
  `applyErrorPolicy` does not charge to the account and `hint.go` has a word for.
* `CallsHaveResults`, `WhatIsSaidArrives` and `FingerprintsStayHere` by `SentInv`, for histories of
  any length. The history is `Sound`: no call has the identifier of another, no two results are of
  one call, and a result comes behind its call before anybody says something again, though a notice
  may stand between results. That alone is not inductive: the next answer's calls are new only if
  those so far are the first of `CallIDs` (`Numbered`), and the next result is behind its call only
  if tools are at work for no message but the last one with calls (`Expects`). The request is as
  sound as the history and says the same (`Carries`), since a prompt takes away or puts in front
  what nobody says. `Prepared` is followed pass by pass. `Repack`: for each prefix of the messages
  (`Packs`), everything said is there in its order, and every result stands in its group, behind
  its call. `Cleanup`: the results of one message are a block (`OwnAreABlock`), as long as the calls
  that are left. All other passes change messages one by one and none of this (`Faithful`); the
  fingerprints go last.

**Assumptions.** Those on the constants: bounds are natural numbers, sets are what the comments
say, backoffs grow with their argument, and the finiteness the source's slices have. More than
that: an activity runner is alone in its process (above); the entries of the seed and of the
document have a window, as `validCapEntry` and `parseModelsDevDoc` ensure; a history begins with
instructions, a user's message has a text or an image, an assistant's is an assistant's, upstream
gives each call of a conversation an identifier of its own, and a client names a conversation in
one place at most. Each is named in the module that declares the
constants, and the runs evaluate it.

**Only model-checked.**
* `EverySaved`, `EverybodyEnds`, `PoolFollowsDirectory` and `EveryRunEnds`: liveness under fairness,
  and `ENABLED`, are beyond the prover.

On induction: the theorems that take an operator cannot be instantiated, and the values of a fold
or of `SelectSeq` are out of reach without them. An argument by the least counterexample among
natural numbers works, with a theorem of `WellFoundedInduction` that takes a set (`LeastNumber`,
`UpTo`). With it `UpstreamProofs` shows that functions defined step by step exist (`Recursion`),
so `Bodies` has the function of all prefixes of a sequence where a fold would stand (`AmongFirst`
is `SelectSeq`, `Groups` the groups of `repackToolResultBlocks`), and lemmas step along it. So has
`Frames`, for the pieces of a frame.

## Findings

Each compares two places of the source, with their lines, in `PROJECT.json`. Those a run of
the model showed while it was built: a late 429 shortens a hard cooldown; a check-in
with credit or a successful refresh leaves a disabled account disabled, where comments say it is
enabled; the first soft backoff takes its base past the cap; an expiry that overflows int64 passes
the guard against excessive ones and is stored; a write to Redis called after the unlock is
overtaken by another request's whole change; a failing request
unbinds what a concurrent request of its session has bound; clients that hang up degrade a
healthy account; the first 401 marks an AutoClaw account for a new login; the last snapshot
need not reach Redis; an unreadable `state.json` newer than the snapshot starts an empty pool;
an unbound session comes back from Redis, or by a `touch`; a file unreadable for a moment
evicts its account until the directory changes again; a refresh that ends late overwrites a
new login or brings a removed file back; a run across midnight suppresses the next day's
claim; a name is lost in the relay of calls without an index; the copy of a reasoning is not
sanitized; a model missed during a failed fetch stays held back. The others were met in
translating.

## What is not modelled

`PROJECT.json` lists every component with its status. Not modelled at all: headers, device
tokens, connection pools and cryptography (wire format, without shared state); metrics and
logging; Qoder (a list of credentials and a signing proxy); the school tasks; the
command-line tools but for the activity tool's run, and `integrations/` and `scripts/`, which
are clients of the gateway; the parsing of the configuration but for hours.

Abstracted on purpose: usage counters and cost samples in an entry; the order of selection
among eligible accounts; in `ChatRotation`, realms (a request sees one realm's accounts, which
is a smaller pool), that membership of the pool changes while requests run (`Leases` has
that), and the two phases of `ResolveForModel` (`Sessions` has them); in `Sessions`, the hash
(any candidate may be chosen); in `Schedule`, days of 23 or 25 hours (a finding says what they
do); in `DailyTasks`, amounts and tiers beyond two; in `Streams`, bytes, and frames with
more than one piece of a call; in `Conversation`,
other requests of the account (`ChatRotation` has them); in `Catalog`, prices and modalities
of a model; in `Autoclaw`, balances, `ChatWithToken` (no state), the fallback endpoint of a
refresh, and a login that replaces a credential file while the server runs.

## Plan

*Done*: all modules and proofs above. What is left, in order of importance:

1. `PoolPick`: tiers, exploration, weights and the fallback; every healthy account is picked in
   the end, exploration at most once per interval.
2. `ChatRotation` composed with `Sessions` (the two phases of a resolution inside the loop), and
   `PoolPersistence` with the rows of sessions.
3. Qoder's credentials, the admin endpoints' login flows, and the school tasks.
