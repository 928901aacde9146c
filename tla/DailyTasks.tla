----------------------------- MODULE DailyTasks -----------------------------
(***************************************************************************)
(* What the scheduler's tasks do to the accounts (src/internal/scheduler/  *)
(* scheduler.go, travel.go) through the upstream client's growth calls     *)
(* (src/internal/upstream/travel.go, report.go, growth_reward.go,          *)
(* growth_bonus.go).  A run walks over the pool's accounts, one call after *)
(* another; one account's failure ends its turn and not the walk.          *)
(*                                                                         *)
(* Runs of one process share its memory of the day: who was refused a cat  *)
(* (adoptTried) and whose rewards were asked for (rewardClaimed).          *)
(* cmd/activity is a process of its own with the same accounts.  Checks    *)
(* and marks are steps of their own, and midnight may come between any     *)
(* two of them.                                                            *)
(*                                                                         *)
(* UPSTREAM (external) keeps, per account, the cat and its trip, the       *)
(* conversations counted, the streak with its rewards, cards and chances.  *)
(* A call may fail before its effect or after it.                          *)
(*                                                                         *)
(* BOUNDS.  A world names the runs, how often each is started, the faults  *)
(* and the last day; MaxDay is the largest of those.                       *)
(***************************************************************************)
EXTENDS Naturals, Sequences, Functions

CONSTANTS
  Accounts, Global,
  Runners, Processes, NoRunner,
  ReportCount,      \* activity_report_count
  Enough,           \* conversations needed for the first cat (external)
  Tiers, TierDays, TierChances,   \* (external)
  Threshold,        \* sessionDeadThreshold
  MaxDay,
  Worlds

Jobs == {"travel", "activity", "checkin", "keepalive", "none"}
Faults ==
  { "fail",    \* a call fails
    "lost",    \* a call takes effect and its answer is lost
    "drop",    \* a report is accepted and not counted
    "dead",    \* a refresh says the session is dead
    "stop" }   \* the server is told to stop

ASSUME DailyTasksAssumption ==
  /\ Global \subseteq Accounts /\ NoRunner \notin Runners
  /\ ReportCount \in Nat \ {0} /\ Enough \in Nat /\ Threshold \in Nat \ {0} /\ MaxDay \in Nat
  /\ TierDays \in [Tiers -> Nat] /\ TierChances \in [Tiers -> Nat]
  /\ Worlds \subseteq [job : [Runners -> Jobs], home : [Runners -> Processes], accounts : Seq(Accounts),
                       times : Nat, faults : SUBSET Faults, until : 1..MaxDay]
  /\ \A w \in Worlds : \A r, s \in Runners :      \* a batch has each job once, and is waited for
       w.job[r] = "activity" /\ w.job[s] = "activity" /\ w.home[r] = w.home[s] => r = s

VARIABLES
  world, day,
  up,              \* upstream's record of each account
  adoptTried, rewardClaimed,   \* per process and account: the day, 0 for none
  checkinMus,       \* per process: the run that holds it
  run,             \* the runs
  stopped,         \* the processes whose context is cancelled
  dead, disabled,  \* the pool: dead sessions in a row, disabled accounts
  asked            \* history: <<process, account, day of the check>> of every redemption asked for

memory == <<adoptTried, rewardClaimed>>
pool == <<dead, disabled>>
tasksVars == <<world, day, up, adoptTried, rewardClaimed, checkinMus, run, stopped, dead, disabled,
          asked>>

Records ==
  [cat : BOOLEAN, talks : Nat, trip : {"idle", "traveling", "arrived"}, limit : BOOLEAN,
   active : BOOLEAN, missed : BOOLEAN, days : Nat, kept : Nat, cards : Nat,
   claimed : SUBSET Tiers, chances : Nat, gift : BOOLEAN]
Fates == {"none", "skipped", "failed", "done"}
Steps ==
  {"idle", "next", "report", "buddy", "tried", "agree", "first", "markAdopt", "status", "depart", "claim",
   "gate", "bonus", "state", "heatmap", "card", "reread", "redeem", "markReward", "chances", "draw",
   "refresh", "sign", "balance"}
RunStates ==
  [pc : Steps, todo : Seq(Accounts), off : SUBSET Accounts, first : BOOLEAN, sent : Nat, gate : Nat, days : Nat,
   claimed : SUBSET Tiers, target : Nat, fate : [Accounts -> Fates], left : Nat, ended : BOOLEAN]

\* A run that is under way is at an account of its walk, and holds the mutex if it is a check-in.
TasksTypeOK ==
  /\ world \in Worlds /\ day \in 1..world.until /\ up \in [Accounts -> Records]
  /\ adoptTried \in [Processes -> [Accounts -> 0..day]]
  /\ rewardClaimed \in [Processes -> [Accounts -> 0..day]]
  /\ run \in [Runners -> RunStates]
  /\ stopped \subseteq Processes /\ dead \in [Accounts -> Nat] /\ disabled \subseteq Accounts
  /\ \A r \in Runners : run[r].pc \notin {"idle", "next"} => run[r].todo # <<>>
  /\ checkinMus \in [Processes -> Runners \cup {NoRunner}]
  /\ asked \subseteq Processes \X Accounts \X (1..day)
  /\ \A r \in Runners :
       world.job[r] = "checkin" => (run[r].pc # "idle" <=> checkinMus[world.home[r]] = r)

-----------------------------------------------------------------------------
(* The walk *)

Job(r) == world.job[r]
Home(r) == world.home[r]
Account(r) == Head(run[r].todo)
CtxDone(r) == Home(r) \in stopped
Faulty(f) == f \in world.faults

Go(r, pc) == run' = [run EXCEPT ![r].pc = pc]
\* Mutant: a failure ends the walk.
LeaveAll(r, how) ==
  run' = [run EXCEPT ![r].pc = "next", ![r].todo = IF how = "failed" THEN <<>> ELSE Tail(@), ![r].sent = 0,
                     ![r].fate[Account(r)] = how]
Leave(r, how) ==
  run' = [run EXCEPT ![r].pc = "next", ![r].todo = Tail(@), ![r].sent = 0,
                     ![r].fate[Account(r)] = how]

Finish(r, ended) ==
  /\ run' = [run EXCEPT ![r].pc = "idle", ![r].todo = <<>>, ![r].ended = ended]
  /\ checkinMus' = [checkinMus EXCEPT ![Home(r)] = IF @ = r THEN NoRunner ELSE @]

\* One call: it takes effect and is answered, or it fails, or only its answer is lost.
Call(r, record, Answered, Failed) ==
  \/ up' = [up EXCEPT ![Account(r)] = record] /\ Answered
  \/ Faulty("fail") /\ UNCHANGED up /\ Failed
  \/ Faulty("lost") /\ up' = [up EXCEPT ![Account(r)] = record] /\ Failed
Read(Answered, Failed) == UNCHANGED up /\ (Answered \/ (Faulty("fail") /\ Failed))
U(r) == up[Account(r)]

\* The walk goes by List, the accounts as they are at its start.  A check-in finds another one
\* running and gives up (ErrBusy), leaving all as it is.
Start(r) ==
  /\ Job(r) # "none" /\ run[r].pc = "idle" /\ run[r].left > 0 /\ ~CtxDone(r)
  /\ Job(r) = "checkin" => checkinMus[Home(r)] = NoRunner
  /\ checkinMus' = IF Job(r) = "checkin" THEN [checkinMus EXCEPT ![Home(r)] = r] ELSE checkinMus
  /\ run' = [run EXCEPT ![r] = [@ EXCEPT !.pc = "next", !.todo = world.accounts, !.off = disabled, !.first = TRUE,
                                         !.fate = [a \in Accounts |-> "none"], !.ended = FALSE,
                                         !.left = run[r].left - 1]]
  /\ UNCHANGED <<world, day, up, memory, stopped, pool, asked>>

FirstStep(r) ==
  CASE Job(r) = "travel" -> "buddy" [] Job(r) = "activity" -> "report" [] OTHER -> "refresh"

PassedOver(r) == Account(r) \in run[r].off \/ (Account(r) \in Global /\ Job(r) \in {"travel", "checkin"})
Paced(r) == Job(r) \in {"travel", "activity"}

\* Only the walks of travel and activity pause between accounts, and end when cancelled.
NextAccount(r) ==
  /\ run[r].pc = "next"
  /\ \/ run[r].todo = <<>> /\ Finish(r, TRUE)
     \/ run[r].todo # <<>> /\ PassedOver(r) /\ Leave(r, "skipped") /\ UNCHANGED checkinMus
     \/ /\ run[r].todo # <<>> /\ ~PassedOver(r)
        /\ IF Paced(r) /\ ~run[r].first /\ CtxDone(r) THEN Finish(r, FALSE)
           ELSE /\ run' = [run EXCEPT ![r].pc = FirstStep(r), ![r].first = FALSE]
                /\ UNCHANGED checkinMus
  /\ UNCHANGED <<world, day, up, memory, stopped, pool, asked>>

-----------------------------------------------------------------------------
(* Activity: the reports, then the cat, then the rewards *)

Reported(u) ==
  [u EXCEPT !.talks = IF @ < Enough THEN @ + 1 ELSE @, !.active = TRUE,
            !.days = IF u.active THEN @ ELSE @ + 1]

Report(r) ==
  LET more == IF run[r].sent + 1 = ReportCount
              THEN run' = [run EXCEPT ![r].sent = @ + 1, ![r].pc = "buddy"]
              ELSE run' = [run EXCEPT ![r].sent = @ + 1]
  IN  /\ run[r].pc = "report"
      /\ IF run[r].sent > 0 /\ CtxDone(r) THEN Finish(r, FALSE) /\ UNCHANGED up
         ELSE /\ UNCHANGED checkinMus
              /\ \/ Call(r, Reported(U(r)), more, Leave(r, "failed"))
                 \/ Faulty("drop") /\ UNCHANGED up /\ more
      /\ UNCHANGED <<world, day, memory, stopped, pool, asked>>

AfterAdoption(r) == IF Job(r) = "activity" THEN Go(r, "gate") ELSE Leave(r, "done")
SameButRun == UNCHANGED <<world, day, memory, checkinMus, stopped, pool, asked>>

\* travelOne and travelAdoptForce: does the account have a cat?
BuddyInfo(r) ==
  /\ run[r].pc = "buddy"
  /\ Read(Go(r, IF U(r).cat THEN IF Job(r) = "activity" THEN "gate" ELSE "status"
                ELSE IF Job(r) = "activity" THEN "agree" ELSE "tried"),
          IF Job(r) = "activity" THEN Go(r, "gate") ELSE Leave(r, "failed"))
  /\ SameButRun

\* adoptTriedToday, asked by a travel run only: the reports of an activity run may just have sufficed.
AdoptTriedToday(r) ==
  /\ run[r].pc = "tried"
  /\ IF adoptTried[Home(r)][Account(r)] = day THEN Leave(r, "done")
     ELSE run' = [run EXCEPT ![r].pc = "agree", ![r].gate = day]
  /\ UNCHANGED up /\ SameButRun

BuddyAgreement(r) ==
  /\ run[r].pc = "agree" /\ Read(Go(r, "first"), AfterAdoption(r)) /\ SameButRun

BuddyFirst(r) ==
  LET u == U(r)
      refusal == ~u.cat /\ u.talks < Enough
  IN  /\ run[r].pc = "first"
      /\ IF refusal THEN Read(Go(r, "markAdopt"), AfterAdoption(r))
         ELSE Call(r, [u EXCEPT !.cat = TRUE], AfterAdoption(r), AfterAdoption(r))
      /\ SameButRun

MarkAdoptTried(r) ==
  /\ run[r].pc = "markAdopt"
  /\ adoptTried' = [adoptTried EXCEPT ![Home(r)][Account(r)] = day]
  /\ AfterAdoption(r)
  /\ UNCHANGED <<world, day, up, rewardClaimed, checkinMus, stopped, pool, asked>>

-----------------------------------------------------------------------------
(* Travel: at most one move of the cat in a run *)

TravelStatus(r) ==
  LET u == U(r)
  IN  /\ run[r].pc = "status"
      /\ Read(CASE u.trip = "arrived" -> Go(r, "claim")
                [] u.trip = "idle" /\ ~u.limit -> Go(r, "depart")
                [] OTHER -> Leave(r, "done"),
              Leave(r, "failed"))
      /\ SameButRun

TravelDepart(r) ==
  LET u == U(r)
      allowed == u.trip = "idle" /\ ~u.limit
  IN  /\ run[r].pc = "depart"
      /\ Call(r, IF allowed THEN [u EXCEPT !.trip = "traveling", !.limit = TRUE] ELSE u,
              Leave(r, IF allowed THEN "done" ELSE "failed"), Leave(r, "failed"))
      /\ SameButRun

TravelClaim(r) ==
  LET u == U(r)
  IN  /\ run[r].pc = "claim"
      /\ Call(r, IF u.trip = "arrived" THEN [u EXCEPT !.trip = "idle"] ELSE u,
              Leave(r, IF u.trip = "arrived" THEN "done" ELSE "failed"), Leave(r, "failed"))
      /\ SameButRun

-----------------------------------------------------------------------------
(* claimGrowthRewards *)

RewardClaimedToday(r) ==
  /\ run[r].pc = "gate"
  /\ IF Account(r) \in Global \/ rewardClaimed[Home(r)][Account(r)] = day THEN Leave(r, "done")
     ELSE run' = [run EXCEPT ![r].pc = "bonus", ![r].gate = day]
  /\ UNCHANGED up /\ SameButRun

\* ClaimGift and ClaimCompensation, whose answers only the log sees.
ClaimBonus(r) ==
  /\ run[r].pc = "bonus"
  /\ Call(r, [U(r) EXCEPT !.gift = TRUE], Go(r, "state"), Go(r, "state")) /\ SameButRun

Seen(r, pc) == run' = [run EXCEPT ![r].pc = pc, ![r].days = U(r).days, ![r].claimed = U(r).claimed]

GrowthRewardState(r) ==
  /\ run[r].pc = "state" /\ Read(Seen(r, "heatmap"), Leave(r, "failed")) /\ SameButRun

\* makeupYesterday: yesterday without a score, and a card to spend.
GrowthHeatmap(r) ==
  /\ run[r].pc = "heatmap"
  /\ Read(IF U(r).missed /\ U(r).cards > 0 THEN run' = [run EXCEPT ![r].pc = "card", ![r].target = day - 1]
          ELSE Go(r, "redeem"),
          Go(r, "redeem"))
  /\ SameButRun

\* Mutant: tries the card until it is taken.
UseCardAgain(r) ==
  LET u == U(r)
      allowed == u.missed /\ u.cards > 0 /\ run[r].target = day - 1
  IN  /\ run[r].pc = "card"
      /\ IF allowed
         THEN Call(r, [u EXCEPT !.missed = FALSE, !.cards = @ - 1, !.days = @ + u.kept, !.kept = 0],
                   Go(r, "reread"), Go(r, "card"))
         ELSE UNCHANGED up /\ Go(r, "card")
      /\ SameButRun

UseMakeupCard(r) ==
  LET u == U(r)
      allowed == u.missed /\ u.cards > 0 /\ run[r].target = day - 1
  IN  /\ run[r].pc = "card"
      /\ IF allowed
         THEN Call(r, [u EXCEPT !.missed = FALSE, !.cards = @ - 1, !.days = @ + u.kept, !.kept = 0],
                   Go(r, "reread"), Go(r, "redeem"))
         ELSE UNCHANGED up /\ Go(r, "redeem")
      /\ SameButRun

ReadAgain(r) == run[r].pc = "reread" /\ Read(Seen(r, "redeem"), Go(r, "redeem")) /\ SameButRun

\* growthEligibleTier: the highest reached and not claimed, by what the run has read.
Eligible(r) == {t \in Tiers : run[r].days >= TierDays[t] /\ t \notin run[r].claimed}
Highest(ts) == CHOOSE t \in ts : \A s \in ts : TierDays[s] <= TierDays[t]

\* Whatever the answer, the day is marked next.
GrowthRedeem(r) ==
  LET u == U(r)
      t == Highest(Eligible(r))
      allowed == t \notin u.claimed /\ u.days >= TierDays[t]
  IN  /\ run[r].pc = "redeem"
      /\ IF Eligible(r) = {} THEN Leave(r, "done") /\ UNCHANGED <<up, asked>>
         ELSE /\ asked' = asked \cup {<<Home(r), Account(r), run[r].gate>>}
              /\ Call(r, IF allowed THEN [u EXCEPT !.claimed = @ \cup {t}, !.chances = @ + TierChances[t]]
                         ELSE u,
                      Go(r, "markReward"), Go(r, "markReward"))
      /\ UNCHANGED <<world, day, memory, checkinMus, stopped, pool>>

\* Mutant: marks the day only when a reward was granted.
MarkGranted(r) ==
  /\ run[r].pc = "markReward"
  /\ rewardClaimed' = IF U(r).claimed # run[r].claimed THEN [rewardClaimed EXCEPT ![Home(r)][Account(r)] = day]
                      ELSE rewardClaimed
  /\ Go(r, "chances")
  /\ UNCHANGED <<world, day, up, adoptTried, checkinMus, stopped, pool, asked>>

MarkRewardClaimed(r) ==
  /\ run[r].pc = "markReward"
  /\ rewardClaimed' = [rewardClaimed EXCEPT ![Home(r)][Account(r)] = day]
  /\ Go(r, "chances")
  /\ UNCHANGED <<world, day, up, adoptTried, checkinMus, stopped, pool, asked>>

LotteryChances(r) ==
  /\ run[r].pc = "chances"
  /\ Read(IF U(r).chances > 0 THEN Go(r, "draw") ELSE Leave(r, "done"), Leave(r, "done")) /\ SameButRun

\* One draw, whatever the number of chances.
LotteryDraw(r) ==
  LET u == U(r)
  IN  /\ run[r].pc = "draw"
      /\ Call(r, [u EXCEPT !.chances = IF @ > 0 THEN @ - 1 ELSE 0], Leave(r, "done"), Leave(r, "done"))
      /\ SameButRun

-----------------------------------------------------------------------------
(* Check-in and keepalive: the refresh, and what it says of the session *)

\* Only the keepalive forgets the refusals after a success (ClearSessionDead); a check-in goes on
\* without a new token while the old one is good, and refreshes only when that is due.
Refresh(r) ==
  LET a == Account(r)
      after == IF Job(r) = "checkin" THEN {"sign", "next"} ELSE {"next"}
  IN  /\ run[r].pc = "refresh"
      /\ \/ /\ Job(r) = "checkin" /\ Go(r, "sign") /\ UNCHANGED pool
         \/ /\ dead' = [dead EXCEPT ![a] = IF Job(r) = "keepalive" THEN 0 ELSE @]
            /\ IF Job(r) = "checkin" THEN Go(r, "sign") ELSE Leave(r, "done")
            /\ UNCHANGED disabled
         \/ /\ Faulty("dead")
            /\ IF dead[a] + 1 >= Threshold
               THEN dead' = [dead EXCEPT ![a] = 0] /\ disabled' = disabled \cup {a}
               ELSE dead' = [dead EXCEPT ![a] = @ + 1] /\ UNCHANGED disabled
            /\ \E pc \in after : IF pc = "sign" THEN Go(r, "sign") ELSE Leave(r, "failed")
         \/ /\ Faulty("fail") /\ UNCHANGED pool
            /\ \E pc \in after : IF pc = "sign" THEN Go(r, "sign") ELSE Leave(r, "failed")
      /\ UNCHANGED <<world, day, up, memory, checkinMus, stopped, asked>>

\* DailyCheckin, and whatever it says, UserResourceDetailed: the new balance may end a cooling
\* (AccountPool has ReenableIfCredits and SetCreditsDetailed).
DailyCheckin(r) == run[r].pc = "sign" /\ Read(Go(r, "balance"), Go(r, "balance")) /\ SameButRun
UserResource(r) ==
  /\ run[r].pc = "balance" /\ Read(Leave(r, "done"), Leave(r, "failed")) /\ SameButRun

-----------------------------------------------------------------------------
(* Midnight, the cat's arrival, the end of the server *)

\* A day without a score breaks the streak, which a card can mend the day after.
Overnight(u) ==
  [u EXCEPT !.limit = FALSE, !.active = FALSE, !.missed = ~u.active,
            !.kept = IF u.active THEN 0 ELSE u.days, !.days = IF u.active THEN @ ELSE 0]

Midnight ==
  /\ day < world.until /\ day' = day + 1 /\ up' = [a \in Accounts |-> Overnight(up[a])]
  /\ UNCHANGED <<world, memory, checkinMus, run, stopped, pool, asked>>

Arrive(a) ==
  /\ up[a].trip = "traveling" /\ up' = [up EXCEPT ![a].trip = "arrived"]
  /\ UNCHANGED <<world, day, memory, checkinMus, run, stopped, pool, asked>>

StopServer(p) ==
  /\ Faulty("stop") /\ p \notin stopped /\ stopped' = stopped \cup {p}
  /\ UNCHANGED <<world, day, up, memory, checkinMus, run, pool, asked>>

Step(r) ==
  \/ NextAccount(r)
  \/ Report(r) \/ BuddyInfo(r) \/ AdoptTriedToday(r) \/ BuddyAgreement(r) \/ BuddyFirst(r) \/ MarkAdoptTried(r)
  \/ TravelStatus(r) \/ TravelDepart(r) \/ TravelClaim(r)
  \/ RewardClaimedToday(r) \/ ClaimBonus(r) \/ GrowthRewardState(r) \/ GrowthHeatmap(r) \/ UseMakeupCard(r)
  \/ ReadAgain(r) \/ GrowthRedeem(r) \/ MarkRewardClaimed(r) \/ LotteryChances(r) \/ LotteryDraw(r)
  \/ Refresh(r) \/ DailyCheckin(r) \/ UserResource(r)

TasksNext ==
  \/ \E r \in Runners : Start(r) \/ Step(r)
  \/ Midnight
  \/ \E a \in Accounts : Arrive(a)
  \/ \E p \in Processes : StopServer(p)

Waiting ==
  [pc |-> "idle", todo |-> <<>>, off |-> {}, first |-> TRUE, sent |-> 0, gate |-> 0, days |-> 0, claimed |-> {},
   target |-> 0, fate |-> [a \in Accounts |-> "none"], left |-> world.times, ended |-> FALSE]

\* An account may have missed yesterday and have a card; its streak is one day short of the first reward.
TasksInit ==
  /\ world \in Worlds /\ day = 1
  /\ \E missed \in BOOLEAN, cards \in 0..1 :
       up = [a \in Accounts |->
              [cat |-> FALSE, talks |-> 0, trip |-> "idle", limit |-> FALSE, active |-> FALSE,
               missed |-> missed, days |-> IF missed THEN 0 ELSE 1, kept |-> IF missed THEN 1 ELSE 0,
               cards |-> cards, claimed |-> {}, chances |-> 0, gift |-> FALSE]]
  /\ adoptTried = [p \in Processes |-> [a \in Accounts |-> 0]] /\ rewardClaimed = adoptTried
  /\ checkinMus = [p \in Processes |-> NoRunner]
  /\ run = [r \in Runners |-> Waiting]
  /\ stopped = {} /\ dead = [a \in Accounts |-> 0] /\ disabled = {}
  /\ asked = {}

TasksSpec == TasksInit /\ [][TasksNext]_tasksVars
\* Every call has a timeout, every pause an end.
FairSpec == TasksSpec /\ \A r \in Runners : WF_tasksVars(Step(r))

-----------------------------------------------------------------------------
(* Properties *)

\* claimGrowthRewards: a process asks for an account's reward once in a day, whatever upstream
\* answered, whether or not it took effect, and whatever other runs and processes do meanwhile.
OneRedemptionADay ==
  [][\A r \in Runners :
       GrowthRedeem(r) /\ Eligible(r) # {} => <<Home(r), Account(r), run[r].gate>> \notin asked]_tasksVars

\* A walk that is not cancelled comes to every account, whatever failed on the way: none is left out
\* because of the one before.
EveryAccountHasItsTurn ==
  \A r \in Runners : run[r].ended => \A a \in Range(world.accounts) : run[r].fate[a] # "none"

\* A run that was started ends.
EveryRunEnds == \A r \in Runners : run[r].pc # "idle" ~> run[r].pc = "idle"

=============================================================================
