-------------------------- MODULE SchedulerProofs --------------------------
(***************************************************************************)
(* Proofs about the scheduler: its loop (Schedule) for any day, any kinds  *)
(* and hours of a valid configuration, and any suspension; the runs of its *)
(* tasks (DailyTasks) for any accounts, runs, processes and faults.        *)
(*                                                                         *)
(* The arithmetic of nextFire is in FirePast and FireFirst: it gives a slot*)
(* of the hour that is still to come, and none lies in between.  So while  *)
(* the loop sleeps nothing is due before planned, and everything that is   *)
(* due at planned is in due (Waits); what was served lies before (Behind). *)
(*                                                                         *)
(* A step of a run keeps its account, leaves it for the next one, ends the *)
(* run or starts it (Turn).  An account a run has not come to is in what   *)
(* is left of its walk (Walking); a redemption asked for is marked, or the *)
(* one run that may ask for it is about to mark it (Marked).               *)
(***************************************************************************)
EXTENDS Schedule, DailyTasks, WellFoundedInduction, SequenceTheorems, TLAPS

\* Whatever was served lies behind the clock, and behind what is planned.
Behind ==
  \A k \in Kinds, t \in Int :
    <<k, t>> \in served => t <= now /\ (pc \in {"sleep", "grace"} => t < planned)

\* Until the timer fires no slot is passed over.
Waits ==
  pc = "sleep" =>
    \A k \in Kinds, t \in Nat : Slot(k, t) /\ t > now => t > planned \/ (t = planned /\ k \in due)

Idle == pc # "batch" => \A k \in Kinds : task[k] = "no"

IInv ==
  /\ TypeOK /\ Idle
  /\ pc = "boot" => now = 0
  /\ pc \notin {"boot", "refused"} => Valid
  /\ pc = "grace" => planned <= now
  /\ Behind /\ Waits /\ MissedOnlyWhileAway

-----------------------------------------------------------------------------
(* nextFire *)

LEMMA DayType == Day \in Nat /\ Day > 0
  BY ScheduleAssumption

LEMMA CheckinType == Checkin \in Kinds
  BY ScheduleAssumption

LEMMA Product == \A a, b \in Int, d \in Nat : a <= b => a * d <= b * d
  OBVIOUS

LEMMA Divided ==
  ASSUME NEW t \in Nat, NEW d \in Nat, d > 0
  PROVE  /\ t \div d \in Nat /\ t % d \in 0..d-1 /\ (t \div d) * d \in Nat
         /\ t = (t \div d) * d + (t % d)
  OBVIOUS

\* The slot it gives is still to come.
LEMMA FirePast ==
  ASSUME NEW n \in Nat, NEW h \in 0..Day-1
  PROVE  FireAt(n, h) \in Nat /\ FireAt(n, h) > n
  <1> DEFINE q == (n \div Day) * Day
  <1>1. q \in Nat /\ n % Day \in 0..Day-1 /\ n = q + (n % Day) /\ Day \in Nat
    BY DayType, Divided
  <1>2. FireAt(n, h) = IF q + h > n THEN q + h ELSE q + h + Day
    BY DEF FireAt
  <1> HIDE DEF q
  <1>3. QED
    BY <1>1, <1>2

\* It is the first of its hour: a later slot of the hour is no earlier than it.
LEMMA FireFirst ==
  ASSUME NEW n \in Nat, NEW t \in Nat, t > n
  PROVE  FireAt(n, t % Day) <= t
  <1> DEFINE q == n \div Day
             p == t \div Day
             s == t % Day
             r == n % Day
  <1>1. /\ q \in Nat /\ p \in Nat /\ s \in 0..Day-1 /\ r \in 0..Day-1 /\ Day \in Nat /\ Day > 0
        /\ q * Day \in Nat /\ p * Day \in Nat /\ n = q * Day + r /\ t = p * Day + s
    BY DayType, Divided
  <1>2. FireAt(n, s) = IF q * Day + s > n THEN q * Day + s ELSE q * Day + s + Day
    BY DEF FireAt
  <1> HIDE DEF q, p, s, r
  <1>3. q <= p
    <2>1. SUFFICES ASSUME p + 1 <= q PROVE FALSE
      BY <1>1
    <2>2. (p + 1) * Day <= q * Day /\ (p + 1) * Day = p * Day + Day
      BY <1>1, <2>1, Product
    <2>3. QED
      BY <1>1, <2>2
  <1>4. q * Day <= p * Day
    BY <1>1, <1>3, Product
  <1>5. q # p => q * Day + Day <= p * Day
    <2>1. q # p => q + 1 <= p
      BY <1>1, <1>3
    <2>2. q + 1 <= p => (q + 1) * Day <= p * Day
      BY <1>1, Product
    <2>3. (q + 1) * Day = q * Day + Day
      BY <1>1
    <2>4. QED
      BY <2>1, <2>2, <2>3
  <1>6. CASE q = p
    <2>1. q * Day + s = t
      BY <1>1, <1>6
    <2>2. FireAt(n, s) = t
      BY <1>2, <2>1
    <2>3. QED
      BY <2>2 DEF s
  <1>7. CASE q # p
    BY <1>1, <1>2, <1>4, <1>5, <1>7
  <1>8. QED
    BY <1>6, <1>7 DEF s

-----------------------------------------------------------------------------
(* The configuration *)

LEMMA ConfigFacts ==
  ASSUME IInv, Valid
  PROVE  config.on \subseteq Kinds /\ \A k \in Kinds : HoursOf(k) \subseteq 0..Day-1
  BY ScheduleAssumption DEF IInv, TypeOK, Valid

\* nextWake gives a slot still to come, and nothing before it is one; whatever is one is planned for it.
LEMMA WakeFacts ==
  ASSUME IInv, Valid, NEW w \in NextWake(now)
  PROVE  /\ w \in Nat /\ w > now
         /\ \A k \in Kinds, t \in Nat :
              Slot(k, t) /\ t > now => t > w \/ (t = w /\ k \in KindsAt(now, w))
  <1>1. now \in Nat /\ w \in AllFires(now) /\ \A v \in AllFires(now) : w <= v
    BY DEF IInv, TypeOK, NextWake
  <1>2. PICK j \in config.on : w \in Fires(now, j)
    BY <1>1 DEF AllFires
  <1>3. PICK h \in HoursOf(j) : w = FireAt(now, h)
    BY <1>2 DEF Fires
  <1>4. h \in 0..Day-1
    BY ConfigFacts
  <1>5. w \in Nat /\ w > now
    BY <1>1, <1>3, <1>4, FirePast
  <1>6. ASSUME NEW k \in Kinds, NEW t \in Nat, Slot(k, t), t > now
        PROVE  t > w \/ (t = w /\ k \in KindsAt(now, w))
    <2> DEFINE f == FireAt(now, t % Day)
    <2>1. f \in Fires(now, k) /\ k \in config.on
      BY <1>6 DEF Slot, Fires
    <2>2. f \in AllFires(now)
      BY <2>1 DEF AllFires
    <2>3. f <= t /\ w <= f
      BY <1>1, <1>6, <2>2, FireFirst
    <2>4. f \in Nat
      <3>1. t % Day \in 0..Day-1
        BY DayType, Divided
      <3>2. QED
        BY <1>1, <3>1, FirePast
    <2> HIDE DEF f
    <2>5. t = w => f = w
      BY <1>5, <2>3, <2>4
    <2>6. t > w \/ t = w
      BY <1>5, <2>3, <2>4
    <2>7. QED
      BY <2>1, <2>5, <2>6 DEF KindsAt
  <1>7. QED
    BY <1>5, <1>6

-----------------------------------------------------------------------------
(* Every step *)

\* A step that neither moves the clock nor plans, serves or sleeps.
LEMMA QuietStep ==
  ASSUME IInv, TypeOK', Idle', UNCHANGED <<config, now, planned, due, served, blind>>,
         \/ pc' = pc
         \/ pc \notin {"boot", "refused"} /\ (pc' = "stopped" \/ (pc = "batch" /\ pc' = "plan"))
  PROVE  IInv'
  <1>1. \A k \in Kinds, t \in Nat : Slot(k, t)' <=> Slot(k, t)
    BY DEF Slot, HoursOf
  <1>2. Valid' <=> Valid
    BY DEF Valid, HoursOf
  <1>3. Behind'
    BY DEF IInv, Behind, Ended
  <1>4. Waits'
    BY <1>1 DEF IInv, Waits, Ended
  <1>5. MissedOnlyWhileAway'
    BY <1>1 DEF IInv, MissedOnlyWhileAway, Ended, TypeOK
  <1>6. /\ pc' \notin {"boot", "refused"} => Valid'
        /\ pc' = "grace" => planned' <= now'
        /\ pc' = "boot" => now' = 0
    BY <1>2 DEF IInv, Ended
  <1>7. QED
    BY <1>3, <1>4, <1>5, <1>6 DEF IInv

LEMMA BootKeeps == IInv /\ Boot => IInv'
  <1> SUFFICES ASSUME IInv, Boot PROVE IInv'
    OBVIOUS
  <1>1. /\ UNCHANGED <<config, now, planned, due, task, checkinMu, stop, served, blind>>
        /\ pc' = IF Valid THEN "plan" ELSE "refused"
        /\ Valid' <=> Valid
    BY DEF Boot, Valid, HoursOf
  <1>2. TypeOK' /\ Idle'
    BY <1>1 DEF IInv, TypeOK, Idle, Ended, Boot
  <1>3. Behind' /\ Waits'
    BY <1>1 DEF IInv, Behind, Waits
  <1>4. now = 0 => MissedOnlyWhileAway'
    BY <1>1 DEF MissedOnlyWhileAway
  <1>5. now = 0
    BY DEF IInv, Boot
  <1>6. QED
    BY <1>1, <1>2, <1>3, <1>4, <1>5 DEF IInv

LEMMA PlanKeeps == IInv /\ Plan => IInv'
  <1> SUFFICES ASSUME IInv, Plan PROVE IInv'
    OBVIOUS
  <1>1. /\ pc = "plan" /\ UNCHANGED <<config, now, task, checkinMu, stop, served, blind>>
        /\ Valid /\ (Valid' <=> Valid) /\ \A k \in Kinds, t \in Nat : Slot(k, t)' <=> Slot(k, t)
    BY DEF IInv, Plan, Valid, Slot, HoursOf
  <1>2. CASE pc' = "parked" /\ UNCHANGED <<planned, due>>
    BY <1>1, <1>2 DEF IInv, TypeOK, Idle, Behind, Waits, MissedOnlyWhileAway, Ended
  <1>3. CASE pc' = "sleep" /\ planned' \in NextWake(now) /\ due' = KindsAt(now, planned')
    <2>1. PICK w \in NextWake(now) : planned' = w /\ due' = KindsAt(now, w)
      BY <1>3
    <2>2. /\ w \in Nat /\ w > now
          /\ \A k \in Kinds, t \in Nat :
               Slot(k, t) /\ t > now => t > w \/ (t = w /\ k \in KindsAt(now, w))
      BY <1>1, WakeFacts
    <2>3. due' \subseteq Kinds
      BY <1>1, <2>1, ConfigFacts DEF KindsAt
    <2>4. TypeOK' /\ Idle'
      BY <1>1, <1>3, <2>1, <2>2, <2>3 DEF IInv, TypeOK, Idle
    <2>5. Behind'
      BY <1>1, <2>1, <2>2 DEF IInv, Behind, TypeOK
    <2>6. Waits'
      BY <1>1, <2>1, <2>2 DEF Waits
    <2>7. MissedOnlyWhileAway'
      <3>1. \A t \in 1..now : t # w
        BY <2>2 DEF IInv, TypeOK
      <3>2. QED
        BY <1>1, <3>1 DEF IInv, MissedOnlyWhileAway, TypeOK, Ended
    <2>8. QED
      BY <1>1, <1>3, <2>4, <2>5, <2>6, <2>7 DEF IInv
  <1>4. QED
    BY <1>2, <1>3 DEF Plan

\* Starting what is planned: it was served before by nobody, and now it is.
LEMMA DispatchKeeps ==
  ASSUME IInv, Dispatch, pc \in {"sleep", "grace"}, planned <= now,
         UNCHANGED <<config, now, planned, due, checkinMu, stop, blind>>
  PROVE  IInv'
  <1>1. /\ pc' = "batch" /\ served' = served \cup (due \X {planned})
        /\ task' = [k \in Kinds |-> IF k \in due THEN "begin" ELSE "no"]
        /\ (Valid' <=> Valid) /\ \A k \in Kinds, t \in Nat : Slot(k, t)' <=> Slot(k, t)
    BY DEF Dispatch, Valid, Slot, HoursOf
  <1>2. TypeOK' /\ Idle'
    BY <1>1, ScheduleAssumption DEF IInv, TypeOK, Idle
  <1>3. Behind'
    BY <1>1 DEF IInv, Behind, TypeOK
  <1>4. Waits'
    BY <1>1 DEF Waits
  <1>5. MissedOnlyWhileAway'
    <2>1. ASSUME NEW k \in Kinds, NEW t \in 1..now, Slot(k, t)
          PROVE  <<k, t>> \in served' \/ t \in blind
      <3>1. <<k, t>> \in served \/ t \in blind \/ (k \in due /\ t = planned)
        BY <2>1 DEF IInv, MissedOnlyWhileAway, Ended
      <3>2. k \in due /\ t = planned => <<k, t>> \in due \X {planned}
        OBVIOUS
      <3>3. QED
        BY <1>1, <3>1, <3>2
    <2>2. \A t \in 1..now : t \in Nat
      BY DEF IInv, TypeOK
    <2>3. QED
      BY <1>1, <2>1, <2>2 DEF MissedOnlyWhileAway
  <1>6. Valid'
    BY <1>1 DEF IInv
  <1>7. QED
    BY <1>1, <1>2, <1>3, <1>4, <1>5, <1>6 DEF IInv

LEMMA FireKeeps == IInv /\ Fire => IInv'
  <1> SUFFICES ASSUME IInv, Fire PROVE IInv'
    OBVIOUS
  <1>1. /\ pc = "sleep" /\ now >= planned /\ now \in Nat /\ planned \in Int
        /\ UNCHANGED <<config, now, planned, due, checkinMu, stop, blind>>
    BY DEF IInv, Fire, TypeOK
  <1>2. CASE pc' = "grace" /\ UNCHANGED <<task, served>>
    <2>1. TypeOK' /\ Idle' /\ (Valid' <=> Valid)
      BY <1>1, <1>2 DEF IInv, TypeOK, Idle, Valid, HoursOf
    <2>2. Behind' /\ Waits'
      BY <1>1, <1>2 DEF IInv, Behind, Waits
    <2>3. MissedOnlyWhileAway'
      BY <1>1, <1>2 DEF IInv, MissedOnlyWhileAway, Slot, HoursOf, Ended
    <2>4. QED
      BY <1>1, <1>2, <2>1, <2>2, <2>3 DEF IInv
  <1>3. CASE Dispatch
    BY <1>1, <1>3, DispatchKeeps
  <1>4. CASE pc' = "stopped" /\ UNCHANGED <<task, served>>
    <2>1. TypeOK' /\ Idle'
      BY <1>1, <1>4 DEF IInv, TypeOK, Idle, Ended
    <2>2. QED
      BY <1>1, <1>4, <2>1, QuietStep
  <1>5. QED
    BY <1>2, <1>3, <1>4 DEF Fire

LEMMA LoopKeeps == IInv /\ (GraceOver \/ Cancelled \/ BatchOver) => IInv'
  <1> SUFFICES ASSUME IInv, GraceOver \/ Cancelled \/ BatchOver PROVE IInv'
    OBVIOUS
  <1>1. CASE GraceOver
    BY <1>1, DispatchKeeps DEF GraceOver, IInv
  <1>2. CASE Cancelled
    <2>1. TypeOK' /\ Idle'
      BY <1>2 DEF Cancelled, IInv, TypeOK, Idle, Ended
    <2>2. QED
      BY <1>2, <2>1, QuietStep DEF Cancelled
  <1>3. CASE BatchOver
    <2>1. TypeOK' /\ Idle'
      BY <1>3 DEF BatchOver, IInv, TypeOK, Idle
    <2>2. QED
      BY <1>3, <2>1, QuietStep DEF BatchOver
  <1>4. QED
    BY <1>1, <1>2, <1>3

LEMMA TaskKeeps ==
  ASSUME IInv, NEW k \in Kinds, Begin(k) \/ End(k)
  PROVE  IInv'
  <1>1. pc = "batch" /\ UNCHANGED <<config, now, pc, planned, due, stop, served, blind>>
    BY DEF Begin, End, IInv, Idle
  <1>2. TypeOK'
    BY ScheduleAssumption DEF Begin, End, IInv, TypeOK
  <1>3. QED
    BY <1>1, <1>2, QuietStep DEF Idle

LEMMA ManualKeeps == IInv /\ (ManualCheckin \/ Stop) => IInv'
  <1> SUFFICES ASSUME IInv, ManualCheckin \/ Stop PROVE IInv'
    OBVIOUS
  <1>1. UNCHANGED <<config, now, pc, planned, due, task, served, blind>>
    BY DEF ManualCheckin, Stop
  <1>2. TypeOK' /\ Idle'
    BY DEF ManualCheckin, Stop, IInv, TypeOK, Idle
  <1>3. QED
    BY <1>1, <1>2, QuietStep

\* The clock: what comes while the loop sleeps is planned or later than planned.
LEMMA PassKeeps ==
  ASSUME IInv, NEW n \in Nat, Pass(n)
  PROVE  IInv'
  <1>1. /\ pc \notin {"boot", "refused", "stopped"} /\ now \in Nat /\ now' = now + n /\ now + n \in Nat
        /\ blind' = blind \cup {t \in now+1..now+n : pc # "sleep" \/ t > planned}
        /\ UNCHANGED <<config, pc, planned, due, task, checkinMu, stop, served>>
        /\ (Valid' <=> Valid) /\ \A k \in Kinds, t \in Nat : Slot(k, t)' <=> Slot(k, t)
    BY DEF IInv, TypeOK, Pass, Ended, Valid, Slot, HoursOf
  <1>2. TypeOK' /\ Idle'
    <2>a. \A t \in now+1..now+n : t \in Nat
      BY <1>1
    <2>1. blind' \subseteq Nat
      BY <1>1, <2>a DEF IInv, TypeOK
    <2>2. QED
      BY <1>1, <2>1 DEF IInv, TypeOK, Idle
  <1>3. Behind'
    BY <1>1 DEF IInv, Behind
  <1>4. Waits'
    <2>1. \A t \in Nat : t > now + n => t > now
      BY <1>1
    <2>2. QED
      BY <1>1, <2>1 DEF IInv, Waits
  <1>5. MissedOnlyWhileAway'
    <2>1. ASSUME pc # "parked", NEW k \in Kinds, NEW t \in 1..now + n, Slot(k, t)
          PROVE  \/ <<k, t>> \in served \/ t \in blind'
                 \/ pc \in {"sleep", "grace"} /\ k \in due /\ t = planned
      <3>1. t \in Nat /\ (t <= now => t \in 1..now) /\ (t > now => t \in now+1..now+n)
        BY <1>1
      <3>2. CASE t <= now
        BY <1>1, <2>1, <3>1, <3>2 DEF IInv, MissedOnlyWhileAway, Ended
      <3>3. CASE t > now
        <4>1. pc = "sleep" => t > planned \/ (t = planned /\ k \in due)
          BY <2>1, <3>1, <3>3 DEF IInv, Waits
        <4>2. QED
          BY <1>1, <3>1, <3>3, <4>1
      <3>4. QED
        BY <1>1, <3>1, <3>2, <3>3
    <2>2. \A t \in 1..now + n : t \in Nat
      BY <1>1
    <2>3. QED
      BY <1>1, <2>1, <2>2 DEF MissedOnlyWhileAway, Ended
  <1>6. planned <= now => planned <= now + n
    BY <1>1 DEF IInv, TypeOK
  <1>7. (pc' = "grace" => planned' <= now') /\ (pc' = "boot" => now' = 0) /\ Valid'
    BY <1>1, <1>6 DEF IInv
  <1>8. QED
    BY <1>2, <1>3, <1>4, <1>5, <1>7 DEF IInv

-----------------------------------------------------------------------------
(* Theorems *)

LEMMA InitIInv == Init => IInv
  <1> SUFFICES ASSUME Init PROVE IInv
    OBVIOUS
  <1>1. TypeOK /\ Idle
    <2>1. \A k \in Kinds : task[k] = "no"
      BY DEF Init
    <2>2. due = {} /\ served = {} /\ blind = {} /\ planned = 0 /\ now = 0
      BY DEF Init
    <2>3. due \subseteq Kinds /\ served \subseteq Kinds \X Int /\ blind \subseteq Nat
      BY <2>2
    <2>4. task \in [Kinds -> {"no", "begin", "run"}] /\ checkinMu = "free" /\ stop = FALSE
      BY DEF Init
    <2>5. task[Checkin] = "no" /\ config \in Configs /\ pc = "boot"
      BY <2>1, CheckinType DEF Init
    <2>6. planned \in Int /\ now \in Nat
      BY <2>2
    <2>7. stop \in BOOLEAN /\ checkinMu \in {"free", "scheduled", "manual"}
      BY <2>4
    <2>8. checkinMu = "scheduled" <=> task[Checkin] = "run"
      BY <2>4, <2>5
    <2>9. pc \in {"boot", "plan", "parked", "sleep", "grace", "batch"} \cup Ended /\ pc # "batch"
      BY <2>5
    <2>10. QED
      BY <2>1, <2>3, <2>4, <2>5, <2>6, <2>7, <2>8, <2>9, Zenon DEF TypeOK, Idle
  <1>2. Behind /\ Waits /\ MissedOnlyWhileAway
    BY DEF Init, Behind, Waits, MissedOnlyWhileAway
  <1>3. QED
    BY <1>1, <1>2 DEF Init, IInv

LEMMA Inductive == Spec => []IInv
  <1>1. IInv /\ [Next]_vars => IInv'
    <2> SUFFICES ASSUME IInv, [Next]_vars PROVE IInv'
      OBVIOUS
    <2>1. CASE Loop
      BY <2>1, BootKeeps, PlanKeeps, FireKeeps, LoopKeeps DEF Loop
    <2>2. CASE Tick \/ Nap
      BY <2>2, PassKeeps, ScheduleAssumption DEF Tick, Nap
    <2>3. CASE Stop \/ ManualCheckin
      BY <2>3, ManualKeeps
    <2>4. CASE UNCHANGED vars
      <3>1. TypeOK' /\ Idle'
        BY <2>4 DEF vars, IInv, TypeOK, Idle
      <3>2. QED
        BY <2>4, <3>1, QuietStep DEF vars
    <2>5. QED
      BY <2>1, <2>2, <2>3, <2>4, TaskKeeps DEF Next
  <1>2. QED
    BY <1>1, InitIInv, PTL DEF Spec

\* scheduler.go, Run and CheckinAll: the check-in's lock is held by the scheduler exactly while
\* a scheduled check-in runs.
THEOREM TypeCorrect == Spec => []TypeOK
  BY Inductive, PTL DEF IInv

\* nextFire, nextWake and Run: for hours of any number and any length of day, the loop passes
\* over an hour only while it is not waiting: in a batch or behind a late wake-up.
THEOREM MissesOnlyWhileAway == Spec => []MissedOnlyWhileAway
  BY Inductive, PTL DEF IInv

\* nextFire gives times that are still to come: no hour of a kind is started twice.
THEOREM ServesOnce == Spec => ServedOnce
  <1>1. IInv /\ [Next]_vars => (pc' = "batch" /\ pc # "batch" => (due \X {planned}) \cap served = {}) \/ UNCHANGED vars
    <2> SUFFICES ASSUME IInv, [Next]_vars, pc' = "batch", pc # "batch"
                 PROVE  (due \X {planned}) \cap served = {}
      OBVIOUS
    <2>1. pc \in {"sleep", "grace"}
      BY DEF Next, vars, Loop, Boot, Plan, Fire, GraceOver, Cancelled, BatchOver, Tick, Nap, Pass,
             Stop, ManualCheckin, Begin, End, Dispatch
    <2>2. QED
      BY <2>1 DEF IInv, Behind, TypeOK
  <1>2. QED
    BY <1>1, Inductive, PTL DEF Spec, ServedOnce

-----------------------------------------------------------------------------
(* The tasks: one step of a run *)

\* From the gate of the rewards to the mark; and to the end of the turn.
Gated == {"bonus", "state", "heatmap", "card", "reread", "redeem"}
Growth == Gated \cup {"gate", "markReward", "chances", "draw"}
AtAnAccount == Steps \ {"idle", "next"}

\* The run stays at its account.  It passes the gate once, on a day not marked.
Keeps(r, q) ==
  /\ run[r].pc \in AtAnAccount \cup {"next"} /\ q.pc \in AtAnAccount /\ run[r].todo # <<>>
  /\ q.todo = run[r].todo /\ q.fate = run[r].fate /\ q.ended = run[r].ended
  /\ q.pc \in Growth => Job(r) = "activity"
  /\ q.pc \in Gated =>
       \/ run[r].pc \in Gated /\ q.gate = run[r].gate
       \/ run[r].pc = "gate" /\ q.gate = day /\ rewardClaimed[Home(r)][Account(r)] # day
  /\ q.pc = "markReward" => run[r].pc = "redeem" /\ q.gate = run[r].gate
  /\ checkinMus' = checkinMus

LeavesIt(r, q) ==
  /\ run[r].pc \in AtAnAccount \cup {"next"} /\ q.pc = "next" /\ run[r].todo # <<>>
  /\ q.todo = Tail(run[r].todo) /\ q.ended = run[r].ended
  /\ \E how \in Fates \ {"none"} : q.fate = [run[r].fate EXCEPT ![Account(r)] = how]
  /\ checkinMus' = checkinMus

EndsIt(r, q) ==
  /\ run[r].pc \in AtAnAccount \cup {"next"} /\ q.pc = "idle"
  /\ q.fate = run[r].fate /\ (q.ended => run[r].pc = "next" /\ run[r].todo = <<>>)
  /\ checkinMus' = [checkinMus EXCEPT ![Home(r)] = IF @ = r THEN NoRunner ELSE @]

StartsIt(r, q) ==
  /\ run[r].pc = "idle" /\ q.pc = "next" /\ q.todo = world.accounts /\ ~q.ended
  /\ Job(r) = "checkin" => checkinMus[Home(r)] = NoRunner
  /\ checkinMus' = IF Job(r) = "checkin" THEN [checkinMus EXCEPT ![Home(r)] = r] ELSE checkinMus

\* What it does to the memory of the day, and what it asks for.
Remembers(r, q) ==
  /\ adoptTried' = adoptTried \/ adoptTried' = [adoptTried EXCEPT ![Home(r)][Account(r)] = day]
  /\ rewardClaimed' = IF run[r].pc = "markReward" THEN [rewardClaimed EXCEPT ![Home(r)][Account(r)] = day]
                      ELSE rewardClaimed
  /\ \/ q.pc # "markReward" /\ asked' = asked
     \/ /\ run[r].pc = "redeem" /\ q.pc = "markReward"
        /\ asked' = asked \cup {<<Home(r), Account(r), run[r].gate>>}

Turn(r, q) ==
  /\ run' = [run EXCEPT ![r] = q]
  /\ Keeps(r, q) \/ LeavesIt(r, q) \/ EndsIt(r, q) \/ StartsIt(r, q)
  /\ Remembers(r, q)
  /\ up' \in [Accounts -> Records] /\ dead' \in [Accounts -> Nat] /\ disabled' \subseteq Accounts
  /\ UNCHANGED <<world, day, stopped>>

LEMMA RunnerFacts ==
  ASSUME TasksTypeOK, NEW r \in Runners
  PROVE  /\ run[r] \in RunStates /\ Home(r) \in Processes /\ Job(r) \in Jobs
         /\ world.accounts \in Seq(Accounts) /\ world.until \in Nat /\ day \in Nat /\ day - 1 \in Nat
         /\ run[r].todo # <<>> => /\ Account(r) \in Accounts /\ Tail(run[r].todo) \in Seq(Accounts)
                                  /\ U(r) \in Records
         /\ run[r].pc \in AtAnAccount => run[r].todo # <<>>
  <1>1. world \in [job : [Runners -> Jobs], home : [Runners -> Processes], accounts : Seq(Accounts),
                   times : Nat, faults : SUBSET Faults, until : 1..MaxDay]
    BY DailyTasksAssumption DEF TasksTypeOK
  <1>2. world.until \in 1..MaxDay /\ MaxDay \in Nat /\ day \in 1..world.until
    BY <1>1, DailyTasksAssumption DEF TasksTypeOK
  <1>3. world.until \in Nat
    BY <1>2
  <1>4. day \in Nat /\ day - 1 \in Nat
    BY <1>2, <1>3
  <1>5. run[r] \in RunStates /\ run[r].todo \in Seq(Accounts)
    BY DEF TasksTypeOK, RunStates
  <1>6. run[r].todo # <<>> => Account(r) \in Accounts /\ Tail(run[r].todo) \in Seq(Accounts)
    BY <1>5, HeadTailProperties DEF Account
  <1>7. run[r].todo # <<>> => U(r) \in Records
    BY <1>6 DEF U, TasksTypeOK
  <1>8. run[r].pc \in AtAnAccount => run[r].todo # <<>>
    BY DEF TasksTypeOK, AtAnAccount
  <1>9. QED
    BY <1>1, <1>3, <1>4, <1>5, <1>6, <1>7, <1>8 DEF Home, Job

LEMMA RunnerBounds ==
  ASSUME TasksTypeOK
  PROVE  day \in Nat /\ world.until \in Nat /\ day \in 1..world.until
  <1>1. world.until \in 1..MaxDay /\ MaxDay \in Nat /\ day \in 1..world.until
    BY DailyTasksAssumption DEF TasksTypeOK
  <1>2. QED
    BY <1>1

LEMMA LeaveMoves ==
  ASSUME TasksTypeOK, NEW r \in Runners, NEW how \in Fates \ {"none"}, Leave(r, how),
         run[r].pc \in AtAnAccount \cup {"next"}, run[r].todo # <<>>, checkinMus' = checkinMus
  PROVE  \E q \in RunStates : run' = [run EXCEPT ![r] = q] /\ LeavesIt(r, q) /\ q.pc = "next"
  <1>1. run[r] \in RunStates /\ Account(r) \in Accounts /\ Tail(run[r].todo) \in Seq(Accounts)
    BY RunnerFacts
  <1> DEFINE fates == [run[r].fate EXCEPT ![Account(r)] = how]
             q == [run[r] EXCEPT !.pc = "next", !.todo = Tail(@), !.sent = 0, !.fate = fates]
  <1>2. fates \in [Accounts -> Fates]
    BY <1>1 DEF RunStates
  <1>3. run' = [run EXCEPT ![r] = q]
    BY <1>1 DEF Leave, RunStates, TasksTypeOK
  <1> HIDE DEF fates
  <1>4. q \in RunStates /\ q.pc = "next" /\ q.todo = Tail(run[r].todo) /\ q.ended = run[r].ended /\ q.fate = fates
    BY <1>1, <1>2 DEF RunStates, Steps
  <1> HIDE DEF q
  <1>5. QED
    BY <1>3, <1>4 DEF LeavesIt, fates

LEMMA FinishMoves ==
  ASSUME TasksTypeOK, NEW r \in Runners, NEW ended \in BOOLEAN, Finish(r, ended),
         run[r].pc \in AtAnAccount \cup {"next"}, ended => run[r].pc = "next" /\ run[r].todo = <<>>
  PROVE  \E q \in RunStates : run' = [run EXCEPT ![r] = q] /\ EndsIt(r, q) /\ q.pc = "idle"
  <1> DEFINE q == [run[r] EXCEPT !.pc = "idle", !.todo = <<>>, !.ended = ended]
  <1>1. run[r] \in RunStates /\ <<>> \in Seq(Accounts)
    BY RunnerFacts
  <1>2. run' = [run EXCEPT ![r] = q]
    BY DEF Finish, TasksTypeOK
  <1>3. q \in RunStates /\ q.pc = "idle" /\ q.fate = run[r].fate /\ q.ended = ended
    BY <1>1 DEF RunStates, Steps
  <1> HIDE DEF q
  <1>4. QED
    BY <1>2, <1>3 DEF EndsIt, Finish

\* A step within a turn that sets a few fields.
LEMMA KeepMoves ==
  ASSUME TasksTypeOK, NEW r \in Runners, NEW pc2 \in AtAnAccount, NEW n \in Nat, NEW g \in Nat, NEW d \in Nat,
         NEW c \in SUBSET Tiers, NEW t \in Nat, NEW f \in BOOLEAN,
         run' = [run EXCEPT ![r] = [@ EXCEPT !.pc = pc2, !.sent = n, !.gate = g, !.days = d, !.claimed = c,
                                             !.target = t, !.first = f]],
         run[r].pc \in AtAnAccount \cup {"next"}, run[r].todo # <<>>,
         pc2 \in Growth => Job(r) = "activity",
         pc2 \in Gated =>
           \/ run[r].pc \in Gated /\ g = run[r].gate
           \/ run[r].pc = "gate" /\ g = day /\ rewardClaimed[Home(r)][Account(r)] # day,
         pc2 = "markReward" => run[r].pc = "redeem" /\ g = run[r].gate,
         checkinMus' = checkinMus
  PROVE  \E q \in RunStates : run' = [run EXCEPT ![r] = q] /\ Keeps(r, q) /\ q.pc = pc2
  <1> DEFINE q == [run[r] EXCEPT !.pc = pc2, !.sent = n, !.gate = g, !.days = d, !.claimed = c,
                                 !.target = t, !.first = f]
  <1>1. run[r] \in RunStates
    BY RunnerFacts
  <1>2. run' = [run EXCEPT ![r] = q]
    BY DEF TasksTypeOK
  <1>3. /\ q \in RunStates /\ q.pc = pc2 /\ q.todo = run[r].todo /\ q.fate = run[r].fate
        /\ q.ended = run[r].ended /\ q.gate = g
    BY <1>1 DEF RunStates, AtAnAccount
  <1> HIDE DEF q
  <1>4. QED
    BY <1>2, <1>3 DEF Keeps

\* The same step with all but the place left as it is.
LEMMA GoMoves ==
  ASSUME TasksTypeOK, NEW r \in Runners, NEW pc2 \in AtAnAccount, Go(r, pc2),
         run[r].pc \in AtAnAccount, pc2 \in Growth => Job(r) = "activity",
         pc2 \in Gated => run[r].pc \in Gated, pc2 = "markReward" => run[r].pc = "redeem",
         checkinMus' = checkinMus
  PROVE  \E q \in RunStates : run' = [run EXCEPT ![r] = q] /\ Keeps(r, q) /\ q.pc = pc2
  <1> DEFINE q == [run[r] EXCEPT !.pc = pc2]
  <1>1. run[r] \in RunStates /\ run[r].todo # <<>>
    BY RunnerFacts
  <1>2. run' = [run EXCEPT ![r] = q]
    BY DEF Go, TasksTypeOK
  <1>3. /\ q \in RunStates /\ q.pc = pc2 /\ q.todo = run[r].todo /\ q.fate = run[r].fate
        /\ q.ended = run[r].ended /\ q.gate = run[r].gate
    BY <1>1 DEF RunStates, AtAnAccount
  <1> HIDE DEF q
  <1>4. QED
    BY <1>1, <1>2, <1>3 DEF Keeps

\* The rewards are asked for by activity runs alone.
Growing == \A r \in Runners : run[r].pc \in Growth => Job(r) = "activity"

\* The memory of the day is as it was, and nothing is asked for.
Forgetful == UNCHANGED <<world, day, stopped, memory, asked>>
PoolTypes == up' \in [Accounts -> Records] /\ dead' \in [Accounts -> Nat] /\ disabled' \subseteq Accounts

LEMMA CallTypes ==
  ASSUME TasksTypeOK, NEW r \in Runners, run[r].todo # <<>>, NEW record \in Records, UNCHANGED pool,
         up' = up \/ up' = [up EXCEPT ![Account(r)] = record]
  PROVE  PoolTypes
  BY RunnerFacts DEF PoolTypes, TasksTypeOK, pool

LEMMA ReadTypes ==
  ASSUME TasksTypeOK, UNCHANGED up, UNCHANGED pool
  PROVE  PoolTypes
  BY DEF PoolTypes, TasksTypeOK, pool

\* A step that goes on at the account or leaves it.
LEMMA PlainTurn ==
  ASSUME TasksTypeOK, NEW r \in Runners, run[r].pc \in AtAnAccount \ {"markReward"},
         \/ \E pc2 \in AtAnAccount \ {"markReward"} :
              /\ Go(r, pc2) /\ (pc2 \in Growth => Job(r) = "activity") /\ (pc2 \in Gated => run[r].pc \in Gated)
         \/ \E how \in Fates \ {"none"} : Leave(r, how),
         Forgetful, PoolTypes, checkinMus' = checkinMus
  PROVE  \E q \in RunStates : Turn(r, q)
  <1>1. run[r].todo # <<>>
    BY RunnerFacts
  <1>2. CASE \E pc2 \in AtAnAccount \ {"markReward"} :
              /\ Go(r, pc2) /\ (pc2 \in Growth => Job(r) = "activity") /\ (pc2 \in Gated => run[r].pc \in Gated)
    <2>1. PICK pc2 \in AtAnAccount \ {"markReward"} :
              /\ Go(r, pc2) /\ (pc2 \in Growth => Job(r) = "activity") /\ (pc2 \in Gated => run[r].pc \in Gated)
      BY <1>2
    <2>2. PICK q \in RunStates : run' = [run EXCEPT ![r] = q] /\ Keeps(r, q) /\ q.pc = pc2
      BY <2>1, GoMoves
    <2>3. Turn(r, q)
      BY <2>2 DEF Turn, Remembers, Forgetful, PoolTypes, memory
    <2>4. QED
      BY <2>3
  <1>3. CASE \E how \in Fates \ {"none"} : Leave(r, how)
    <2>1. PICK q \in RunStates : run' = [run EXCEPT ![r] = q] /\ LeavesIt(r, q) /\ q.pc = "next"
      BY <1>1, <1>3, LeaveMoves
    <2>2. Turn(r, q)
      BY <2>1 DEF Turn, Remembers, Forgetful, PoolTypes, memory
    <2>3. QED
      BY <2>2
  <1>4. QED
    BY <1>2, <1>3

LEMMA AdoptionTurns ==
  ASSUME TasksTypeOK, Growing, NEW r \in Runners, BuddyInfo(r) \/ BuddyAgreement(r) \/ BuddyFirst(r)
  PROVE  \E q \in RunStates : Turn(r, q)
  <1>1. /\ run[r].pc \in {"buddy", "agree", "first"} /\ run[r].pc \in AtAnAccount \ {"markReward"}
        /\ run[r].todo # <<>> /\ Forgetful /\ UNCHANGED pool /\ checkinMus' = checkinMus
    BY RunnerFacts DEF BuddyInfo, BuddyAgreement, BuddyFirst, SameButRun, Forgetful, memory, pool, AtAnAccount, Steps
  <1>2. PoolTypes
    <2>1. U(r) \in Records /\ [U(r) EXCEPT !.cat = TRUE] \in Records
      BY <1>1, RunnerFacts DEF Records
    <2>2. up' = up \/ up' = [up EXCEPT ![Account(r)] = [U(r) EXCEPT !.cat = TRUE]]
      BY DEF BuddyInfo, BuddyAgreement, BuddyFirst, Read, Call
    <2>3. QED
      BY <1>1, <2>1, <2>2, CallTypes
  <1>3. \/ (Go(r, "gate") /\ Job(r) = "activity") \/ Go(r, "status") \/ Go(r, "agree") \/ Go(r, "tried")
        \/ Go(r, "first") \/ Go(r, "markAdopt") \/ Leave(r, "failed") \/ Leave(r, "done")
    BY DEF BuddyInfo, BuddyAgreement, BuddyFirst, Read, Call, AfterAdoption
  <1>4. QED
    BY <1>1, <1>2, <1>3, PlainTurn DEF AtAnAccount, Steps, Growth, Gated, Fates

LEMMA TravelTurns ==
  ASSUME TasksTypeOK, Growing, NEW r \in Runners, TravelStatus(r) \/ TravelDepart(r) \/ TravelClaim(r)
  PROVE  \E q \in RunStates : Turn(r, q)
  <1>1. /\ run[r].pc \in {"status", "depart", "claim"} /\ run[r].pc \in AtAnAccount \ {"markReward"}
        /\ run[r].todo # <<>> /\ Forgetful /\ UNCHANGED pool /\ checkinMus' = checkinMus
    BY RunnerFacts DEF TravelStatus, TravelDepart, TravelClaim, SameButRun, Forgetful, memory, pool, AtAnAccount, Steps
  <1>2. PoolTypes
    <2>1. /\ U(r) \in Records /\ [U(r) EXCEPT !.trip = "traveling", !.limit = TRUE] \in Records
          /\ [U(r) EXCEPT !.trip = "idle"] \in Records
      BY <1>1, RunnerFacts DEF Records
    <2>2. \E record \in Records : up' = up \/ up' = [up EXCEPT ![Account(r)] = record]
      BY <2>1 DEF TravelStatus, TravelDepart, TravelClaim, Read, Call
    <2>3. QED
      BY <1>1, <2>2, CallTypes
  <1>3. Go(r, "claim") \/ Go(r, "depart") \/ Leave(r, "failed") \/ Leave(r, "done")
    BY DEF TravelStatus, TravelDepart, TravelClaim, Read, Call
  <1>4. QED
    BY <1>1, <1>2, <1>3, PlainTurn DEF AtAnAccount, Steps, Growth, Gated, Fates

LEMMA LotteryTurns ==
  ASSUME TasksTypeOK, Growing, NEW r \in Runners, ClaimBonus(r) \/ LotteryChances(r) \/ LotteryDraw(r)
  PROVE  \E q \in RunStates : Turn(r, q)
  <1>1. /\ run[r].pc \in {"bonus", "chances", "draw"} /\ run[r].pc \in AtAnAccount \ {"markReward"}
        /\ run[r].todo # <<>> /\ Forgetful /\ UNCHANGED pool /\ checkinMus' = checkinMus
    BY RunnerFacts DEF ClaimBonus, LotteryChances, LotteryDraw, SameButRun, Forgetful, memory, pool, AtAnAccount, Steps
  <1>2. PoolTypes
    <2>1. U(r) \in Records
      BY <1>1, RunnerFacts
    <2>2. /\ [U(r) EXCEPT !.gift = TRUE] \in Records
          /\ [U(r) EXCEPT !.chances = IF @ > 0 THEN @ - 1 ELSE 0] \in Records
      <3> DEFINE n == IF U(r).chances > 0 THEN U(r).chances - 1 ELSE 0
      <3>1. U(r).chances \in Nat
        BY <2>1 DEF Records
      <3>2. n \in Nat
        BY <3>1
      <3>3. [U(r) EXCEPT !.chances = IF @ > 0 THEN @ - 1 ELSE 0] = [U(r) EXCEPT !.chances = n]
        OBVIOUS
      <3> HIDE DEF n
      <3>4. QED
        BY <2>1, <3>2, <3>3 DEF Records
    <2>3. \E record \in Records : up' = up \/ up' = [up EXCEPT ![Account(r)] = record]
      BY <2>2 DEF ClaimBonus, LotteryChances, LotteryDraw, Read, Call
    <2>4. QED
      BY <1>1, <2>3, CallTypes
  <1>3. Job(r) = "activity"
    BY <1>1 DEF Growing, Growth, Gated
  <1>4. (run[r].pc \in Gated /\ Go(r, "state")) \/ Go(r, "draw") \/ Leave(r, "done")
    BY DEF ClaimBonus, LotteryChances, LotteryDraw, Read, Call, Gated
  <1>5. QED
    BY <1>1, <1>2, <1>3, <1>4, PlainTurn DEF AtAnAccount, Steps, Growth, Gated, Fates

LEMMA SessionTurns ==
  ASSUME TasksTypeOK, Growing, NEW r \in Runners, Refresh(r) \/ DailyCheckin(r) \/ UserResource(r)
  PROVE  \E q \in RunStates : Turn(r, q)
  <1>1. /\ run[r].pc \in {"refresh", "sign", "balance"} /\ run[r].pc \in AtAnAccount \ {"markReward"}
        /\ run[r].todo # <<>> /\ Forgetful /\ checkinMus' = checkinMus /\ UNCHANGED up
    BY RunnerFacts DEF Refresh, DailyCheckin, UserResource, Read, SameButRun, Forgetful, memory, AtAnAccount, Steps
  <1>2. PoolTypes
    <2>1. Account(r) \in Accounts /\ dead[Account(r)] \in Nat
      BY <1>1, RunnerFacts DEF TasksTypeOK
    <2>2. dead' \in [Accounts -> Nat] /\ disabled' \subseteq Accounts
      BY <2>1 DEF Refresh, DailyCheckin, UserResource, SameButRun, pool, TasksTypeOK
    <2>3. QED
      BY <1>1, <2>2 DEF PoolTypes, TasksTypeOK
  <1>3. Go(r, "sign") \/ Go(r, "balance") \/ Leave(r, "failed") \/ Leave(r, "done")
    BY DEF Refresh, DailyCheckin, UserResource, Read
  <1>4. QED
    BY <1>1, <1>2, <1>3, PlainTurn DEF AtAnAccount, Steps, Growth, Gated, Fates

\* A step that goes on at the account with fields of its own set.
LEMMA SetTurn ==
  ASSUME TasksTypeOK, NEW r \in Runners, run[r].pc \in (AtAnAccount \cup {"next"}) \ {"markReward"},
         run[r].todo # <<>>,
         NEW q \in RunStates, run' = [run EXCEPT ![r] = q], q.pc \in AtAnAccount \ {"markReward"},
         q.todo = run[r].todo, q.fate = run[r].fate, q.ended = run[r].ended,
         q.pc \in Growth => Job(r) = "activity",
         q.pc \in Gated =>
           \/ run[r].pc \in Gated /\ q.gate = run[r].gate
           \/ run[r].pc = "gate" /\ q.gate = day /\ rewardClaimed[Home(r)][Account(r)] # day,
         Forgetful, PoolTypes, checkinMus' = checkinMus
  PROVE  Turn(r, q)
  BY DEF Turn, Keeps, Remembers, Forgetful, PoolTypes, memory

LEMMA GateTurns ==
  ASSUME TasksTypeOK, Growing, NEW r \in Runners, AdoptTriedToday(r) \/ RewardClaimedToday(r)
  PROVE  \E q \in RunStates : Turn(r, q)
  <1>1. /\ run[r].pc \in {"tried", "gate"} /\ run[r].pc \in AtAnAccount \ {"markReward"}
        /\ run[r].todo # <<>> /\ Forgetful /\ UNCHANGED pool /\ UNCHANGED up /\ checkinMus' = checkinMus
        /\ run[r] \in RunStates /\ day \in Nat
    BY RunnerFacts DEF AdoptTriedToday, RewardClaimedToday, SameButRun, Forgetful, memory, pool, AtAnAccount, Steps
  <1>2. PoolTypes
    BY <1>1, ReadTypes
  <1>3. CASE Leave(r, "done")
    BY <1>1, <1>2, <1>3, PlainTurn DEF Fates
  <1>4. CASE ~Leave(r, "done")
    <2> DEFINE p == IF run[r].pc = "tried" THEN "agree" ELSE "bonus"
               q == [run[r] EXCEPT !.pc = p, !.gate = day]
    <2>1. run' = [run EXCEPT ![r].pc = p, ![r].gate = day]
      BY <1>1, <1>4 DEF AdoptTriedToday, RewardClaimedToday
    <2>2. p = "bonus" => /\ run[r].pc = "gate" /\ Job(r) = "activity"
                         /\ rewardClaimed[Home(r)][Account(r)] # day
      BY <1>1, <1>4 DEF AdoptTriedToday, RewardClaimedToday, Growing, Growth
    <2>3. p \in AtAnAccount \ {"markReward"} /\ (p \in Growth \cup Gated => p = "bonus")
      BY DEF AtAnAccount, Steps, Growth, Gated
    <2> HIDE DEF p
    <2>4. run' = [run EXCEPT ![r] = q]
      BY <2>1 DEF TasksTypeOK
    <2>5. /\ q \in RunStates /\ q.pc = p /\ q.gate = day /\ q.todo = run[r].todo
          /\ q.fate = run[r].fate /\ q.ended = run[r].ended
      BY <1>1, <2>3 DEF RunStates, AtAnAccount
    <2> HIDE DEF q
    <2>6. Turn(r, q)
      BY <1>1, <1>2, <2>2, <2>3, <2>4, <2>5, SetTurn
    <2>7. QED
      BY <2>5, <2>6
  <1>5. QED
    BY <1>3, <1>4

\* The reads of the rewards: what is seen is kept, the gate with it.
LEMMA SeenTurn ==
  ASSUME TasksTypeOK, Growing, NEW r \in Runners, NEW p \in {"heatmap", "redeem"}, Seen(r, p), run[r].pc \in Gated,
         Forgetful, PoolTypes, checkinMus' = checkinMus
  PROVE  \E q \in RunStates : Turn(r, q)
  <1>1. /\ run[r] \in RunStates /\ run[r].todo # <<>> /\ U(r) \in Records /\ Job(r) = "activity"
        /\ run[r].pc \in AtAnAccount \ {"markReward"} /\ p \in AtAnAccount \ {"markReward"} /\ p \in Gated
    BY RunnerFacts DEF AtAnAccount, Steps, Gated, Growing, Growth
  <1> DEFINE q == [run[r] EXCEPT !.pc = p, !.days = U(r).days, !.claimed = U(r).claimed]
  <1>2. run' = [run EXCEPT ![r] = q]
    BY DEF Seen, TasksTypeOK
  <1>3. /\ q \in RunStates /\ q.pc = p /\ q.gate = run[r].gate /\ q.todo = run[r].todo
        /\ q.fate = run[r].fate /\ q.ended = run[r].ended
    BY <1>1 DEF RunStates, Records, AtAnAccount
  <1> HIDE DEF q
  <1>4. QED
    BY <1>1, <1>2, <1>3, SetTurn

LEMMA RewardReadTurns ==
  ASSUME TasksTypeOK, Growing, NEW r \in Runners, GrowthRewardState(r) \/ ReadAgain(r) \/ GrowthHeatmap(r)
  PROVE  \E q \in RunStates : Turn(r, q)
  <1>1. /\ run[r].pc \in {"state", "reread", "heatmap"} /\ run[r].pc \in AtAnAccount \ {"markReward"}
        /\ run[r].pc \in Gated /\ Forgetful /\ UNCHANGED pool /\ UNCHANGED up /\ checkinMus' = checkinMus
        /\ run[r] \in RunStates /\ run[r].todo # <<>> /\ day - 1 \in Nat
    BY RunnerFacts DEF GrowthRewardState, ReadAgain, GrowthHeatmap, Read, SameButRun, Forgetful, memory, pool, Gated,
                       AtAnAccount, Steps
  <1>2. PoolTypes /\ Job(r) = "activity"
    BY <1>1, ReadTypes DEF Growing, Growth
  <1>3. CASE Seen(r, "heatmap") \/ Seen(r, "redeem")
    BY <1>1, <1>2, <1>3, SeenTurn
  <1>4. CASE Go(r, "redeem") \/ Leave(r, "failed")
    BY <1>1, <1>2, <1>4, PlainTurn DEF AtAnAccount, Steps, Fates
  <1>5. CASE run' = [run EXCEPT ![r].pc = "card", ![r].target = day - 1]
    <2> DEFINE d == day - 1
               q == [run[r] EXCEPT !.pc = "card", !.target = d]
    <2>1. run' = [run EXCEPT ![r] = q]
      BY <1>5 DEF TasksTypeOK
    <2>2. d \in Nat
      BY <1>1
    <2> HIDE DEF d
    <2>3. /\ q \in RunStates /\ q.pc = "card" /\ q.gate = run[r].gate /\ q.todo = run[r].todo
          /\ q.fate = run[r].fate /\ q.ended = run[r].ended
      BY <1>1, <2>2 DEF RunStates, Steps
    <2> HIDE DEF q
    <2>4. "card" \in AtAnAccount \ {"markReward"}
      BY DEF AtAnAccount, Steps
    <2>5. QED
      BY <1>1, <1>2, <2>1, <2>3, <2>4, SetTurn
  <1>6. QED
    BY <1>3, <1>4, <1>5 DEF GrowthRewardState, ReadAgain, GrowthHeatmap, Read

LEMMA CardTurns ==
  ASSUME TasksTypeOK, Growing, NEW r \in Runners, UseMakeupCard(r)
  PROVE  \E q \in RunStates : Turn(r, q)
  <1>1. /\ run[r].pc = "card" /\ run[r].pc \in AtAnAccount \ {"markReward"} /\ run[r].pc \in Gated
        /\ run[r].todo # <<>> /\ Forgetful /\ UNCHANGED pool /\ checkinMus' = checkinMus
    BY RunnerFacts DEF UseMakeupCard, SameButRun, Forgetful, memory, pool, AtAnAccount, Steps, Gated
  <1>2. Job(r) = "activity" /\ U(r) \in Records
    BY <1>1, RunnerFacts DEF Growing, Growth
  <1>3. PoolTypes
    <2> DEFINE record == [U(r) EXCEPT !.missed = FALSE, !.cards = @ - 1, !.days = @ + U(r).kept, !.kept = 0]
    <2>1. CASE up' = up
      BY <1>1, <2>1, ReadTypes
    <2>2. CASE U(r).cards > 0 /\ up' = [up EXCEPT ![Account(r)] = record]
      <3> DEFINE c == U(r).cards - 1
                 d == U(r).days + U(r).kept
      <3>1. U(r).cards \in Nat /\ U(r).days \in Nat /\ U(r).kept \in Nat
        BY <1>2 DEF Records
      <3>2. c \in Nat /\ d \in Nat
        BY <3>1, <2>2
      <3>3. record = [U(r) EXCEPT !.missed = FALSE, !.cards = c, !.days = d, !.kept = 0]
        OBVIOUS
      <3> HIDE DEF c, d
      <3>4. record \in Records
        BY <1>2, <3>2, <3>3 DEF Records
      <3>5. QED
        BY <1>1, <2>2, <3>4, CallTypes
    <2>3. QED
      BY <2>1, <2>2 DEF UseMakeupCard, Call
  <1>4. Go(r, "reread") \/ Go(r, "redeem")
    BY DEF UseMakeupCard, Call
  <1>5. QED
    BY <1>1, <1>2, <1>3, <1>4, PlainTurn DEF AtAnAccount, Steps

LEMMA MarkTurns ==
  ASSUME TasksTypeOK, Growing, NEW r \in Runners, MarkAdoptTried(r) \/ MarkRewardClaimed(r)
  PROVE  \E q \in RunStates : Turn(r, q)
  <1>1. /\ run[r].pc \in {"markAdopt", "markReward"} /\ run[r].pc \in AtAnAccount /\ run[r].todo # <<>>
        /\ UNCHANGED <<world, day, stopped, up, dead, disabled, asked>> /\ checkinMus' = checkinMus
    BY RunnerFacts DEF MarkAdoptTried, MarkRewardClaimed, memory, pool, AtAnAccount, Steps
  <1>2. PoolTypes
    BY <1>1, ReadTypes DEF pool
  <1>3. \/ \E q \in RunStates : run' = [run EXCEPT ![r] = q] /\ Keeps(r, q) /\ q.pc \in {"gate", "chances"}
        \/ \E q \in RunStates : run' = [run EXCEPT ![r] = q] /\ LeavesIt(r, q) /\ q.pc = "next"
    <2>1. (Go(r, "gate") /\ Job(r) = "activity") \/ (Go(r, "chances") /\ Job(r) = "activity") \/ Leave(r, "done")
      BY DEF MarkAdoptTried, MarkRewardClaimed, AfterAdoption, Growing, Growth
    <2>2. "gate" \in AtAnAccount \ Gated /\ "chances" \in AtAnAccount \ Gated
      BY DEF AtAnAccount, Steps, Gated
    <2>3. QED
      BY <1>1, <2>1, <2>2, GoMoves, LeaveMoves DEF Fates
  <1>4. PICK q \in RunStates : /\ run' = [run EXCEPT ![r] = q] /\ (Keeps(r, q) \/ LeavesIt(r, q))
                               /\ q.pc # "markReward"
    BY <1>3
  <1>5. Remembers(r, q)
    BY <1>1, <1>4 DEF Remembers, MarkAdoptTried, MarkRewardClaimed
  <1>6. QED
    BY <1>1, <1>2, <1>4, <1>5 DEF Turn, PoolTypes

\* Every set of numbers that is not empty has a least one.
LEMMA LeastNumber ==
  ASSUME NEW T \in SUBSET Nat, T # {}
  PROVE  \E n \in T : \A m \in T : n <= m
  <1> DEFINE R == {ss \in Nat \X Nat : ss[1] < ss[2]}
  <1>1. IsWellFoundedOn(R, Nat)
    BY NatLessThanWellFounded, Zenon DEF OpToRel
  <1>2. \A x, y \in Nat : y < x => <<y, x>> \in R
    OBVIOUS
  <1> HIDE DEF R
  <1>3. \E x \in T : \A y \in T : ~(<<y, x>> \in R)
    BY <1>1, WFMin
  <1>4. PICK x \in T : \A y \in T : ~(<<y, x>> \in R)
    BY <1>3
  <1>5. \A y \in T : ~(y < x) /\ y \in Nat /\ x \in Nat
    BY <1>2, <1>4
  <1>6. QED
    BY <1>5

\* growthEligibleTier gives a tier: of those reached, the ones asking for most days.
LEMMA HighestIsATier ==
  ASSUME TasksTypeOK, NEW r \in Runners, Eligible(r) # {}
  PROVE  Highest(Eligible(r)) \in Eligible(r)
  <1> DEFINE d == run[r].days
             T == {d - TierDays[t] : t \in Eligible(r)}
  <1>1. d \in Nat
    BY RunnerFacts DEF RunStates
  <1>2. \A t \in Eligible(r) : TierDays[t] \in Nat /\ TierDays[t] <= d
    BY DailyTasksAssumption, <1>1 DEF Eligible
  <1> HIDE DEF d
  <1>3. \A t \in Eligible(r) : d - TierDays[t] \in Nat
    BY <1>1, <1>2
  <1>4. T \in SUBSET Nat /\ T # {}
    BY <1>3
  <1>5. PICK n \in T : \A m \in T : n <= m
    BY <1>4, LeastNumber
  <1>6. PICK t \in Eligible(r) : n = d - TierDays[t]
    BY <1>5
  <1>7. \A s \in Eligible(r) : d - TierDays[t] <= d - TierDays[s]
    BY <1>5, <1>6
  <1>8. \A s \in Eligible(r) : TierDays[s] <= TierDays[t]
    BY <1>1, <1>2, <1>7
  <1>9. QED
    BY <1>8 DEF Highest

LEMMA RedeemTurns ==
  ASSUME TasksTypeOK, Growing, NEW r \in Runners, GrowthRedeem(r)
  PROVE  \E q \in RunStates : Turn(r, q)
  <1>1. /\ run[r].pc = "redeem" /\ run[r].pc \in AtAnAccount \ {"markReward"}
        /\ run[r].todo # <<>> /\ UNCHANGED <<world, day, stopped, memory, pool>> /\ checkinMus' = checkinMus
    BY RunnerFacts DEF GrowthRedeem, AtAnAccount, Steps
  <1>2. Job(r) = "activity" /\ U(r) \in Records
    BY <1>1, RunnerFacts DEF Growing, Growth, Gated
  <1>3. CASE Eligible(r) = {}
    <2>1. Leave(r, "done") /\ UNCHANGED <<up, asked>>
      BY <1>3 DEF GrowthRedeem
    <2>2. Forgetful /\ PoolTypes
      BY <1>1, <2>1, ReadTypes DEF Forgetful
    <2>3. QED
      BY <1>1, <2>1, <2>2, PlainTurn DEF Fates
  <1>4. CASE Eligible(r) # {}
    <2> DEFINE t == Highest(Eligible(r))
               granted == [U(r) EXCEPT !.claimed = @ \cup {t}, !.chances = @ + TierChances[t]]
    <2>1. t \in Tiers /\ TierChances[t] \in Nat
      BY <1>4, HighestIsATier, DailyTasksAssumption DEF Eligible
    <2>2. granted \in Records
      <3> DEFINE n == U(r).chances + TierChances[t]
                 c == U(r).claimed \cup {t}
      <3>1. n \in Nat /\ c \in SUBSET Tiers
        BY <1>2, <2>1 DEF Records
      <3>2. granted = [U(r) EXCEPT !.claimed = c, !.chances = n]
        OBVIOUS
      <3> HIDE DEF n, c
      <3>3. QED
        BY <1>2, <3>1, <3>2 DEF Records
    <2>3. /\ asked' = asked \cup {<<Home(r), Account(r), run[r].gate>>} /\ Go(r, "markReward")
          /\ \/ up' = up
             \/ up' = [up EXCEPT ![Account(r)] = granted]
             \/ up' = [up EXCEPT ![Account(r)] = U(r)]
      BY <1>4 DEF GrowthRedeem, Call
    <2> HIDE DEF granted
    <2>4. PoolTypes
      BY <1>1, <1>2, <2>2, <2>3, CallTypes
    <2>5. "markReward" \in AtAnAccount \ Gated
      BY DEF AtAnAccount, Steps, Gated
    <2>6. PICK q \in RunStates : run' = [run EXCEPT ![r] = q] /\ Keeps(r, q) /\ q.pc = "markReward"
      BY <1>1, <1>2, <2>3, <2>5, GoMoves
    <2>7. Turn(r, q)
      BY <1>1, <2>3, <2>4, <2>6 DEF Turn, Remembers, PoolTypes, memory
    <2>8. QED
      BY <2>7
  <1>5. QED
    BY <1>3, <1>4

LEMMA ReportTurns ==
  ASSUME TasksTypeOK, Growing, NEW r \in Runners, Report(r)
  PROVE  \E q \in RunStates : Turn(r, q)
  <1>1. /\ run[r].pc = "report" /\ run[r].pc \in AtAnAccount \ {"markReward"} /\ run[r].todo # <<>>
        /\ UNCHANGED <<world, day, memory, stopped, pool, asked>> /\ run[r] \in RunStates /\ U(r) \in Records
    BY RunnerFacts DEF Report, AtAnAccount, Steps
  <1>2. Forgetful
    BY <1>1 DEF Forgetful
  <1>3. CASE Finish(r, FALSE) /\ UNCHANGED up
    <2>1. PICK q \in RunStates : run' = [run EXCEPT ![r] = q] /\ EndsIt(r, q) /\ q.pc = "idle"
      BY <1>1, <1>3, FinishMoves
    <2>2. PoolTypes
      BY <1>1, <1>3, ReadTypes
    <2>3. Turn(r, q)
      BY <1>1, <1>2, <2>1, <2>2 DEF Turn, Remembers, Forgetful, PoolTypes, memory
    <2>4. QED
      BY <2>3
  <1> DEFINE n == run[r].sent + 1
  <1>4. CASE /\ checkinMus' = checkinMus /\ (up' = up \/ up' = [up EXCEPT ![Account(r)] = Reported(U(r))])
             /\ \/ Leave(r, "failed") \/ run' = [run EXCEPT ![r].sent = n, ![r].pc = "buddy"]
                \/ run' = [run EXCEPT ![r].sent = n]
    <2>1. PoolTypes
      <3> DEFINE k == IF U(r).talks < Enough THEN U(r).talks + 1 ELSE U(r).talks
                 d == IF U(r).active THEN U(r).days ELSE U(r).days + 1
      <3>1. k \in Nat /\ d \in Nat
        BY <1>1, DailyTasksAssumption DEF Records
      <3>2. Reported(U(r)) = [U(r) EXCEPT !.talks = k, !.active = TRUE, !.days = d]
        BY DEF Reported
      <3> HIDE DEF k, d
      <3>3. Reported(U(r)) \in Records
        BY <1>1, <3>1, <3>2 DEF Records
      <3>4. QED
        BY <1>1, <1>4, <3>3, CallTypes
    <2>2. CASE Leave(r, "failed")
      BY <1>1, <1>2, <1>4, <2>1, <2>2, PlainTurn DEF Fates
    <2>3. CASE run' = [run EXCEPT ![r].sent = n, ![r].pc = "buddy"] \/ run' = [run EXCEPT ![r].sent = n]
      <3>1. PICK p \in {"buddy", "report"} : run' = [run EXCEPT ![r] = [run[r] EXCEPT !.sent = n, !.pc = p]]
        <4>1. run[r] = [run[r] EXCEPT !.pc = "report"]
          BY <1>1 DEF RunStates
        <4>2. [run[r] EXCEPT !.sent = n] = [run[r] EXCEPT !.sent = n, !.pc = "report"]
          BY <1>1 DEF RunStates
        <4>3. QED
          BY <2>3, <4>2 DEF TasksTypeOK
      <3> DEFINE q == [run[r] EXCEPT !.sent = n, !.pc = p]
      <3>2. n \in Nat
        BY <1>1 DEF RunStates
      <3> HIDE DEF n
      <3>3. /\ q \in RunStates /\ q.pc = p /\ q.todo = run[r].todo
            /\ q.fate = run[r].fate /\ q.ended = run[r].ended
        BY <1>1, <3>2 DEF RunStates, Steps
      <3>4. run' = [run EXCEPT ![r] = q]
        BY <3>1
      <3> HIDE DEF q
      <3>5. p \in AtAnAccount \ {"markReward"} /\ p \notin Growth \cup Gated
        BY DEF AtAnAccount, Steps, Growth, Gated
      <3>6. QED
        BY <1>1, <1>2, <1>4, <2>1, <3>3, <3>4, <3>5, SetTurn
    <2>4. QED
      BY <1>4, <2>2, <2>3
  <1>5. QED
    BY <1>3, <1>4 DEF Report, Call

LEMMA WalkTurns ==
  ASSUME TasksTypeOK, Growing, NEW r \in Runners, NextAccount(r) \/ Start(r)
  PROVE  \E q \in RunStates : Turn(r, q)
  <1>1. /\ Forgetful /\ UNCHANGED up /\ UNCHANGED pool /\ run[r] \in RunStates /\ run[r].pc \in {"next", "idle"}
        /\ world.accounts \in Seq(Accounts)
    BY RunnerFacts DEF NextAccount, Start, Forgetful
  <1>2. PoolTypes
    BY <1>1, ReadTypes
  <1>3. CASE NextAccount(r) /\ \E ended \in BOOLEAN : Finish(r, ended) /\ (ended => run[r].todo = <<>>)
    <2>1. PICK ended \in BOOLEAN : Finish(r, ended) /\ (ended => run[r].todo = <<>>)
      BY <1>3
    <2>2. run[r].pc = "next"
      BY <1>3 DEF NextAccount
    <2>3. PICK q \in RunStates : run' = [run EXCEPT ![r] = q] /\ EndsIt(r, q) /\ q.pc = "idle"
      BY <2>1, <2>2, FinishMoves
    <2>4. Turn(r, q)
      BY <1>1, <1>2, <2>2, <2>3 DEF Turn, Remembers, Forgetful, PoolTypes, memory
    <2>5. QED
      BY <2>4
  <1>4. CASE NextAccount(r) /\ run[r].todo # <<>> /\ Leave(r, "skipped") /\ UNCHANGED checkinMus
    <2>1. PICK q \in RunStates : run' = [run EXCEPT ![r] = q] /\ LeavesIt(r, q) /\ q.pc = "next"
      <3>1. run[r].pc = "next"
        BY <1>4 DEF NextAccount
      <3>2. QED
        BY <1>4, <3>1, LeaveMoves DEF Fates
    <2>2. run[r].pc = "next"
      BY <1>4 DEF NextAccount
    <2>3. Turn(r, q)
      BY <1>1, <1>2, <2>1, <2>2 DEF Turn, Remembers, Forgetful, PoolTypes, memory
    <2>4. QED
      BY <2>3
  <1>5. CASE /\ NextAccount(r) /\ run[r].todo # <<>> /\ UNCHANGED checkinMus
             /\ run' = [run EXCEPT ![r].pc = FirstStep(r), ![r].first = FALSE]
    <2> DEFINE p == FirstStep(r)
               q == [run[r] EXCEPT !.pc = p, !.first = FALSE]
    <2>1. p \in AtAnAccount \ {"markReward"} /\ p \notin Growth \cup Gated
      BY DEF FirstStep, AtAnAccount, Steps, Growth, Gated
    <2>2. run' = [run EXCEPT ![r] = q]
      BY <1>5 DEF TasksTypeOK
    <2> HIDE DEF p
    <2>3. /\ q \in RunStates /\ q.pc = p /\ q.todo = run[r].todo
          /\ q.fate = run[r].fate /\ q.ended = run[r].ended
      BY <1>1, <2>1 DEF RunStates, AtAnAccount
    <2> HIDE DEF q
    <2>4. run[r].pc = "next"
      BY <1>5 DEF NextAccount
    <2>5. QED
      BY <1>1, <1>2, <1>5, <2>1, <2>2, <2>3, <2>4, SetTurn
  <1>6. CASE Start(r)
    <2> DEFINE q == [run[r] EXCEPT !.pc = "next", !.todo = world.accounts, !.off = disabled, !.first = TRUE,
                                   !.fate = [a \in Accounts |-> "none"], !.ended = FALSE, !.left = @ - 1]
    <2>1. run' = [run EXCEPT ![r] = q]
      BY <1>6 DEF Start, TasksTypeOK
    <2>2. run[r].left - 1 \in Nat
      BY <1>1, <1>6 DEF Start, RunStates
    <2>3. q \in RunStates /\ q.pc = "next" /\ q.todo = world.accounts /\ ~q.ended
      BY <1>1, <2>2 DEF RunStates, Steps, Fates, TasksTypeOK
    <2> HIDE DEF q
    <2>4. StartsIt(r, q)
      BY <1>6, <2>3 DEF Start, StartsIt
    <2>5. run[r].pc = "idle"
      BY <1>6 DEF Start
    <2>6. Turn(r, q)
      BY <1>1, <1>2, <2>1, <2>3, <2>4, <2>5 DEF Turn, Remembers, Forgetful, PoolTypes, memory
    <2>7. QED
      BY <2>3, <2>6
  <1>7. QED
    BY <1>3, <1>4, <1>5, <1>6 DEF NextAccount

LEMMA RunTurns ==
  ASSUME TasksTypeOK, Growing, NEW r \in Runners, Start(r) \/ Step(r)
  PROVE  \E q \in RunStates : Turn(r, q)
  BY WalkTurns, ReportTurns, AdoptionTurns, GateTurns, MarkTurns, TravelTurns, LotteryTurns, RewardReadTurns,
     CardTurns, RedeemTurns, SessionTurns DEF Step

-----------------------------------------------------------------------------
(* The tasks: the invariant *)

\* What was asked for is marked, or the run that asked is about to mark it.
Marked ==
  \A p \in Processes, a \in Accounts, d \in 1..day :
    <<p, a, d>> \in asked =>
      \/ d <= rewardClaimed[p][a]
      \/ \E r \in Runners : Home(r) = p /\ run[r].pc = "markReward" /\ Account(r) = a

\* A run past the gate has not asked for the day it passed it.
Ungated ==
  \A r \in Runners :
    run[r].pc \in Gated => run[r].gate \in 1..day /\ <<Home(r), Account(r), run[r].gate>> \notin asked

\* An account is behind a walk or still ahead of it.
Walking ==
  \A r \in Runners :
    /\ run[r].pc # "idle" =>
         /\ ~run[r].ended
         /\ \A a \in Range(world.accounts) : run[r].fate[a] # "none" \/ a \in Range(run[r].todo)
    /\ run[r].ended => \A a \in Range(world.accounts) : run[r].fate[a] # "none"

TaskInv == TasksTypeOK /\ Growing /\ Marked /\ Ungated /\ Walking

LEMMA RangeOfWalk ==
  ASSUME NEW s \in Seq(Accounts), s # <<>>
  PROVE  \A a \in Range(s) : a = Head(s) \/ a \in Range(Tail(s))
  <1> SUFFICES ASSUME NEW a \in Range(s), a # Head(s) PROVE a \in Range(Tail(s))
    OBVIOUS
  <1>1. PICK n \in 1..Len(s) : a = s[n]
    BY DEF Range
  <1>2. n # 1
    BY <1>1
  <1>3. /\ Len(s) \in Nat /\ Len(Tail(s)) = Len(s) - 1 /\ DOMAIN Tail(s) = 1..Len(Tail(s))
        /\ \A m \in 1..Len(Tail(s)) : Tail(s)[m] = s[m + 1]
    BY HeadTailProperties
  <1>4. n - 1 \in 1..Len(Tail(s)) /\ n - 1 + 1 = n
    BY <1>1, <1>2, <1>3
  <1>5. Tail(s)[n - 1] = s[n]
    BY <1>3, <1>4
  <1>6. QED
    BY <1>1, <1>3, <1>4, <1>5 DEF Range

LEMMA OneActivity ==
  ASSUME TasksTypeOK, NEW r \in Runners, NEW s \in Runners,
         Job(r) = "activity", Job(s) = "activity", Home(r) = Home(s)
  PROVE  r = s
  BY DailyTasksAssumption DEF TasksTypeOK, Job, Home

\* The runs other than the one that steps stay as they are.
LEMMA TurnFrame ==
  ASSUME TasksTypeOK, NEW r \in Runners, NEW q \in RunStates, Turn(r, q)
  PROVE  /\ run'[r] = q /\ \A s \in Runners \ {r} : run'[s] = run[s]
         /\ \A s \in Runners : Home(s)' = Home(s) /\ Job(s)' = Job(s)
         /\ \A s \in Runners : s # r => Account(s)' = Account(s)
         /\ (q.pc \in AtAnAccount => Account(r)' = Account(r) /\ Keeps(r, q))
         /\ UNCHANGED <<world, day, stopped>>
  <1>1. run'[r] = q /\ \A s \in Runners \ {r} : run'[s] = run[s]
    BY DEF Turn, TasksTypeOK
  <1>2. q.pc \in AtAnAccount => Keeps(r, q)
    BY DEF Turn, LeavesIt, EndsIt, StartsIt, AtAnAccount, Steps
  <1>3. q.pc \in AtAnAccount => Account(r)' = Account(r)
    BY <1>1, <1>2 DEF Keeps, Account
  <1>4. QED
    BY <1>1, <1>2, <1>3 DEF Turn, Home, Job, Account

LEMMA MemoryTypes ==
  ASSUME TasksTypeOK, NEW r \in Runners, NEW q \in RunStates, Remembers(r, q)
  PROVE  /\ adoptTried' \in [Processes -> [Accounts -> 0..day]]
         /\ rewardClaimed' \in [Processes -> [Accounts -> 0..day]]
  <1>1. day \in Nat /\ day \in 0..day /\ Home(r) \in Processes
    BY RunnerFacts
  <1>2. ASSUME NEW f \in [Processes -> [Accounts -> 0..day]]
        PROVE  [f EXCEPT ![Home(r)][Account(r)] = day] \in [Processes -> [Accounts -> 0..day]]
    <2>1. [f[Home(r)] EXCEPT ![Account(r)] = day] \in [Accounts -> 0..day]
      BY <1>1
    <2>2. QED
      BY <1>1, <2>1
  <1>3. adoptTried \in [Processes -> [Accounts -> 0..day]] /\ rewardClaimed \in [Processes -> [Accounts -> 0..day]]
    BY DEF TasksTypeOK
  <1>4. QED
    BY <1>2, <1>3 DEF Remembers

LEMMA MutexTurn ==
  ASSUME TasksTypeOK, NEW r \in Runners, NEW q \in RunStates, Turn(r, q)
  PROVE  /\ checkinMus' \in [Processes -> Runners \cup {NoRunner}]
         /\ \A s \in Runners : Job(s) = "checkin" => (run'[s].pc # "idle" <=> checkinMus'[Home(s)] = s)
  <1>1. /\ run'[r] = q /\ \A s \in Runners \ {r} : run'[s] = run[s]
        /\ Home(r) \in Processes /\ checkinMus \in [Processes -> Runners \cup {NoRunner}]
        /\ \A s \in Runners : Home(s) \in Processes
    BY TurnFrame, RunnerFacts DEF TasksTypeOK
  <1>2. \A s \in Runners : Job(s) = "checkin" => (run[s].pc # "idle" <=> checkinMus[Home(s)] = s)
    BY DEF TasksTypeOK, Job, Home
  <1>3. CASE Keeps(r, q) \/ LeavesIt(r, q)
    BY <1>1, <1>2, <1>3 DEF Keeps, LeavesIt, AtAnAccount
  <1>4. CASE EndsIt(r, q)
    <2>1. /\ q.pc = "idle" /\ run[r].pc # "idle"
          /\ checkinMus' = [checkinMus EXCEPT ![Home(r)] = IF @ = r THEN NoRunner ELSE @]
      BY <1>4 DEF EndsIt, AtAnAccount
    <2>2. NoRunner \notin Runners
      BY DailyTasksAssumption
    <2>3. ASSUME NEW s \in Runners, Job(s) = "checkin"
          PROVE  run'[s].pc # "idle" <=> checkinMus'[Home(s)] = s
      <3>1. CASE s = r
        BY <1>1, <1>2, <2>1, <2>2, <2>3, <3>1
      <3>2. CASE s # r
        BY <1>1, <1>2, <2>1, <2>2, <2>3, <3>2
      <3>3. QED
        BY <3>1, <3>2
    <2>4. QED
      BY <1>1, <2>1, <2>3
  <1>5. CASE StartsIt(r, q)
    <2>1. /\ q.pc = "next" /\ run[r].pc = "idle" /\ (Job(r) = "checkin" => checkinMus[Home(r)] = NoRunner)
          /\ checkinMus' = IF Job(r) = "checkin" THEN [checkinMus EXCEPT ![Home(r)] = r] ELSE checkinMus
      BY <1>5 DEF StartsIt
    <2>2. NoRunner \notin Runners
      BY DailyTasksAssumption
    <2>3. ASSUME NEW s \in Runners, Job(s) = "checkin"
          PROVE  run'[s].pc # "idle" <=> checkinMus'[Home(s)] = s
      <3>1. CASE s = r
        BY <1>1, <1>2, <2>1, <2>2, <2>3, <3>1
      <3>2. CASE s # r
        BY <1>1, <1>2, <2>1, <2>2, <2>3, <3>2
      <3>3. QED
        BY <3>1, <3>2
    <2>4. QED
      BY <1>1, <2>1, <2>3
  <1>6. QED
    BY <1>3, <1>4, <1>5 DEF Turn

LEMMA TypeTurn ==
  ASSUME TasksTypeOK, Ungated, NEW r \in Runners, NEW q \in RunStates, Turn(r, q)
  PROVE  TasksTypeOK'
  <1>1. /\ run'[r] = q /\ \A s \in Runners \ {r} : run'[s] = run[s]
        /\ UNCHANGED <<world, day, stopped>> /\ (q.pc \in AtAnAccount => Keeps(r, q))
    BY TurnFrame
  <1>2. run' \in [Runners -> RunStates]
    BY DEF Turn, TasksTypeOK
  <1>3. \A s \in Runners : run'[s].pc \notin {"idle", "next"} => run'[s].todo # <<>>
    <2>1. q.pc \in Steps
      BY DEF RunStates
    <2>2. q.pc \notin {"idle", "next"} => q.todo # <<>>
      BY <1>1, <2>1 DEF AtAnAccount, Keeps
    <2>3. QED
      BY <1>1, <2>2 DEF TasksTypeOK
  <1>4. asked' \subseteq Processes \X Accounts \X (1..day)
    <2>1. run[r].pc = "redeem" => <<Home(r), Account(r), run[r].gate>> \in Processes \X Accounts \X (1..day)
      BY RunnerFacts DEF Ungated, Gated, AtAnAccount, Steps
    <2>2. QED
      BY <2>1 DEF Turn, Remembers, TasksTypeOK
  <1>5. /\ adoptTried' \in [Processes -> [Accounts -> 0..day]]
        /\ rewardClaimed' \in [Processes -> [Accounts -> 0..day]]
    BY MemoryTypes DEF Turn
  <1>6. /\ checkinMus' \in [Processes -> Runners \cup {NoRunner}]
        /\ \A s \in Runners : Job(s) = "checkin" => (run'[s].pc # "idle" <=> checkinMus'[Home(s)] = s)
    BY MutexTurn
  <1>7. /\ up' \in [Accounts -> Records] /\ dead' \in [Accounts -> Nat] /\ disabled' \subseteq Accounts
    BY DEF Turn
  <1>8. QED
    BY <1>1, <1>2, <1>3, <1>4, <1>5, <1>6, <1>7 DEF TasksTypeOK, Job, Home

LEMMA GrowingTurn ==
  ASSUME TasksTypeOK, Growing, NEW r \in Runners, NEW q \in RunStates, Turn(r, q)
  PROVE  Growing'
  <1>1. q.pc \in Growth => Job(r) = "activity"
    BY TurnFrame DEF Keeps, Growth, Gated, AtAnAccount, Steps
  <1>2. QED
    BY <1>1, TurnFrame DEF Growing

LEMMA MarkedTurn ==
  ASSUME TasksTypeOK, Marked, Ungated, NEW r \in Runners, NEW q \in RunStates, Turn(r, q)
  PROVE  Marked'
  <1>1. /\ run'[r] = q /\ \A s \in Runners \ {r} : run'[s] = run[s] /\ Account(s)' = Account(s)
        /\ \A s \in Runners : Home(s)' = Home(s)
        /\ (q.pc = "markReward" => Account(r)' = Account(r))
        /\ day' = day /\ day \in Nat /\ Home(r) \in Processes
    BY TurnFrame, RunnerFacts DEF AtAnAccount, Steps
  <1>2. SUFFICES ASSUME NEW p \in Processes, NEW a \in Accounts, NEW d \in 1..day, <<p, a, d>> \in asked'
                 PROVE  \/ d <= rewardClaimed'[p][a]
                        \/ \E s \in Runners : Home(s) = p /\ run'[s].pc = "markReward" /\ Account(s)' = a
    BY <1>1 DEF Marked
  <1>3. rewardClaimed \in [Processes -> [Accounts -> 0..day]]
    BY DEF TasksTypeOK
  <1>4. rewardClaimed[p][a] <= rewardClaimed'[p][a]
    BY <1>1, <1>3 DEF Turn, Remembers
  <1>5. CASE <<p, a, d>> \notin asked
    <2>1. q.pc = "markReward" /\ p = Home(r) /\ a = Account(r)
      BY <1>2, <1>5 DEF Turn, Remembers
    <2>2. QED
      BY <1>1, <2>1
  <1>6. CASE <<p, a, d>> \in asked /\ d <= rewardClaimed[p][a]
    <2>1. rewardClaimed'[p][a] \in 0..day /\ rewardClaimed[p][a] \in 0..day
      BY <1>3, MemoryTypes DEF Turn
    <2>2. QED
      BY <1>1, <1>4, <1>6, <2>1
  <1>7. CASE \E s \in Runners : Home(s) = p /\ run[s].pc = "markReward" /\ Account(s) = a
    <2>1. PICK s \in Runners : Home(s) = p /\ run[s].pc = "markReward" /\ Account(s) = a
      BY <1>7
    <2>2. CASE s # r
      BY <1>1, <2>1, <2>2
    <2>3. CASE s = r
      <3>1. rewardClaimed' = [rewardClaimed EXCEPT ![p][a] = day]
        BY <2>1, <2>3 DEF Turn, Remembers
      <3>2. rewardClaimed'[p][a] = day
        BY <1>3, <3>1
      <3>3. QED
        BY <1>1, <3>2
    <2>4. QED
      BY <2>2, <2>3
  <1>8. QED
    BY <1>5, <1>6, <1>7 DEF Marked

LEMMA UngatedTurn ==
  ASSUME TasksTypeOK, Growing, Marked, Ungated, NEW r \in Runners, NEW q \in RunStates, Turn(r, q)
  PROVE  Ungated'
  <1>1. /\ run'[r] = q /\ \A s \in Runners \ {r} : run'[s] = run[s] /\ Account(s)' = Account(s)
        /\ \A s \in Runners : Home(s)' = Home(s) /\ Job(s)' = Job(s)
        /\ (q.pc \in Gated => Account(r)' = Account(r) /\ Keeps(r, q))
        /\ day' = day /\ day \in Nat
    BY TurnFrame, RunnerFacts DEF Gated, AtAnAccount, Steps
  <1>2. ASSUME NEW s \in Runners, s # r, run[s].pc \in Gated
        PROVE  run[s].gate \in 1..day /\ <<Home(s), Account(s), run[s].gate>> \notin asked'
    <2>1. run[s].gate \in 1..day /\ <<Home(s), Account(s), run[s].gate>> \notin asked
      BY <1>2 DEF Ungated
    <2>2. run[r].pc = "redeem" => Home(r) # Home(s)
      BY <1>2, OneActivity DEF Growing, Growth, Gated
    <2>3. QED
      BY <2>1, <2>2 DEF Turn, Remembers
  <1>3. ASSUME q.pc \in Gated
        PROVE  q.gate \in 1..day /\ <<Home(r), Account(r), q.gate>> \notin asked'
    <2>1. asked' = asked
      BY <1>3 DEF Turn, Remembers, Gated
    <2>2. CASE run[r].pc \in Gated /\ q.gate = run[r].gate
      BY <2>1, <2>2 DEF Ungated
    <2>3. CASE run[r].pc = "gate" /\ q.gate = day /\ rewardClaimed[Home(r)][Account(r)] # day
      <3>1. Home(r) \in Processes /\ Account(r) \in Accounts /\ day \in 1..day
        <4>1. day \in 1..world.until /\ world.until \in Nat
          BY RunnerFacts DEF TasksTypeOK
        <4>2. day \in 1..day
          BY <4>1
        <4>3. run[r].todo # <<>>
          BY <2>3 DEF TasksTypeOK
        <4>4. QED
          BY <4>2, <4>3, RunnerFacts
      <3>2. rewardClaimed[Home(r)][Account(r)] \in 0..day
        BY <3>1 DEF TasksTypeOK
      <3>3. ~(day <= rewardClaimed[Home(r)][Account(r)])
        BY <1>1, <2>3, <3>2
      <3>4. ASSUME NEW s \in Runners, Home(s) = Home(r), run[s].pc = "markReward" PROVE FALSE
        <4>1. Job(s) = "activity" /\ Job(r) = "activity"
          BY <2>3, <3>4 DEF Growing, Growth
        <4>2. s = r
          BY <3>4, <4>1, OneActivity
        <4>3. QED
          BY <2>3, <3>4, <4>2
      <3>5. <<Home(r), Account(r), day>> \notin asked
        BY <3>1, <3>3, <3>4 DEF Marked
      <3>6. QED
        BY <2>1, <2>3, <3>1, <3>5
    <2>4. QED
      BY <1>1, <1>3, <2>2, <2>3 DEF Keeps
  <1>4. QED
    BY <1>1, <1>2, <1>3 DEF Ungated

LEMMA WalkingTurn ==
  ASSUME TasksTypeOK, Walking, NEW r \in Runners, NEW q \in RunStates, Turn(r, q)
  PROVE  Walking'
  <1> DEFINE Ahead(f, t) == \A a \in Range(world.accounts) : f[a] # "none" \/ a \in Range(t)
             Behind1(f) == \A a \in Range(world.accounts) : f[a] # "none"
  <1>1. /\ run'[r] = q /\ \A s \in Runners \ {r} : run'[s] = run[s]
        /\ world' = world /\ run[r] \in RunStates /\ run[r].todo \in Seq(Accounts)
    BY TurnFrame, RunnerFacts DEF RunStates
  <1>2. /\ run[r].pc # "idle" => ~run[r].ended /\ Ahead(run[r].fate, run[r].todo)
        /\ run[r].ended => Behind1(run[r].fate)
    BY DEF Walking
  <1>3. (q.pc # "idle" => ~q.ended /\ Ahead(q.fate, q.todo)) /\ (q.ended => Behind1(q.fate))
    <2>1. CASE Keeps(r, q)
      BY <1>2, <2>1 DEF Keeps, AtAnAccount
    <2>2. CASE LeavesIt(r, q)
      <3>1. /\ run[r].pc # "idle" /\ run[r].todo # <<>> /\ q.todo = Tail(run[r].todo) /\ q.ended = run[r].ended
        BY <2>2 DEF LeavesIt, AtAnAccount
      <3>2. PICK how \in Fates \ {"none"} : q.fate = [run[r].fate EXCEPT ![Account(r)] = how]
        BY <2>2 DEF LeavesIt
      <3>3. \A a \in Range(run[r].todo) : a = Account(r) \/ a \in Range(q.todo)
        BY <1>1, <3>1, RangeOfWalk DEF Account
      <3>4. q.fate[Account(r)] # "none"
        BY <1>1, <3>1, <3>2, RunnerFacts DEF RunStates
      <3>5. \A a \in Accounts : a # Account(r) => q.fate[a] = run[r].fate[a]
        BY <1>1, <3>2 DEF RunStates
      <3>6. \A a \in Range(world.accounts) : a \in Accounts
        <4>1. world.accounts \in Seq(Accounts)
          BY RunnerFacts
        <4>2. QED
          BY <4>1 DEF Range
      <3>7. Ahead(q.fate, q.todo)
        BY <1>2, <3>1, <3>3, <3>4, <3>5, <3>6
      <3>8. QED
        BY <1>2, <3>1, <3>7
    <2>3. CASE EndsIt(r, q)
      <3>1. ASSUME q.ended PROVE Behind1(q.fate)
        <4>1. run[r].pc = "next" /\ run[r].todo = <<>> /\ q.fate = run[r].fate
          BY <2>3, <3>1 DEF EndsIt
        <4>2. Range(run[r].todo) = {}
          BY <4>1 DEF Range
        <4>3. QED
          BY <1>2, <4>1, <4>2
      <3>2. QED
        BY <2>3, <3>1 DEF EndsIt
    <2>4. CASE StartsIt(r, q)
      BY <2>4 DEF StartsIt
    <2>5. QED
      BY <2>1, <2>2, <2>3, <2>4 DEF Turn
  <1>4. QED
    BY <1>1, <1>3 DEF Walking

LEMMA TurnKeeps ==
  ASSUME TaskInv, NEW r \in Runners, Start(r) \/ Step(r)
  PROVE  TaskInv'
  <1>1. PICK q \in RunStates : Turn(r, q)
    BY RunTurns DEF TaskInv
  <1>2. QED
    BY <1>1, TypeTurn, GrowingTurn, MarkedTurn, UngatedTurn, WalkingTurn DEF TaskInv

\* Midnight, an arrival and the end of the server leave the runs and the memory of the day alone.
LEMMA OutsideKeeps ==
  ASSUME TaskInv, UNCHANGED <<world, memory, checkinMus, run, pool, asked>>,
         day' \in day..world.until, up' \in [Accounts -> Records], stopped' \subseteq Processes
  PROVE  TaskInv'
  <1>1. /\ day \in Nat /\ world.until \in Nat /\ day' \in Nat /\ day <= day' /\ day \in 1..world.until
    BY RunnerBounds DEF TaskInv
  <1>2. day' \in 1..world.until /\ 1..day \subseteq 1..day' /\ 0..day \subseteq 0..day'
    BY <1>1
  <1>3. TasksTypeOK'
    <2>1. /\ adoptTried \in [Processes -> [Accounts -> 0..day']]
          /\ rewardClaimed \in [Processes -> [Accounts -> 0..day']]
      BY <1>2 DEF TaskInv, TasksTypeOK
    <2>2. asked \subseteq Processes \X Accounts \X (1..day')
      BY <1>2 DEF TaskInv, TasksTypeOK
    <2>3. QED
      BY <1>2, <2>1, <2>2 DEF TaskInv, TasksTypeOK, memory, pool
  <1>4. Growing' /\ Walking'
    BY DEF TaskInv, Growing, Walking, Job
  <1>5. Marked'
    <2>1. \A p, a, d : <<p, a, d>> \in asked => d \in 1..day
      BY DEF TaskInv, TasksTypeOK
    <2>2. QED
      BY <2>1 DEF TaskInv, Marked, Home, Account, memory
  <1>6. Ungated'
    BY <1>2 DEF TaskInv, Ungated, Home, Account
  <1>7. QED
    BY <1>3, <1>4, <1>5, <1>6 DEF TaskInv

LEMMA NightTypes ==
  ASSUME NEW u \in Records
  PROVE  Overnight(u) \in Records
  <1> DEFINE k == IF u.active THEN 0 ELSE u.days
             d == IF u.active THEN u.days ELSE 0
             m == ~u.active
  <1>1. k \in Nat /\ d \in Nat /\ m \in BOOLEAN
    BY DEF Records
  <1>2. Overnight(u) = [u EXCEPT !.limit = FALSE, !.active = FALSE, !.missed = m, !.kept = k, !.days = d]
    BY DEF Overnight
  <1> HIDE DEF k, d, m
  <1>3. QED
    BY <1>1, <1>2 DEF Records

LEMMA InitTaskInv == TasksInit => TaskInv
  <1> SUFFICES ASSUME TasksInit PROVE TaskInv
    OBVIOUS
  <1>1. /\ world \in Worlds /\ day = 1 /\ asked = {} /\ stopped = {} /\ disabled = {}
        /\ run = [r \in Runners |-> Waiting] /\ checkinMus = [p \in Processes |-> NoRunner]
        /\ adoptTried = [p \in Processes |-> [a \in Accounts |-> 0]] /\ rewardClaimed = adoptTried
        /\ dead = [a \in Accounts |-> 0]
    BY DEF TasksInit
  <1>2. /\ world \in [job : [Runners -> Jobs], home : [Runners -> Processes], accounts : Seq(Accounts),
                      times : Nat, faults : SUBSET Faults, until : 1..MaxDay]
        /\ NoRunner \notin Runners
    BY <1>1, DailyTasksAssumption
  <1>3. day \in 1..world.until
    <2>1. world.until \in 1..MaxDay /\ MaxDay \in Nat
      BY <1>2, DailyTasksAssumption
    <2>2. QED
      BY <1>1, <2>1
  <1>4. up \in [Accounts -> Records]
    <2>1. PICK missed \in BOOLEAN, cards \in 0..1 :
            up = [a \in Accounts |->
                   [cat |-> FALSE, talks |-> 0, trip |-> "idle", limit |-> FALSE, active |-> FALSE,
                    missed |-> missed, days |-> IF missed THEN 0 ELSE 1, kept |-> IF missed THEN 1 ELSE 0,
                    cards |-> cards, claimed |-> {}, chances |-> 0, gift |-> FALSE]]
      BY DEF TasksInit
    <2>2. cards \in Nat
      OBVIOUS
    <2>3. QED
      BY <2>1, <2>2 DEF Records
  <1>5. Waiting \in RunStates
    BY <1>2 DEF Waiting, RunStates, Steps, Fates
  <1>6. \A r \in Runners : run[r] = Waiting /\ run[r].pc = "idle" /\ ~run[r].ended /\ world.home[r] \in Processes
    BY <1>1, <1>2 DEF Waiting
  <1>7. TasksTypeOK
    <2>1. run \in [Runners -> RunStates]
      BY <1>1, <1>5
    <2>2. \A r \in Runners : checkinMus[world.home[r]] # r
      BY <1>1, <1>2, <1>6
    <2>3. /\ adoptTried \in [Processes -> [Accounts -> 0..day]]
          /\ rewardClaimed \in [Processes -> [Accounts -> 0..day]]
          /\ checkinMus \in [Processes -> Runners \cup {NoRunner}] /\ dead \in [Accounts -> Nat]
      BY <1>1
    <2>4. QED
      BY <1>1, <1>3, <1>4, <1>6, <2>1, <2>2, <2>3 DEF TasksTypeOK
  <1>8. Growing /\ Marked /\ Ungated /\ Walking
    BY <1>1, <1>6 DEF Growing, Growth, Gated, Marked, Ungated, Walking
  <1>9. QED
    BY <1>7, <1>8 DEF TaskInv

LEMMA NextTaskInv == TaskInv /\ [TasksNext]_tasksVars => TaskInv'
  <1> SUFFICES ASSUME TaskInv, [TasksNext]_tasksVars PROVE TaskInv'
    OBVIOUS
  <1>1. /\ up \in [Accounts -> Records] /\ stopped \subseteq Processes
        /\ day \in day..world.until /\ (day < world.until => day + 1 \in day..world.until)
    BY RunnerBounds DEF TaskInv, TasksTypeOK
  <1>2. CASE \E r \in Runners : Start(r) \/ Step(r)
    BY <1>2, TurnKeeps
  <1>3. CASE Midnight
    <2>1. up' \in [Accounts -> Records]
      BY <1>1, <1>3, NightTypes DEF Midnight
    <2>2. QED
      BY <1>1, <1>3, <2>1, OutsideKeeps DEF Midnight
  <1>4. CASE \E a \in Accounts : Arrive(a)
    <2>1. PICK a \in Accounts : Arrive(a)
      BY <1>4
    <2>2. up' \in [Accounts -> Records]
      BY <1>1, <2>1 DEF Arrive, Records
    <2>3. QED
      BY <1>1, <2>1, <2>2, OutsideKeeps DEF Arrive
  <1>5. CASE \E p \in Processes : StopServer(p)
    <2>1. PICK p \in Processes : StopServer(p)
      BY <1>5
    <2>2. UNCHANGED <<world, day, up, memory, pool, checkinMus, run, asked>> /\ stopped' \subseteq Processes
      BY <1>1, <2>1 DEF StopServer
    <2>3. QED
      BY <1>1, <2>2, OutsideKeeps
  <1>6. CASE UNCHANGED tasksVars
    BY <1>1, <1>6, OutsideKeeps DEF tasksVars, memory, pool
  <1>7. QED
    BY <1>2, <1>3, <1>4, <1>5, <1>6 DEF TasksNext

LEMMA TasksInductive == TasksSpec => []TaskInv
  BY InitTaskInv, NextTaskInv, PTL DEF TasksSpec

\* RunTravel, RunActivity, CheckinAll, RunKeepalive: a run that is under way is at an account of its walk;
\* a check-in is under way exactly while it holds its process's mutex.
THEOREM TasksTypeCorrect == TasksSpec => []TasksTypeOK
  BY TasksInductive, PTL DEF TaskInv

\* The loops over pool.ForScheduler: a walk that comes to its end has been at every account, whatever
\* calls failed on the way.
THEOREM TurnForEveryAccount == TasksSpec => []EveryAccountHasItsTurn
  <1>1. TaskInv => EveryAccountHasItsTurn
    BY DEF TaskInv, Walking, EveryAccountHasItsTurn
  <1>2. QED
    BY <1>1, TasksInductive, PTL

\* claimGrowthRewards: the check comes before the call and the mark after it, yet no two calls of a
\* process are for the same account and day: its one activity run marks before it comes round again.
THEOREM RedeemsOnceADay == TasksSpec => OneRedemptionADay
  <1>1. TaskInv /\ [TasksNext]_tasksVars =>
          [\A r \in Runners :
             GrowthRedeem(r) /\ Eligible(r) # {} => <<Home(r), Account(r), run[r].gate>> \notin asked]_tasksVars
    BY DEF TaskInv, Ungated, Gated, GrowthRedeem
  <1>2. QED
    BY <1>1, TasksInductive, PTL DEF TasksSpec, OneRedemptionADay

=============================================================================
