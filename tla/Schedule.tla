------------------------------ MODULE Schedule ------------------------------
(***************************************************************************)
(* The scheduler's loop (src/internal/scheduler/scheduler.go) and its part *)
(* of the configuration (src/internal/config/schedule.go): six kinds of    *)
(* tasks, each at some hours of the day.  The loop sleeps until the next   *)
(* hour of any kind, starts all kinds planned for it at once, waits for    *)
(* all of them, and plans again from the time it is then.                  *)
(*                                                                         *)
(* A check-in can also be started by hand, which makes a scheduled one     *)
(* skip; the machine can be suspended, so that the timer fires late; the   *)
(* context is cancelled when the server stops.                             *)
(*                                                                         *)
(* TIME.  now counts hours; the grace after a late wake-up and the start   *)
(* of a batch are far shorter, so no hour passes in them unless the        *)
(* machine is suspended.  Every day has the same hours: when the zone's    *)
(* clocks are moved, slots move with them (see the README).                *)
(*                                                                         *)
(* BOUNDS.  MaxNow ends the clock, MaxNap a suspension.                    *)
(***************************************************************************)
EXTENDS Integers

CONSTANTS
  Kinds, Checkin,
  Day,            \* hours of a day
  DefaultHours,   \* DefaultSchedule
  Configs,        \* what the file may say
  MaxNow, MaxNap

ASSUME ScheduleAssumption ==
  /\ Day \in Nat \ {0} /\ MaxNow \in Nat /\ MaxNap \in Nat
  /\ Checkin \in Kinds
  /\ DefaultHours \in [Kinds -> SUBSET (0..Day-1) \ {{}}]
  /\ Configs \subseteq [hours : [Kinds -> SUBSET Int], on : SUBSET Kinds]

VARIABLES
  config,
  now,
  pc,         \* Run
  planned,    \* next
  due,        \* kinds
  task,       \* the goroutines of runBatch
  checkinMu,  \* who holds it
  stop,       \* ctx.Err() != nil
  served,     \* the slots started so far
  blind       \* the hours that came while the loop was not waiting for them

vars == <<config, now, pc, planned, due, task, checkinMu, stop, served, blind>>

Ended == {"refused", "stopped"}

TypeOK ==
  /\ config \in Configs /\ now \in Nat
  /\ pc \in {"boot", "plan", "parked", "sleep", "grace", "batch"} \cup Ended
  /\ planned \in Int /\ due \subseteq Kinds
  /\ task \in [Kinds -> {"no", "begin", "run"}]
  /\ checkinMu \in {"free", "scheduled", "manual"} /\ stop \in BOOLEAN
  /\ served \subseteq Kinds \X Int /\ blind \subseteq Nat
  /\ checkinMu = "scheduled" <=> task[Checkin] = "run"

-----------------------------------------------------------------------------
(* The configuration: Normalize, validateHours, New *)

HoursOf(k) == IF config.hours[k] = {} THEN DefaultHours[k] ELSE config.hours[k]
Valid == \A k \in Kinds : HoursOf(k) \subseteq 0..Day-1

(* nextFire: today at h, or 24 hours after that when it is over *)

\* Mutant: the hour that has just begun is still to come.
FireAtNow(t, h) ==
  LET today == (t \div Day) * Day + h
  IN  IF today >= t THEN today ELSE today + Day

FireAt(t, h) ==
  LET today == (t \div Day) * Day + h
  IN  IF today > t THEN today ELSE today + Day
Fires(t, k) == {FireAt(t, h) : h \in HoursOf(k)}

\* nextWake: the earliest slot of the kinds that are on, and all kinds planned for it.
AllFires(t) == UNION {Fires(t, k) : k \in config.on}
NextWake(t) == {w \in AllFires(t) : \A v \in AllFires(t) : w <= v}
OneKindAt(t, w) == {CHOOSE k \in config.on : w \in Fires(t, k)}   \* mutant: one kind of an hour
KindsAt(t, w) == {k \in config.on : w \in Fires(t, k)}

-----------------------------------------------------------------------------
(* Run *)

Boot ==
  /\ pc = "boot" /\ pc' = IF Valid THEN "plan" ELSE "refused"
  /\ UNCHANGED <<config, now, planned, due, task, checkinMu, stop, served, blind>>

Plan ==
  /\ pc = "plan"
  /\ IF config.on = {} THEN pc' = "parked" /\ UNCHANGED <<planned, due>>
     ELSE /\ pc' = "sleep" /\ planned' \in NextWake(now) /\ due' = KindsAt(now, planned')
  /\ UNCHANGED <<config, now, task, checkinMu, stop, served, blind>>

Dispatch ==
  /\ pc' = "batch" /\ task' = [k \in Kinds |-> IF k \in due THEN "begin" ELSE "no"]
  /\ served' = served \cup (due \X {planned})

\* The timer fires: at once when it is in time, else after the grace.  Done may be ready as
\* well, and the select takes either.
Fire ==
  /\ pc = "sleep" /\ now >= planned
  /\ \/ now > planned /\ pc' = "grace" /\ UNCHANGED <<task, served>>
     \/ now = planned /\ ~stop /\ Dispatch
     \/ now = planned /\ stop /\ pc' = "stopped" /\ UNCHANGED <<task, served>>
  /\ UNCHANGED <<config, now, planned, due, checkinMu, stop, blind>>

GraceOver ==
  /\ pc = "grace" /\ Dispatch
  /\ UNCHANGED <<config, now, planned, due, checkinMu, stop, blind>>

Cancelled ==
  /\ pc \in {"parked", "sleep", "grace"} /\ stop /\ pc' = "stopped"
  /\ UNCHANGED <<config, now, planned, due, task, checkinMu, stop, served, blind>>

\* CheckinAll: TryLock, and a check-in already running is left alone.
Begin(k) ==
  LET busy == k = Checkin /\ checkinMu # "free"
  IN  /\ task[k] = "begin"
      /\ task' = [task EXCEPT ![k] = IF busy THEN "no" ELSE "run"]
      /\ checkinMu' = IF k = Checkin /\ ~busy THEN "scheduled" ELSE checkinMu
      /\ UNCHANGED <<config, now, pc, planned, due, stop, served, blind>>

End(k) ==
  /\ task[k] = "run" /\ task' = [task EXCEPT ![k] = "no"]
  /\ checkinMu' = IF k = Checkin THEN "free" ELSE checkinMu
  /\ UNCHANGED <<config, now, pc, planned, due, stop, served, blind>>

\* wg.Wait()
BatchOver ==
  /\ pc = "batch" /\ (\A k \in Kinds : task[k] = "no") /\ pc' = "plan"
  /\ UNCHANGED <<config, now, planned, due, task, checkinMu, stop, served, blind>>

-----------------------------------------------------------------------------
(* The check-in started by hand; the end of the server; the clock *)

ManualCheckin ==
  /\ pc \notin Ended \cup {"boot"} /\ ~stop
  /\ \/ checkinMu = "free" /\ checkinMu' = "manual"
     \/ checkinMu = "manual" /\ checkinMu' = "free"
  /\ UNCHANGED <<config, now, pc, planned, due, task, stop, served, blind>>

Stop ==
  /\ pc # "boot" /\ ~stop /\ stop' = TRUE
  /\ UNCHANGED <<config, now, pc, planned, due, task, checkinMu, served, blind>>

Pass(n) ==
  /\ pc \notin Ended \cup {"boot"} /\ now + n <= MaxNow /\ now' = now + n
  /\ blind' = blind \cup {t \in now+1..now+n : pc # "sleep" \/ t > planned}
  /\ UNCHANGED <<config, pc, planned, due, task, checkinMu, stop, served>>

Tick == (pc \in {"parked", "batch"} \/ (pc = "sleep" /\ now < planned)) /\ Pass(1)
Nap == \E n \in 1..MaxNap : Pass(n)

Init ==
  /\ config \in Configs /\ now = 0 /\ pc = "boot"
  /\ planned = 0 /\ due = {} /\ task = [k \in Kinds |-> "no"]
  /\ checkinMu = "free" /\ stop = FALSE /\ served = {} /\ blind = {}

Loop == Boot \/ Plan \/ Fire \/ GraceOver \/ Cancelled \/ BatchOver
Next ==
  \/ Loop \/ Tick \/ Nap \/ Stop \/ ManualCheckin
  \/ \E k \in Kinds : Begin(k) \/ End(k)

Spec == Init /\ [][Next]_vars

-----------------------------------------------------------------------------
(* Properties *)

\* An hour of a kind that is on.
Slot(k, t) == k \in config.on /\ t % Day \in HoursOf(k)

\* An hour that comes while the loop waits for it, or for an earlier one in time, is served:
\* only those are passed over that come during a batch, or between the hour a late wake-up was
\* planned for and its batch.
MissedOnlyWhileAway ==
  pc \notin Ended \cup {"boot", "parked"} =>
    \A k \in Kinds : \A t \in 1..now :
      Slot(k, t) =>
        \/ <<k, t>> \in served \/ t \in blind
        \/ pc \in {"sleep", "grace"} /\ k \in due /\ t = planned

\* No hour is served twice, however late the loop wakes up for it and however short its batch is.
ServedOnce == [][pc' = "batch" /\ pc # "batch" => (due \X {planned}) \cap served = {}]_vars

=============================================================================
