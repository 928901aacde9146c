--------------------------- MODULE MCAccountPool ---------------------------
(* Instances of AccountPool for TLC: constants whose values are functions. *)
EXTENDS AccountPool

\* 30m doubled up to 6h is 1, 2, 4 with the tick at 30m and the cap at 4.
MCBreakerDur == [k \in 0..MaxRetry |-> Lesser(2 ^ k, 4)]
\* A Duration of five bits: 8 doubled is negative.
MCShl(d, k) == ((d * 2 ^ k + 16) % 32) - 16
\* 6h, 12h, 24h with the cap at 24h.
MCBlockDur == [k \in 1..MaxHits |-> Lesser(2 ^ (k - 1), 4)]

MCCallSets ==
  { \* failures, successes and probes of an account that stays or is re-added
    {"success", "error", "unexplained", "sessionDead", "alive", "revive", "sync", "restart"},
    \* cooling, disabling and the model rows, with late answers in any order
    {"success", "coolSoft", "coolHard", "coolReset", "coolBackoff", "limitModel", "blockModel",
     "unblockModel", "disable", "pick", "reenable", "revive", "manual", "sync", "restart"},
    \* balances between two check-ins
    {"cost", "balance", "reenable", "sync", "restart"} }
=============================================================================
