--------------------------- MODULE MCChatRotation ---------------------------
(* Instances of ChatRotation for TLC. *)
EXTENDS ChatRotation, TLC

CONSTANTS u1, u2, shared       \* two of the accounts; a session key of all clients

OneModel == [r \in Requests |-> CHOOSE m \in Models : TRUE]
\* The keys are the clients, for sessions of their own, and the shared one.
MCKeys == Requests \cup {shared}
Own == [r \in Requests |-> r]
Shared == [r \in Requests |-> shared]

Two == {u1, u2}
Where(clients, pool, key, kinds, env) ==
  [clients |-> clients, pool |-> pool, key |-> key, kinds |-> kinds, env |-> env]

\* A world explores a group of answers; together they have every one.
Failover == Where(Requests, Two, Shared, {"ok", "server", "content"}, {})
Waf == Where(Requests, UIDs, Shared, WafKinds, {})
Sessions == Where(Requests, Two, Own, {"ok", "rateLimit", "modelBlocked"}, {})
RequestErrors ==
  Where(Requests, Two, Shared, {"ok", "badParams"} \cup FinalKinds, {"expire", "unbind"})
Credits(r) == Where({r}, Two, Own, {"ok", "hardCredit", "rateReset", "notFound", "trial"}, {"tick", "cancel"})
Deaths(r) == Where({r}, Two, Own, {"ok", "sessionDead", "banned", "image"}, {"refresh"})
Unexplained(r) == Where({r}, Two, Own, {"ok", "client", "modelLimit", "prompt"}, {"transport", "cancel"})

MCWorlds == {Failover, Waf, Sessions, RequestErrors}
            \cup UNION {{Credits(r), Deaths(r), Unexplained(r)} : r \in Requests}

MCBreakerDur == [k \in 0..MaxRetry |-> Lesser(2 ^ k, 4)]
MCShl(d, k) == d * 2 ^ k
MCBlockDur == [k \in 1..MaxHits |-> Lesser(2 ^ (k - 1), 4)]

\* Clients are interchangeable, and so are the two accounts that make up the
\* smaller pool.
Symmetry == Permutations(Requests) \cup Permutations(Two)
=============================================================================
