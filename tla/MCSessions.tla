----------------------------- MODULE MCSessions -----------------------------
(* Instances of Sessions for TLC. *)
EXTENDS Sessions, TLC

CONSTANTS k1, k2, u1, u2, r1, r2, r3

\* Three requests of one session; the pool changing under two; two sessions; bindings that
\* expire; restarts, with Redis in and out of reach.
MCWorlds ==
  { [keys |-> {k1}, requests |-> {r1, r2, r3}, events |-> {}, until |-> 0],
    [keys |-> {k1}, requests |-> {r1, r2}, events |-> {"pool", "unbind"}, until |-> 0],
    [keys |-> {k1, k2}, requests |-> {r1, r2}, events |-> {}, until |-> 0],
    [keys |-> {k1}, requests |-> {r1, r2}, events |-> {"unbind"}, until |-> 3],
    [keys |-> {k1}, requests |-> {r1}, events |-> {"restart", "unbind"}, until |-> 5],
    [keys |-> {k1}, requests |-> {r1}, events |-> {"restart", "redis"}, until |-> 5] }

Symmetry == Permutations({u1, u2})

=============================================================================
