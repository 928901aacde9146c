------------------------- MODULE MCPoolPersistence -------------------------
(* Instances of PoolPersistence for TLC. *)
EXTENDS PoolPersistence

MCFaultSets ==
  {{}, {"crash"}, {"crash", "disk"}, {"crash", "redis"}, {"crash", "volume"},
   {"crash", "torn", "volume"}}

=============================================================================
