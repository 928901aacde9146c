---------------------------- MODULE MCDailyTasks ----------------------------
\* Two batches, in one process or two, over a plain account and one of the global site.
EXTENDS DailyTasks, TLC

CONSTANTS x, g, ra, rb, server, tool, week, fortnight

MCTierDays == (week :> 2) @@ (fortnight :> 3)
MCTierChances == (week :> 1) @@ (fortnight :> 2)

World(joba, jobb, homeb, accounts, times, faults, until) ==
  [job |-> (ra :> joba) @@ (rb :> jobb), home |-> (ra :> server) @@ (rb :> homeb),
   accounts |-> accounts, times |-> times, faults |-> faults, until |-> until]

MCWorlds ==
  { World("activity", "travel", server, <<x>>, 2, {}, 1),
    World("activity", "travel", server, <<x>>, 1, {"fail", "lost"}, 2),
    World("activity", "none", server, <<x>>, 2, {"fail", "lost"}, 3),
    World("activity", "activity", tool, <<x>>, 1, {"drop"}, 2),
    World("activity", "none", server, <<g, x>>, 1, {"fail", "stop"}, 1),
    World("travel", "none", server, <<x, g>>, 3, {"fail", "lost", "stop"}, 2),
    World("checkin", "keepalive", server, <<x, g>>, 3, {"dead", "fail"}, 1),
    World("checkin", "checkin", server, <<x, g>>, 1, {"dead", "fail"}, 1) }

=============================================================================
