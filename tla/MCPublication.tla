---------------------------- MODULE MCPublication ----------------------------
(* Model values for Publication: a daily run and its rerun, a pass of the   *)
(* match-day loop and an agent run; and an agent run of the day before with *)
(* the fallback of the day's failed one.                                    *)
EXTENDS Publication, TLC

CONSTANTS daily, rerun, live, agent, fallback, dailyRun, liveRun, agentRun, fallbackRun

MCSymmetry == Permutations({daily, rerun})

MCKind == [j \in Jobs |->
    CASE j \in {daily, rerun} -> "daily" [] j = live -> "live" [] j = agent -> "agent"
      [] j = fallback -> "fallback"]
MCRunOf == [j \in Jobs |->
    CASE j \in {daily, rerun} -> dailyRun [] j = live -> liveRun [] j = agent -> agentRun
      [] j = fallback -> fallbackRun]

=============================================================================
