--------------------------- MODULE MCMatchRestart ---------------------------
(* MatchLifecycle with a history variable, for what the repository says about *)
(* matches that are over.                                                    *)
EXTENDS MCMatchLifecycle

VARIABLE finished   \* history: the match was in a finished status once

RestartInit == Init /\ finished = FALSE
RestartNext == Next /\ finished' = (finished \/ match'.status \in finished_statuses)
RestartSpec == RestartInit /\ [][RestartNext]_<<vars, finished>>

\* "Prevent restarting a completed match" (services/match.py:558): a match that
\* was finished is never live again, by the console's endpoints.
NeverRestarted == finished => match.status # "live"
=============================================================================
