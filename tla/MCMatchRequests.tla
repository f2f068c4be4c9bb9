--------------------------- MODULE MCMatchRequests --------------------------
(* Instances of MatchRequests: few requests, each able to overlap the others. *)
EXTENDS MatchRequests, TLC

CONSTANTS r1, r2, r3
Symmetry == Permutations(Req)

EmptyPatch == [kind |-> "patch", status |-> None, period |-> None, minute |-> None,
               added |-> None, home |-> None, away |-> None]
Card == [kind |-> "event", type |-> "yellow_card", team |-> "home", player |-> "none"]
Goal(side) == [kind |-> "event", type |-> "goal", team |-> side, player |-> "member"]
Kick == [kind |-> "start", announce |-> FALSE]

\* Rows as the lifecycle endpoints leave them, before any event.
Live == start_match(NewMatch)
Kicked == {NewMatch, Live, set_full_time(Live)}

\* Goals, cards, deletion and writers of every column race with each other.
RaceBodies == {Goal("home"), Goal("away"), Goal("other"), Card, Kick,
               [EmptyPatch EXCEPT !.home = 2],
               [kind |-> "hydration", active |-> TRUE],
               [kind |-> "add_time", minutes |-> 3],
               [kind |-> "walkover", team |-> "home"],
               [kind |-> "resolve", home |-> 0, away |-> 1]}
                \cup [kind: {"half_time", "full_time", "dispute", "batch", "delete"}]
\* One of each way a handler may wait: for a connection, for the row lock, for
\* sharers of the row, for a deletion.
WaitBodies == {Goal("home"), Card, Kick, [kind |-> "add_time", minutes |-> 3],
               [kind |-> "delete"]}
\* The newly created match, for the comparison with MatchLifecycle.
Fresh == {NewMatch}

-----------------------------------------------------------------------------
(* What the repository's texts say of the program, each refuted by a run.    *)

GoalBodies == {Goal("home")}
GoalAndWhistle == {Goal("home"), [kind |-> "full_time"]}
LiveOnly == {Live}

\* A recorded goal raises the score of its side by one (the assertion of
\* tests/test_match_service.py:69 after record_event).
GoalRaisesScore ==
  [][ Goals(events', "home") > Goals(events, "home") => match'.home = match.home + 1 ]_vars

\* An event that reaches a record already published is audited, "never silently
\* overwritten" (services/match.py:355).
PostPublishAudited ==
  [][ Len(events') > Len(events) /\ match.rec \in Published
        => "correct_event" \in recorded' ]_vars
=============================================================================
