-------------------------- MODULE MCMatchLifecycle --------------------------
(* Instances of MatchLifecycle: every endpoint, with inputs on both sides of *)
(* each of its tests.                                                        *)
EXTENDS MatchLifecycle

Plain == [kind: PlainKind]
EmptyPatch == [kind |-> "patch", status |-> None, period |-> None, minute |-> None,
               added |-> None, home |-> None, away |-> None]
Goal(side) == [kind |-> "event", type |-> "goal", team |-> side, player |-> "member"]

\* Everything an operator does through the dedicated endpoints.
ConsoleBodies ==
  Plain
    \cup [kind: {"start"}, announce: {TRUE}]
    \cup [kind: {"walkover"}, team: {"home"}]
    \cup [kind: {"minute"}, minute: {300}, period: {None}]
    \cup [kind: {"hydration"}, active: BOOLEAN]
    \cup [kind: {"add_time"}, minutes: {3}]
    \cup {Goal("home"), Goal("other"),
          [kind |-> "event", type |-> "own_goal", team |-> "away", player |-> "none"],
          [kind |-> "event", type |-> "yellow_card", team |-> "home", player |-> "member"],
          [kind |-> "event", type |-> "goal", team |-> "home", player |-> "stranger"]}

\* What is entered past the handlers' own bookkeeping.  The numbers are few, so
\* that they coincide with those the console reaches.
HandBodies ==
  [kind: {"minute"}, minute: {-5}, period: {"second_half"}]
    \cup [kind: {"result_only"}, home: {0}, away: {1}, scorers: BOOLEAN]
    \cup [kind: {"resolve"}, home: {0}, away: {1}]
    \cup {[EmptyPatch EXCEPT !.status = "full_time"],
          [EmptyPatch EXCEPT !.status = "walkover"],
          [EmptyPatch EXCEPT !.minute = -7, !.home = 1]}

AllBodies == ConsoleBodies \cup HandBodies
=============================================================================
