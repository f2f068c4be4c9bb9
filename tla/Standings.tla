------------------------------ MODULE Standings ------------------------------
(***************************************************************************)
(* services/standings.py: the league table of a stage.  compute_for_stage  *)
(* queries the matches of the stage at full time or walked over, adds them *)
(* to a map of teams one by one, completes the goal differences, sorts and *)
(* ranks.  The query has no ORDER BY, so the loop may meet the matches in  *)
(* any order; an action is one turn of the loop.  Team names are kept as   *)
(* numbers in the order of the names.  No caller passes a group, and the   *)
(* deduction of a StandingsRow is never set, so net_points is points.      *)
(***************************************************************************)
EXTENDS MatchRow, FiniteSetsExt, SequencesExt

CONSTANTS Teams, TeamName,              \* the teams, and how their names sort
          Fixtures, HomeTeam, AwayTeam, \* the matches of every stage and who plays
          Stages, StageOf, Stage,       \* the stages of the matches, and that of the table
          Results                       \* the rows the matches may have

ASSUME TeamsHaveNames == TeamName \in [Teams -> Int]
ASSUME FixturesHaveTeams ==
  /\ IsFiniteSet(Fixtures)
  /\ HomeTeam \in [Fixtures -> Teams] /\ AwayTeam \in [Fixtures -> Teams]
ASSUME FixturesHaveStages == StageOf \in [Fixtures -> Stages] /\ Stage \in Stages
ASSUME ResultsAreRows == Results \subseteq Row

VARIABLES
  matches,    \* the row of each fixture, as the queries see it
  todo,       \* the confirmed matches the loop has still to meet
  team_map,   \* the entries, by team
  table       \* the answer: the teams with their ranks; <<>> until it is sorted

vars == <<matches, todo, team_map, table>>

TeamOf(f, side) == IF side = "home" THEN HomeTeam[f] ELSE AwayTeam[f]
Other(side) == IF side = "home" THEN "away" ELSE "home"
ScoreOf(m, side) == IF side = "home" THEN m.home ELSE m.away

\* _get_confirmed_matches: the stage and the status alone, not the record status
Confirmed ==
  {f \in Fixtures : StageOf[f] = Stage /\ matches[f].status \in {"full_time", "walkover"}}

NewEntry == [played |-> 0, won |-> 0, drawn |-> 0, lost |-> 0, gf |-> 0, ga |-> 0,
             gd |-> 0, points |-> 0, form |-> <<>>]

Init ==
  /\ matches \in [Fixtures -> Results]
  /\ todo = Confirmed
  /\ team_map = <<>>
  /\ table = <<>>

-----------------------------------------------------------------------------
\* Without a forfeiting side the recorded score decides; a level one counts as
\* the home team's win.
WalkoverWinner(m) ==
  IF m.forfeit \in Side THEN Other(m.forfeit) ELSE IF m.home >= m.away THEN "home" ELSE "away"

Outcome(m, side) ==
  IF m.status = "walkover" THEN IF side = WalkoverWinner(m) THEN "W" ELSE "L"
  ELSE IF ScoreOf(m, side) > ScoreOf(m, Other(side)) THEN "W"
  ELSE IF ScoreOf(m, side) < ScoreOf(m, Other(side)) THEN "L" ELSE "D"

Points(o) == CASE o = "W" -> 3 [] o = "D" -> 1 [] o = "L" -> 0
One(p) == IF p THEN 1 ELSE 0

Credit_conceded_away(e, m, side) ==
  LET o == Outcome(m, side) IN
  [played |-> e.played + 1, won |-> e.won + One(o = "W"), drawn |-> e.drawn + One(o = "D"),
   lost |-> e.lost + One(o = "L"), gf |-> e.gf + ScoreOf(m, side),
   ga |-> e.ga + ScoreOf(m, "away"), gd |-> e.gd, points |-> e.points + Points(o),
   form |-> Append(e.form, o)]
\* Entry e of the team on a side of match m, with the match added.
Credit(e, m, side) ==
  LET o == Outcome(m, side) IN
  [played |-> e.played + 1, won |-> e.won + One(o = "W"), drawn |-> e.drawn + One(o = "D"),
   lost |-> e.lost + One(o = "L"), gf |-> e.gf + ScoreOf(m, side),
   ga |-> e.ga + ScoreOf(m, Other(side)), gd |-> e.gd, points |-> e.points + Points(o),
   form |-> Append(e.form, o)]

\* team_map.setdefault, and the entry of that side credited.
Credited(map, f, side) ==
  LET t == TeamOf(f, side)
      e == IF t \in DOMAIN map THEN map[t] ELSE NewEntry
  IN  [u \in DOMAIN map \cup {t} |-> IF u = t THEN Credit(e, matches[f], side) ELSE map[u]]

ApplyMatch_home_only(f) ==
  /\ f \in todo /\ matches[f].status # "walkover"
  /\ team_map' = Credited(team_map, f, "home")
  /\ todo' = todo \ {f}
  /\ UNCHANGED <<matches, table>>
ApplyMatch(f) ==
  /\ f \in todo /\ matches[f].status # "walkover"
  /\ team_map' = Credited(Credited(team_map, f, "home"), f, "away")
  /\ todo' = todo \ {f}
  /\ UNCHANGED <<matches, table>>

\* _apply_walkover: the winner's entry first
ApplyWalkover(f) ==
  LET w == WalkoverWinner(matches[f]) IN
  /\ f \in todo /\ matches[f].status = "walkover"
  /\ team_map' = Credited(Credited(team_map, f, w), f, Other(w))
  /\ todo' = todo \ {f}
  /\ UNCHANGED <<matches, table>>

\* sorted(key = (net_points, goal_difference, goals_for, name), reverse = True).  Teams
\* equal in all four, which Python leaves as it met them, may come in either order.
Above(map, t, u) ==
  LET a == map[t]  b == map[u] IN
  \/ a.points > b.points
  \/ a.points = b.points /\ a.gd > b.gd
  \/ a.points = b.points /\ a.gd = b.gd /\ a.gf > b.gf
  \/ a.points = b.points /\ a.gd = b.gd /\ a.gf = b.gf /\ TeamName[t] >= TeamName[u]

WithDifferences == [t \in DOMAIN team_map |->
                      [team_map[t] EXCEPT !.gd = team_map[t].gf - team_map[t].ga]]
Sorted(map, s) == \A i, j \in DOMAIN s : i < j => Above(map, s[i], s[j])

Rank_before_differences ==
  /\ todo = {} /\ table = <<>> /\ team_map # <<>>
  /\ team_map' = WithDifferences
  /\ \E s \in SetToSeqs(DOMAIN team_map) :
       /\ Sorted(team_map, s)
       /\ table' = [i \in DOMAIN s |-> [team |-> s[i], rank |-> i]]
  /\ UNCHANGED <<matches, todo>>
Rank_from_zero ==
  /\ todo = {} /\ table = <<>> /\ team_map # <<>>
  /\ team_map' = WithDifferences
  /\ \E s \in SetToSeqs(DOMAIN team_map) :
       /\ Sorted(WithDifferences, s)
       /\ table' = [i \in DOMAIN s |-> [team |-> s[i], rank |-> i - 1]]
  /\ UNCHANGED <<matches, todo>>
Rank ==
  /\ todo = {} /\ table = <<>> /\ team_map # <<>>
  /\ team_map' = WithDifferences
  /\ \E s \in SetToSeqs(DOMAIN team_map) :
       /\ Sorted(WithDifferences, s)
       /\ table' = [i \in DOMAIN s |-> [team |-> s[i], rank |-> i]]
  /\ UNCHANGED <<matches, todo>>

Next == (\E f \in Fixtures : ApplyMatch(f) \/ ApplyWalkover(f)) \/ Rank

Spec == Init /\ [][Next]_vars

-----------------------------------------------------------------------------
Entries == [played: Nat, won: Nat, drawn: Nat, lost: Nat, gf: Int, ga: Int, gd: Int,
            points: Nat, form: Seq({"W", "D", "L"})]
\* Every variable keeps its type; the ranks of a table are numbered from one.
TypeOK ==
  /\ matches \in [Fixtures -> Row]
  /\ todo \subseteq Fixtures
  /\ DOMAIN team_map \subseteq Teams /\ \A t \in DOMAIN team_map : team_map[t] \in Entries
  /\ \A i \in DOMAIN table : table[i].team \in Teams /\ table[i].rank = i

AddsUp(e) == /\ e.played = e.won + e.drawn + e.lost /\ e.played = Len(e.form)
             /\ e.points = 3 * e.won + e.drawn
\* What was met so far, as pairs of a match and a side; a team may be on both.
Met == (Confirmed \ todo) \X Side
Appearances(met, t) == {a \in met : TeamOf(a[1], a[2]) = t}
Having(met, t, o) == {a \in Appearances(met, t) : Outcome(matches[a[1]], a[2]) = o}
Counts(map, met) ==
  /\ DOMAIN map = {t \in Teams : Appearances(met, t) # {}}
  /\ \A t \in DOMAIN map : /\ map[t].won = Cardinality(Having(met, t, "W"))
                           /\ map[t].drawn = Cardinality(Having(met, t, "D"))
                           /\ map[t].lost = Cardinality(Having(met, t, "L"))

\* The entries count the matches met, in whatever order the query delivers them:
\* every appearance once, under its outcome, and no team without one; and each entry
\* adds up at every turn of the loop, walkovers and played matches alike.
CountsMatchResults ==
  Counts(team_map, Met) /\ \A t \in DOMAIN team_map : AddsUp(team_map[t])

Total(c) == SumFunction([t \in DOMAIN team_map |-> team_map[t][c]])
\* Across the table wins pay for losses and goals for goals, at every turn, with
\* walkovers too.
LedgerBalances == Total("won") = Total("lost") /\ Total("gf") = Total("ga")

Scored(t) == SumFunction([a \in Appearances(Met, t) |-> ScoreOf(matches[a[1]], a[2])])
Conceded(t) ==
  SumFunction([a \in Appearances(Met, t) |-> ScoreOf(matches[a[1]], Other(a[2]))])
Earned(t) == 3 * Cardinality(Having(Met, t, "W")) + Cardinality(Having(Met, t, "D"))

\* The table depends on the results alone, not on the order in which they were
\* met: no team stands above one with more points, or with as many points and a
\* better goal difference, or with both equal and more goals.
RankedByResults ==
  \A i, j \in DOMAIN table : i < j =>
    LET t == table[i].team  u == table[j].team
        gd(x) == Scored(x) - Conceded(x) IN
    /\ Earned(t) >= Earned(u)
    /\ Earned(t) = Earned(u) => gd(t) >= gd(u)
    /\ Earned(t) = Earned(u) /\ gd(t) = gd(u) => Scored(t) >= Scored(u)
=============================================================================
