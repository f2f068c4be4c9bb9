----------------------------- MODULE MCStandings -----------------------------
(* A stage of three teams, two of which meet twice in it and once more in     *)
(* another stage, with rows as the handlers of MatchRow leave them.           *)
EXTENDS HeadToHead

CONSTANTS ta, tb, tc, f1, f2, f3, f4, league, cup
ThreeTeams == {ta, tb, tc}
\* two of the names are equal but for their case
Names == ta :> 1 @@ tb :> 2 @@ tc :> 2
FourFixtures == {f1, f2, f3, f4}
TwoStages == {league, cup}
StageOfFixture == [f \in FourFixtures |-> IF f = f4 THEN cup ELSE league]
Hosts  == f1 :> ta @@ f2 :> tb @@ f3 :> tb @@ f4 :> ta
Guests == f1 :> tb @@ f2 :> tc @@ f3 :> ta @@ f4 :> tb
Times  == f1 :> 1 @@ f2 :> 2 @@ f3 :> 3 @@ f4 :> 2

Final(h, g) == submit_result_only(NewMatch, [home |-> h, away |-> g])
Finals == {Final(h, g) : <<h, g>> \in {s \in (0 .. 2) \X (0 .. 2) : s[1] + s[2] <= 2}}
\* walked over before kick-off, by either side or by neither, or when a side led
Walkovers == {set_walkover(m, team) : m \in {start_match(NewMatch), Final(0, 1)}, team \in Team}
Rows == Finals \cup Walkovers \cup {start_match(NewMatch)}

-----------------------------------------------------------------------------
\* "A walkover awards the opponent the win with a standard scoreline (e.g. 3-0)"
\* (services/standings.py:121): a team that has only won by walkover never has a
\* goal difference below zero.
WalkoverIsStandard ==
  \A t \in DOMAIN team_map :
    (\A x \in Appearances(Met, t) : x \in Having(Met, t, "W") /\ matches[x[1]].status = "walkover")
      => team_map[t].gf >= team_map[t].ga
=============================================================================
