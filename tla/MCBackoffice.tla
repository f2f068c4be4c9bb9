---------------------------- MODULE MCBackoffice ----------------------------
(* One competition with a season, a stage, two groups and a match, with a  *)
(* lineup and a statistic of one team; three players in two teams; an      *)
(* empty second competition; a report, an article and a favourite.  Three  *)
(* requests at most, or four that exchange numbers.                        *)
EXTENDS Backoffice, TLC

CONSTANTS c1, c2, s1, g0, g1, g2, t1, t2, t3, m0, p1, p2, p3, l1, x1, e1, e2, a1, v1, r1, r2, r3, r4

Kickoff(at, offset) == [at |-> at, offset |-> offset]
Match(group, kickoff) == [table |-> "matches", stage |-> g0, group |-> group, home |-> t1,
                          away |-> t2, kickoff |-> kickoff]
Player(team, n) == [table |-> "players", team |-> team, jersey |-> n, name |-> "A"]
Season(c, active) == [table |-> "seasons", competition |-> c, active |-> active]
Stage(s) == [table |-> "stages", season |-> s]
Group(st, name, age) == [table |-> "groups", stage |-> st, name |-> name, max_age |-> age]
Named(table, name, country) == [table |-> table, name |-> name, country |-> country]
Article(slug, title) == [table |-> "articles", slug |-> slug, title |-> title,
                         status |-> "draft", published_at |-> None]
Report(status, reviewer, at) == [table |-> "moderation_items", status |-> status,
                                 reviewer |-> reviewer, reviewed_at |-> at]
Favourite(user) == [table |-> "favorites", user |-> user]

\* s1 is a season, g0 its stage, g1 and g2 the groups of g0; t3 a team without players
Rows == c1 :> Named("competitions", "A", "B") @@ c2 :> Named("competitions", "B", "B")
  @@ s1 :> Season(c1, TRUE) @@ g0 :> Stage(s1) @@ g1 :> Group(g0, "A", 9)
  @@ g2 :> Group(g0, "B", 9)
  @@ t1 :> Named("teams", "A", "B") @@ t2 :> Named("teams", "B", "B")
  @@ t3 :> Named("teams", "C", "B")
  @@ p1 :> Player(t1, 7) @@ p2 :> Player(t1, 8) @@ p3 :> Player(t2, 7)
  @@ m0 :> Match(g1, Kickoff(30, 0))
  @@ l1 :> [table |-> "lineup_entries", match |-> m0, team |-> t1, player |-> p1]
  @@ x1 :> [table |-> "match_statistics", match |-> m0, team |-> t1, stat_name |-> "shots"]
  @@ e1 :> Report("open", None, None) @@ e2 :> Report("accepted", "first", "earlier")
  @@ a1 :> Article(<<"cup">>, "Cup") @@ v1 :> Favourite("fan")

Create(kind, row) == [kind |-> kind, row |-> row]
CreateIn(kind, c, row) == [kind |-> kind, competition |-> c, row |-> row]
Update(kind, table, id, columns) ==
  [kind |-> kind, table |-> table, id |-> id, columns |-> columns]
Drop(kind, table, id) == [kind |-> kind, table |-> table, id |-> id]
DropIn(kind, c, table, id) == [kind |-> kind, competition |-> c, table |-> table, id |-> id]
Submit(kind, sheet, m, team, items) ==
  [kind |-> kind, table |-> "matches", id |-> m, sheet |-> sheet, team |-> team, items |-> items]
Lineup(m, team, items) == Submit("submit_lineup", "lineup_entries", m, team, items)
Statistics(m, team, items) == Submit("set_statistics", "match_statistics", m, team, items)
NewMatch(group, kickoff) == Create("create_match", Match(group, kickoff))
Event(team, player, assist) ==
  [kind |-> "record_event", table |-> "matches", id |-> m0,
   row |-> [table |-> "match_events", match |-> m0, team |-> team, player |-> player,
            assist |-> assist]]
Renumber(p, n) == Update("update_player", "players", p, [jersey |-> n])
Rename(p, name) == Update("update_player", "players", p, [name |-> name])
Dismiss(p) == Drop("delete_player", "players", p)
Judge(e, status, reviewer) == [kind |-> "review_item", table |-> "moderation_items", id |-> e,
                                status |-> status, reviewer |-> reviewer]
Tables(c, s) == [kind |-> "get_standings", competition |-> c, season |-> s]

\* two kickoffs of the second day; one given at +3, late in the evening of UTC
Calendar ==
  {NewMatch(None, Kickoff(30, 0)), NewMatch(g1, Kickoff(40, 0)), NewMatch(g2, Kickoff(30, 0)),
   NewMatch(g2, Kickoff(22, 3)), NewMatch(g1, Kickoff(30, 3)), Drop("delete_match", "matches", m0)}
  \cup {Lineup(r, t3, <<p1>>) : r \in Req}
Replacements ==
  {Lineup(m0, t1, <<p1, p2>>), Lineup(m0, t1, <<p2, p1>>), Lineup(m0, t1, <<>>),
   Lineup(m0, t2, <<p2, p1>>), Statistics(m0, t1, <<"shots", "fouls">>),
   Statistics(m0, t2, <<"fouls">>)}
Sheets ==
  {Lineup(m0, t2, <<p3, p2>>), Lineup(m0, t1, <<p1>>), Lineup(m0, t1, <<>>),
   Statistics(m0, t1, <<>>), Drop("delete_match", "matches", m0), Dismiss(p1), Dismiss(p2),
   Renumber(p2, 9), Event(t1, p2, None), Event(t2, None, p1)}
Numbers ==
  {Create("create_player", Player(t1, 9)), Create("create_player", Player(t2, 9)),
   Create("create_player", Player(t1, None)), Renumber(p1, 8),
   Renumber(p1, 9), Renumber(p2, 9), Renumber(p2, 8), Rename(p1, "B"), Dismiss(p2)}
Structure ==
  {CreateIn("create_season", c1, Season(c1, TRUE)), CreateIn("create_season", c2, Season(c2, TRUE)),
   CreateIn("create_season", c1, Season(c2, TRUE)), Drop("delete_competition", "competitions", c2),
   CreateIn("create_stage", c1, Stage(s1)), CreateIn("create_stage", c2, Stage(s1)),
   DropIn("delete_season", c1, "seasons", s1), Tables(c1, None), Tables(c2, s1), Tables(g0, None),
   Update("update_competition", "competitions", c2, [name |-> "C"])}
  \cup {CreateIn("create_stage", c2, Stage(r)) : r \in Req}
Groups ==
  {CreateIn("create_group", c1, Group(g0, "D", 9)), CreateIn("create_group", c2, Group(g0, "D", 9)),
   DropIn("delete_stage", c1, "stages", g0), DropIn("delete_group", c1, "groups", g1),
   DropIn("delete_group", c2, "groups", g1), Drop("delete_match", "matches", m0),
   Drop("delete_team", "teams", t3), Create("create_player", Player(t3, 7)),
   Update("update_team", "teams", t3, [name |-> "D"]),
   Update("update_group", "groups", g1, [name |-> "C"]),
   Update("update_group", "groups", g1, [max_age |-> 8])}
Office ==
  {Judge(e1, "accepted", "first"), Judge(e1, "dismissed", "second"),
   Judge(e2, "dismissed", "second"), Create("submit_report", Report("open", None, None)),
   Create("create_competition", Named("competitions", "C", "B")),
   Create("create_team", Named("teams", "D", "B"))}
News ==
  {Create("create_article", Article(<<"cup">>, "Cup")),
   Create("create_article", Article(<<"final">>, "Final")),
   Update("update_article", "articles", a1, [status |-> "published"]),
   Update("update_article", "articles", a1, [title |-> "The Cup"]),
   Drop("delete_article", "articles", a1), Create("add_favorite", Favourite("fan")),
   [kind |-> "remove_favorite", table |-> "favorites", id |-> v1, user |-> "fan"],
   [kind |-> "remove_favorite", table |-> "favorites", id |-> v1, user |-> "other"]}

\* two players who are each to have two numbers
Exchange == {Renumber(p, n) : p \in {p1, p2}, n \in {9, 10}}

Mix(bodies, most) == [bodies |-> bodies, most |-> most]
AllMixes ==
  {Mix(bodies, 3) : bodies \in {Calendar, Replacements, Sheets, Numbers, Structure, Groups,
                                Office, News}}
  \cup {Mix(Exchange, 4)}
CalendarOnly == {Mix(Calendar, 2)}
Requests == {r1, r2, r3, r4}
TwoRequests == {r1, r2}
Alike == Permutations(Requests)
=============================================================================
