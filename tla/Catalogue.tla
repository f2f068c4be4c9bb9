------------------------------ MODULE Catalogue ------------------------------
(***************************************************************************)
(* What the administrators keep beside the matches: competitions with      *)
(* their seasons, stages and groups (routers/competitions.py), and the     *)
(* teams (routers/teams.py).  Seasons, stages and groups are named         *)
(* together with the competition of the URL, and the handlers climb from   *)
(* the row to its season to see that they belong there, one query a level. *)
(***************************************************************************)
EXTENDS Records

\* The handlers, as the statements they run.
create_competition == <<"insert">>
update_competition == <<"get", "update">>
delete_competition == <<"delete", "referenced">>
create_season      == <<"competition", "insert">>
delete_season      == <<"climb", "delete", "referenced">>
create_stage       == <<"climb", "insert">>
delete_stage       == <<"climb", "delete", "referenced">>
create_group       == <<"climb", "insert">>
update_group       == <<"get", "update">>
delete_group       == <<"climb", "delete", "referenced">>
create_team        == <<"insert">>
update_team        == <<"get", "update">>
delete_team        == <<"get", "delete", "referenced">>
get_standings      == <<"season", "tables">>

-----------------------------------------------------------------------------
\* create_season looks for the competition of the URL, and then compares the
\* season's own with it.
FindCompetition(r) ==
  /\ At(r, "competition")
  /\ \/ Body(r).competition \notin Table("competitions") /\ Answer(r, 404)
     \/ /\ Body(r).competition \in Table("competitions")
        /\ IF req[r].row.competition # Body(r).competition THEN Answer(r, 400) ELSE Proceed(r)
  /\ UNCHANGED rows

\* The row where a climb starts: the parent of a new row, the row to delete.
Foot(b) == CASE b.kind = "create_stage" -> [table |-> "seasons", id |-> b.row.season]
             [] b.kind = "create_group" -> [table |-> "stages", id |-> b.row.stage]
             [] OTHER -> [table |-> b.table, id |-> b.id]
Above(x) == IF x.table = "groups" THEN [table |-> "stages", id |-> x.stage]
            ELSE [table |-> "seasons", id |-> x.season]

\* One query of the climb; found holds where it has got to.
Climb_to_any_season(r) ==
  /\ At(r, "climb")
  /\ \E place \in req[r].found :
       IF place.id \notin Table(place.table) THEN Answer(r, 404)
       ELSE IF place.table = "seasons"
            THEN req' = [req EXCEPT ![r].todo = Tail(@), ![r].found = {}]
            ELSE req' = [req EXCEPT ![r].found = {Above(rows[place.id])}]
  /\ UNCHANGED rows
Climb(r) ==
  /\ At(r, "climb")
  /\ \E place \in req[r].found :
       IF place.id \notin Table(place.table) THEN Answer(r, 404)
       ELSE IF place.table = "seasons"
            THEN IF rows[place.id].competition # Body(r).competition THEN Answer(r, 404)
                 ELSE req' = [req EXCEPT ![r].todo = Tail(@), ![r].found = {}]
            ELSE req' = [req EXCEPT ![r].found = {Above(rows[place.id])}]
  /\ UNCHANGED rows

UpdateEntry(r) == At(r, "update") /\ Change(r, Body(r).columns)

-----------------------------------------------------------------------------
\* Earlier requests have left each competition one active season at most.
ASSUME SeasonsAreSingle ==
  \A x, y \in DOMAIN Rows0 :
    /\ Rows0[x].table = "seasons" /\ Rows0[y].table = "seasons"
    /\ Rows0[x].active /\ Rows0[y].active /\ Rows0[x].competition = Rows0[y].competition
    => x = y

\* get_standings without a stage_id (with one it is Standings alone): the season
\* asked for, or the active one, of which the query expects one at most.
ActiveSeasons_of_all_competitions(b) == {s \in Table("seasons") : rows[s].active}
ActiveSeasons(b) == {s \in Table("seasons") : rows[s].active /\ rows[s].competition = b.competition}

FindSeason(r) ==
  /\ At(r, "season")
  /\ LET asked == Body(r).season
         seasons == IF asked # None THEN {asked} \cap Table("seasons")
                    ELSE ActiveSeasons(Body(r)) IN
     IF Cardinality(seasons) > 1 THEN Answer(r, InternalError)
     ELSE req' = [req EXCEPT ![r].todo = Tail(@), ![r].found = seasons]
  /\ UNCHANGED rows

\* The season's stages, read with the season once more: when it is gone the handler
\* fails.  Without a season the path may have named a stage.
FindTables(r) ==
  /\ At(r, "tables")
  /\ IF req[r].found = {}
     THEN Answer(r, IF Body(r).competition \in Table("stages") THEN 200 ELSE 404)
     ELSE Answer(r, IF req[r].found \subseteq Table("seasons") THEN 200 ELSE InternalError)
  /\ UNCHANGED rows

Entry(r) == FindCompetition(r) \/ Climb(r) \/ UpdateEntry(r) \/ FindSeason(r) \/ FindTables(r)
=============================================================================
