------------------------------ MODULE Fixtures ------------------------------
(***************************************************************************)
(* The records around a match: fixtures (create_match with its duplicate   *)
(* detection, delete_match), their events, the lineups and statistics that *)
(* a request replaces as a whole, and the players with their numbers.      *)
(***************************************************************************)
EXTENDS Records

CONSTANT DayLength   \* hours in a day
ASSUME DaysAreLong == DayLength \in Nat \ {0}

\* The handlers, as the statements they run.
create_match   == <<"find_duplicate", "insert">>
delete_match   == <<"get", "delete", "referenced">>
submit_lineup  == <<"get", "aim", "clear", "fill">>
set_statistics == <<"get", "aim", "clear", "fill">>
record_event   == <<"get", "member", "insert">>
create_player  == <<"team", "jersey", "insert">>
update_player  == <<"get", "jersey", "update_player", "unique">>
delete_player  == <<"get", "delete", "referenced">>

-----------------------------------------------------------------------------
\* A kickoff is an instant, in hours of UTC, and the offset its text was given with.
Day(hour) == hour \div DayLength
OwnDay(kickoff) == Day(kickoff.at + kickoff.offset)

\* _find_duplicate: the fixtures of the pairing on the kickoff's own date, read as a
\* date of UTC; a group narrows the query only when one is given.
SamePairing(x, y) == x.stage = y.stage /\ x.home = y.home /\ x.away = y.away
Duplicates_from_midnight(f) ==
  {m \in Table("matches") :
     /\ SamePairing(rows[m], f)
     /\ f.group # None => rows[m].group = f.group
     /\ rows[m].kickoff.at = DayLength * OwnDay(f.kickoff)}
Duplicates(f) ==
  {m \in Table("matches") :
     /\ SamePairing(rows[m], f)
     /\ f.group # None => rows[m].group = f.group
     /\ Day(rows[m].kickoff.at) = OwnDay(f.kickoff)}

\* scalar_one_or_none raises when there is more than one.
FindDuplicate(r) ==
  /\ At(r, "find_duplicate")
  /\ LET n == Cardinality(Duplicates(req[r].row)) IN
     \/ n = 0 /\ Proceed(r)
     \/ n = 1 /\ Answer(r, 409)
     \/ n > 1 /\ Answer(r, InternalError)
  /\ UNCHANGED rows

-----------------------------------------------------------------------------
\* submit_lineup and set_statistics.  DELETE chooses its rows when it starts ...
InSheet(x, b) ==
  x.table \in {"lineup_entries", "match_statistics"} /\
  x.table = b.sheet /\ x.match = b.id /\ x.team = b.team
Sheet_of_both_teams(b) ==
  {x \in DOMAIN rows : rows[x].table = b.sheet /\ rows[x].match = b.id}
Sheet(b) == {x \in DOMAIN rows : InSheet(rows[x], b)}

Aim(r) ==
  /\ At(r, "aim")
  /\ req' = [req EXCEPT ![r].todo = Tail(@), ![r].found = Sheet(Body(r))]
  /\ UNCHANGED rows

\* ... waits for those that another transaction is deleting, and passes over the
\* ones that are gone by then; it does not look for new rows.
Clear_without_waiting(r) ==
  /\ At(r, "clear")
  /\ req' = [req EXCEPT ![r].todo = Tail(@), ![r].found = {}, ![r].gone = req[r].found]
  /\ UNCHANGED rows
Clear(r) ==
  /\ At(r, "clear")
  /\ \A x \in req[r].found : Updatable(r, x)
  /\ req' = [req EXCEPT ![r].todo = Tail(@), ![r].found = {},
                        ![r].gone = req[r].found \cap DOMAIN rows]
  /\ UNCHANGED rows

\* The i-th item of a sheet: in a lineup i is also the formation place.
Item(b, i) ==
  IF b.sheet = "lineup_entries"
  THEN [table |-> b.sheet, match |-> b.id, team |-> b.team, player |-> b.items[i]]
  ELSE [table |-> b.sheet, match |-> b.id, team |-> b.team, stat_name |-> b.items[i]]

\* A lineup is flushed player by player, statistics in one flush.
NextRows(r) ==
  LET b == Body(r)
      done == Cardinality(DOMAIN req[r].new)
      last == IF b.sheet = "lineup_entries" THEN done + 1 ELSE Len(b.items) IN
  [id \in {r} \X (done + 1 .. last) |-> Item(b, id[2])]
Full(r) == Cardinality(DOMAIN req[r].new) = Len(Body(r).items)
NextReferred(r) == UNION {Referred(NextRows(r)[id]) : id \in DOMAIN NextRows(r)}

Fill(r) ==
  /\ At(r, "fill") /\ ~Full(r)
  /\ Shareable(r, NextReferred(r))
  /\ IF \A id \in DOMAIN NextRows(r) : Resolved(NextRows(r)[id])
     THEN req' = [req EXCEPT ![r].new = Over(NextRows(r), @)]
     ELSE Answer(r, IntegrityViolation)
  /\ UNCHANGED rows

Filled(r) == At(r, "fill") /\ Full(r) /\ Proceed(r) /\ UNCHANGED rows

-----------------------------------------------------------------------------
\* record_event, where it leaves the row of the match as it is: an event that is no
\* goal, before the record is published (MatchRequests has the others).  Its team must
\* play, and its player be in the team; who else it names is left to the foreign keys.
FindMember(r) ==
  /\ At(r, "member")
  /\ LET event == Body(r).row
         plays == event.team \in {req[r].row.home, req[r].row.away}
         member == event.player \in Table("players") /\ rows[event.player].team = event.team IN
     IF plays /\ (event.player = None \/ member)
     THEN req' = [req EXCEPT ![r].todo = Tail(@), ![r].row = event]
     ELSE Answer(r, 409)
  /\ UNCHANGED rows

-----------------------------------------------------------------------------
\* create_player looks for the team.
FindTeam(r) ==
  /\ At(r, "team")
  /\ IF req[r].row.team \in Table("teams") THEN Proceed(r) ELSE Answer(r, 404)
  /\ UNCHANGED rows

\* get_by_team_and_jersey, left out for a player without a number
Wearing(team, n) ==
  {p \in Table("players") : rows[p].team = team /\ rows[p].jersey = n}
Asked(r) == IF Kind(r) = "create_player" THEN req[r].row ELSE Body(r).columns
CheckJersey(r) ==
  /\ At(r, "jersey")
  /\ LET n == IF "jersey" \in DOMAIN Asked(r) THEN Asked(r).jersey ELSE None
         own == IF Kind(r) = "create_player" THEN {} ELSE {Body(r).id} IN
     IF n # None /\ Wearing(req[r].row.team, n) \ own # {} THEN Answer(r, 409) ELSE Proceed(r)
  /\ UNCHANGED rows

UpdatePlayer(r) == At(r, "update_player") /\ Change(r, Body(r).columns)

Fixture(r) ==
  \/ FindDuplicate(r) \/ Aim(r) \/ Clear(r) \/ Fill(r) \/ Filled(r)
  \/ FindMember(r) \/ FindTeam(r) \/ CheckJersey(r) \/ UpdatePlayer(r)
=============================================================================
