----------------------------- MODULE Backoffice -----------------------------
(***************************************************************************)
(* The routers of the back office together, on one database: requests that *)
(* run at the same time, each a sequence of statements of Fixtures,        *)
(* Catalogue or Desk.                                                      *)
(***************************************************************************)
EXTENDS Fixtures, Catalogue, Desk

CONSTANT Mixes   \* bodies that may be asked for together, and by how many at most

Handlers ==
  [create_match |-> create_match, delete_match |-> delete_match,
   submit_lineup |-> submit_lineup, set_statistics |-> set_statistics,
   record_event |-> record_event, create_player |-> create_player, update_player |-> update_player,
   delete_player |-> delete_player,
   create_competition |-> create_competition, update_competition |-> update_competition,
   delete_competition |-> delete_competition, create_season |-> create_season,
   delete_season |-> delete_season, create_stage |-> create_stage,
   delete_stage |-> delete_stage, create_group |-> create_group,
   update_group |-> update_group, delete_group |-> delete_group,
   create_team |-> create_team, update_team |-> update_team, delete_team |-> delete_team,
   get_standings |-> get_standings,
   submit_report |-> submit_report, review_item |-> review_item,
   create_article |-> create_article, update_article |-> update_article,
   delete_article |-> delete_article,
   add_favorite |-> add_favorite, remove_favorite |-> remove_favorite]

\* The table of the path or of the new row.
Entity ==
  [create_match |-> "matches", delete_match |-> "matches", submit_lineup |-> "matches",
   set_statistics |-> "matches", record_event |-> "matches",
   create_player |-> "players", update_player |-> "players", delete_player |-> "players",
   create_competition |-> "competitions", update_competition |-> "competitions",
   delete_competition |-> "competitions", create_season |-> "seasons",
   delete_season |-> "seasons", create_stage |-> "stages", delete_stage |-> "stages",
   create_group |-> "groups", update_group |-> "groups", delete_group |-> "groups",
   create_team |-> "teams", update_team |-> "teams", delete_team |-> "teams",
   submit_report |-> "moderation_items", review_item |-> "moderation_items",
   create_article |-> "articles", update_article |-> "articles",
   delete_article |-> "articles",
   add_favorite |-> "favorites", remove_favorite |-> "favorites"]

\* What the schemas and the paths let a body hold: a new row is whole, an article's slug
\* a title, a report open; no update changes a foreign key, a slug, a kickoff or whether
\* a season is active, and update_player alone changes a number; a review decides.
Fixed ==
  {"table", "slug", "kickoff", "active"}
    \cup UNION {DOMAIN ForeignKeys[t] : t \in DOMAIN ForeignKeys}
Runs(k, statement) == \E i \in DOMAIN Handlers[k] : Handlers[k][i] = statement
Inserting == {"create_match", "record_event", "create_player", "create_competition",
              "create_season", "create_stage", "create_group", "create_team",
              "submit_report", "create_article", "add_favorite"}
Updating == {"update_player", "update_competition", "update_group", "update_team",
             "update_article"}
Deleting == {"delete_match", "delete_player", "delete_competition", "delete_season",
             "delete_stage", "delete_group", "delete_team", "delete_article"}
Filling == {"submit_lineup", "set_statistics"}
Placing == {"create_season", "delete_season", "create_stage", "delete_stage",
            "create_group", "delete_group", "get_standings"}
IsRequest(b) ==
  /\ b.kind \in DOMAIN Handlers
  /\ Runs(b.kind, "get") \/ Runs(b.kind, "delete") => b.table = Entity[b.kind]
  /\ Runs(b.kind, "insert") =>
       /\ "row" \in DOMAIN b /\ Whole(b.row)
       /\ b.row.table = IF b.kind = "record_event" THEN "match_events" ELSE Entity[b.kind]
  /\ b.kind = "create_article" => IsTitle(b.row.slug)
  /\ b.kind = "submit_report" => IsOpen(b.row)
  /\ b.kind = "review_item" => b.status # "open" /\ b.reviewer # None
  /\ "competition" \in DOMAIN b => b.kind \in Placing
  /\ Runs(b.kind, "fill") =>
       /\ b.sheet = IF b.kind = "submit_lineup" THEN "lineup_entries" ELSE "match_statistics"
       /\ Len(b.items) \in Nat
  /\ "columns" \in DOMAIN b <=> b.kind \in Updating
  /\ "columns" \in DOMAIN b => DOMAIN b.columns \cap Fixed = {}
  /\ b.kind \in Updating \ {"update_player"} => "jersey" \notin DOMAIN b.columns
ASSUME BodiesAreRequests == \A mix \in Mixes : \A b \in mix.bodies : b # None /\ IsRequest(b)

Init == rows = Rows0 /\ req = [r \in Req |-> Blank]

\* What a request's properties compare with: what was there when it arrived.
Seen(b) == CASE b.kind = "create_match" -> Table("matches")
             [] b.kind \in {"submit_lineup", "set_statistics"} -> Sheet(b)
             [] b.kind = "create_article" -> Table("articles")
             [] OTHER -> {}

Arrive(r) ==
  /\ Idle(r)
  /\ \E mix \in Mixes :
       /\ \A q \in Req : ~Idle(q) => Body(q) \in mix.bodies
       /\ Cardinality({q \in Req : ~Idle(q)}) < mix.most
       /\ \E b \in mix.bodies :
            req' = [req EXCEPT ![r] =
              [Blank EXCEPT !.body = b, !.todo = Handlers[b.kind], !.before = Seen(b),
                            !.row = IF "row" \in DOMAIN b THEN b.row ELSE None,
                            !.found = IF Head(Handlers[b.kind]) = "climb" THEN {Foot(b)} ELSE {}]]
  /\ UNCHANGED rows

Handle(r) == Statement(r) \/ Fixture(r) \/ Entry(r) \/ Errand(r)

Next == \E r \in Req : Arrive(r) \/ Handle(r) \/ Abort(r)

Spec == Init /\ [][Next]_vars

-----------------------------------------------------------------------------
\* Every variable keeps its type: what a transaction has deleted or changed is still
\* there until it ends, and what it has inserted is new.
TypeOK ==
  /\ \A x \in DOMAIN rows : rows[x].table \in DOMAIN ForeignKeys
  /\ \A r \in Req :
       /\ req[r].status \in {0, 200, 400, 404, 409, 499, 500}
       /\ req[r].gone \cup Updated(r) \subseteq DOMAIN rows
       /\ DOMAIN req[r].new \cap DOMAIN rows = {}

\* models/player.py:26 and models/news.py:39: no two players of a team wear the same
\* number and no two articles share a slug, whatever the order of the checks
\* (get_by_team_and_jersey, get_by_slug) and the writes of several requests.
KeysUnique ==
  \A x, y \in DOMAIN rows : x # y => Keys(rows[x]) \cap Keys(rows[y]) = {}

\* The foreign keys of models/: what a committed row refers to is there, although the
\* handlers test for it long before they write, and deletions run past the cascades.
NoOrphans == \A x \in DOMAIN rows : Resolved(rows[x])

\* What the next statement of r waits for: other writers of the rows it takes, ...
ToSet(r) ==
  CASE At(r, "review") -> Decision(r)
    [] At(r, "edit") -> Edits(r)
    [] At(r, "update") \/ At(r, "update_player") -> Body(r).columns
    [] OTHER -> <<>>
AwaitsChange(r) ==
  /\ Body(r).id \in DOMAIN rows
  /\ LET columns == DOMAIN Dirty(r, ToSet(r)) IN
     /\ columns # {}
     /\ ~IF columns \cap KeyColumns = {} THEN Updatable(r, Body(r).id) ELSE Removable(r, Body(r).id)
AwaitsRow(r) ==
  \/ At(r, "clear") /\ \E x \in req[r].found : ~Updatable(r, x)
  \/ At(r, "discard") /\ ~Updatable(r, Body(r).id)
  \/ At(r, "delete") /\ ~Removable(r, Body(r).id)
  \/ \E s \in {"update", "update_player", "review", "edit"} : At(r, s) /\ AwaitsChange(r)
\* ... those who delete the parents of its rows or give them another key, ...
AwaitsParent(r) ==
  \/ /\ At(r, "insert") /\ ~Taken(r, Keys(req[r].row))
     /\ ~Shareable(r, Referred(req[r].row))
  \/ At(r, "fill") /\ ~Full(r) /\ ~Shareable(r, NextReferred(r))
\* ... those who take or give up its key, ...
AwaitsKey(r) ==
  \/ At(r, "insert") /\ Contended(r, Keys(req[r].row))
  \/ At(r, "unique") /\ Contended(r, NewKeys(r))
\* ... those who are deleting all that refers to its row.
AwaitsChildren(r) ==
  /\ At(r, "referenced")
  /\ Referring(Body(r).id) # {}
  /\ Referring(Body(r).id) \subseteq UNION {req[q].gone : q \in Req \ {r}}
Awaits(r) == AwaitsRow(r) \/ AwaitsParent(r) \/ AwaitsKey(r) \/ AwaitsChildren(r)
\* database.py:33, repositories/base.py: a request never stops for another reason: whoever
\* does not wait for a lock of another can run its next statement.
WaitsAreLocks == \A r \in Req : Running(r) => (ENABLED Handle(r) <=> ~Awaits(r))

\* r waits for a row or a number that another transaction is giving up: PostgreSQL's
\* DELETE takes its row before it waits for those that refer to it, and its UPDATE
\* before it waits for the new number.
AwaitsLeaver(r) ==
  \E q \in Req \ {r} :
    \/ At(r, "referenced") /\ Referring(Body(r).id) \cap req[q].gone # {}
    \/ At(r, "unique") /\ NewKeys(r) \cap Vacated(q) # {}
\* repositories/base.py: requests wait for each other in a circle (which PostgreSQL
\* breaks with an error) only by way of such a wait; the locks on rows and on the
\* parents of new rows alone never close one.
CirclesNeedLeavers ==
  (\E r \in Req : Running(r)) =>
    \E r \in Req : Running(r) /\ (~Awaits(r) \/ AwaitsLeaver(r))

-----------------------------------------------------------------------------
\* What r has looked at: the sheet it found, the row it loaded to update it.
SeenBy(r) ==
  CASE Running(r) /\ Kind(r) \in Filling -> req[r].before
    [] Running(r) /\ Kind(r) \in Updating \cup {"review_item"} /\ ~At(r, "get") -> {req[r].row}
    [] OTHER -> {}
Store == INSTANCE RecordStore WITH
  Bodies <- UNION {mix.bodies : mix \in Mixes},
  asked <- [r \in Req |-> Body(r)], seen <- [r \in Req |-> SeenBy(r)],
  answer <- [r \in Req |-> req[r].status]
\* database.py:33, repositories/base.py: the statements of a request, its locks and its
\* transaction amount to one whole, atomic effect on its own rows, of just what it was
\* asked to create, change, delete or replace, or to none at all.
ImplementsStore == Store!Spec

Accepted(r) == Running(r) /\ req'[r].status = 200

\* Whatever was in the sheet of r is gone, all that r submits is there, and no other
\* row is gone.
IsReplaced(r) ==
  /\ req[r].before \cap DOMAIN rows' = {}
  /\ {i \in 1 .. Len(Body(r).items) : <<r, i>> \in DOMAIN rows'} = 1 .. Len(Body(r).items)
  /\ \A x \in DOMAIN rows : InSheet(rows[x], Body(r)) \/ x \in DOMAIN rows'
\* services/match.py:302 and 418: a submission that succeeds leaves none of the rows of
\* its sheet that were committed when it arrived, leaves all of its own, and touches
\* no other sheet, whatever the other requests did in the meantime.
SheetReplaced ==
  [][\A r \in Req :
       Accepted(r) /\ Kind(r) \in {"submit_lineup", "set_statistics"} => IsReplaced(r)]_vars

\* A fixture like the one r inserts, and committed before r arrived.
KnownLike(r, m) ==
  /\ m \in req[r].before \cap DOMAIN rows
  /\ SamePairing(rows[m], req[r].row) /\ rows[m].group = req[r].row.group

\* None such is on the day of r's, if its own date is its UTC date.
IsFirstOfItsDay(r) ==
  LET day == Day(req[r].row.kickoff.at) IN
  OwnDay(req[r].row.kickoff) = day =>
    ~\E m \in DOMAIN rows : KnownLike(r, m) /\ Day(rows[m].kickoff.at) = day
\* services/match.py:59: once a fixture is committed, create_match accepts no other of
\* that pairing and group on its day, provided the kickoff's own date is its UTC date.
DuplicateSeen ==
  [][\A r \in Req : Accepted(r) /\ Kind(r) = "create_match" => IsFirstOfItsDay(r)]_vars

\* services/match.py:59 and errors.py:113, as they are written: no fixture is accepted
\* when one of that pairing and group was already there at that very time.
DuplicateRefused ==
  [][\A r \in Req : Accepted(r) /\ Kind(r) = "create_match" =>
       ~\E m \in DOMAIN rows :
          KnownLike(r, m) /\ rows[m].kickoff.at = req[r].row.kickoff.at]_vars

\* The row that r updates stays away if it is gone, and keeps its other columns.
KeepsTheRest(r) ==
  LET id == Body(r).id IN
  IF id \notin DOMAIN rows THEN id \notin DOMAIN rows'
  ELSE \A c \in DOMAIN rows[id] \ (DOMAIN Body(r).columns \cup {"published_at"}) :
         rows'[id][c] = rows[id][c]
\* repositories/base.py:34: an accepted update brings no row back that was deleted since
\* it was loaded, and in a row that is there it changes no column but those it was asked
\* to change and the time of publication, even if others have changed the rest.
UpdatesKeepTheRest ==
  [][\A r \in Req : Accepted(r) /\ "columns" \in DOMAIN Body(r) => KeepsTheRest(r)]_vars

\* The report bears the decision of r alone.
IsDecidedBy(r) ==
  LET item == rows'[Body(r).id] IN
  <<item.status, item.reviewer, item.reviewed_at>> = <<Body(r).status, Body(r).reviewer, r>>
\* routers/moderation.py:48: several moderators who open a report at once never leave
\* the decision of one under the name of another, as long as nobody reviews it again.
FirstReviewWhole ==
  [][\A r \in Req : Accepted(r) /\ Kind(r) = "review_item" /\ req[r].row.status = "open" =>
       IsDecidedBy(r)]_vars

\* routers/news.py:68: a title is refused only when another article took its slug after
\* the request had arrived.
RefusedByRivalOnly ==
  [][\A r \in Req :
       Running(r) /\ Kind(r) = "create_article" /\ req'[r].status = IntegrityViolation =>
         Titled(Body(r).row.slug) \ req[r].before # {}]_vars

\* The competition to which a season, a stage or a group belongs.
CompetitionOf(x) ==
  LET season == IF x.table = "groups" THEN rows[rows[x.stage].season]
                ELSE IF x.table = "stages" THEN rows[x.season] ELSE x
  IN  season.competition
\* routers/competitions.py:132: whatever season, stage or group a request creates or
\* deletes belongs to the competition of its URL when that takes effect, although the
\* rows between them are read long before.
InItsCompetition ==
  [][\A r \in Req : Accepted(r) /\ "competition" \in DOMAIN Body(r) =>
       \A x \in {req[r].new[id] : id \in DOMAIN req[r].new} \cup {rows[id] : id \in req[r].gone} :
         CompetitionOf(x) = Body(r).competition]_vars

\* An accepted request has started a season of b's competition, or ended one there or
\* the one that b asks for.
Unsettled(b) ==
  \E q \in Req :
    /\ req[q].status = 200
    /\ \/ /\ Kind(q) = "create_season" /\ Body(q).row.active
          /\ Body(q).competition = b.competition
       \/ /\ Kind(q) = "delete_season"
          /\ Body(q).competition = b.competition \/ Body(q).id = b.season
\* routers/competitions.py:93: the standings of a competition fail only when somebody has
\* started a second active season of it, or deleted one.
TablesFailOnlyUnsettled ==
  [][\A r \in Req :
       Running(r) /\ Kind(r) = "get_standings" /\ req'[r].status = InternalError =>
         Unsettled(Body(r))]_vars
=============================================================================
