------------------------------ MODULE MatchRow ------------------------------
(***************************************************************************)
(* One row of the table "matches" and what each endpoint of               *)
(* routers/matches.py makes of it through services/match.py.  The module   *)
(* has no state: a handler is a function from the row it loaded to the row *)
(* it wants stored, and the modules that EXTEND this one say when handlers *)
(* run.  Left out of the row: the columns no handler below reads back      *)
(* (venue, referee, round, kickoff, data_tier, operator, shoot-out score). *)
(*                                                                         *)
(* A definition named f_suffix just before a definition f is a plausible   *)
(* mistake in f.  No specification uses it: it serves to show that the     *)
(* properties fail when f is wrong (the list is in PROJECT.json).          *)
(***************************************************************************)
EXTENDS Integers, Sequences, FiniteSets

CONSTANT None          \* SQL NULL, and an optional request field left out

MatchStatus  == {"scheduled", "live", "half_time", "full_time", "extra_time",
                 "penalties", "postponed", "cancelled", "abandoned", "walkover"}
MatchPeriod  == {"not_started", "first_half", "half_time", "second_half",
                 "extra_time", "penalties", "full_time"}
RecordStatus == {"draft", "submitted", "disputed", "resolved", "published",
                 "corrected"}
EventType    == {"goal", "own_goal", "penalty_scored", "penalty_missed",
                 "yellow_card", "red_card", "substitution"}
SCORE_EVENT_TYPES == {"goal", "own_goal", "penalty_scored"}

\* A team named by a request, as far as the handlers tell teams apart: by
\* equality with the match's home_team_id and away_team_id.
Side == {"home", "away"}
Team == Side \cup {"other"}

ASSUME NoneIsNoValue ==
  /\ None \notin MatchStatus \cup MatchPeriod \cup Team
  /\ None \notin Int

Row == [status: MatchStatus, period: MatchPeriod, minute: Int, added: Int,
        home: Int, away: Int, rec: RecordStatus, disputed: BOOLEAN,
        resultOnly: BOOLEAN, liveTracked: BOOLEAN,
        forfeit: Team \cup {None}, hydration: BOOLEAN]

ASSUME NoneIsNoRow == None \notin Row

Event == [seq: Nat, type: EventType, team: Side]

\* The column defaults, which create_match leaves as they are.
NewMatch ==
  [status |-> "scheduled", period |-> "not_started", minute |-> 0, added |-> 0,
   home |-> 0, away |-> 0, rec |-> "draft", disputed |-> FALSE,
   resultOnly |-> FALSE, liveTracked |-> TRUE, forfeit |-> None,
   hydration |-> FALSE]

finished_statuses == {"full_time", "cancelled", "abandoned", "walkover", "postponed"}
Published == {"published", "corrected"}

-----------------------------------------------------------------------------
\* Request bodies.  Every field a handler branches on or stores is here.

Optional(S) == S \cup {None}
PlainKind == {"half_time", "second_half", "extra_time", "penalties", "full_time",
              "postponed", "cancelled", "abandoned", "batch", "dispute", "delete"}
Body ==
  [kind: PlainKind]
    \cup [kind: {"start"}, announce: BOOLEAN]
    \cup [kind: {"walkover"}, team: Team]
    \cup [kind: {"minute"}, minute: Int, period: Optional(MatchPeriod)]
    \cup [kind: {"hydration"}, active: BOOLEAN]
    \cup [kind: {"add_time"}, minutes: Int]
    \cup [kind: {"result_only"}, home: Int, away: Int, scorers: BOOLEAN]
    \cup [kind: {"event"}, type: EventType, team: Team,
          player: {"none", "member", "stranger"}]
    \cup [kind: {"resolve"}, home: Int, away: Int]
    \cup [kind: {"patch"}, status: Optional(MatchStatus),
          period: Optional(MatchPeriod), minute: Optional(Int),
          added: Optional(Int), home: Optional(Int), away: Optional(Int)]

-----------------------------------------------------------------------------
\* What each handler stores, given the row it loaded.

Clamp(x, lo, hi) == IF x < lo THEN lo ELSE IF x > hi THEN hi ELSE x
MaxMinute == 210
MaxAdded  == 10

SetStatus(m, s, p) == [m EXCEPT !.status = s, !.period = p]

\* _ensure_record_status(SUBMITTED), whatever the record status was
start_match(m) ==
  [SetStatus(m, "live", "first_half") EXCEPT !.minute = 1, !.rec = "submitted"]
set_half_time(m)   == SetStatus(m, "half_time", "half_time")
set_second_half_status_only(m) == [m EXCEPT !.status = "live"]
set_second_half(m) == SetStatus(m, "live", "second_half")
set_extra_time(m)  == SetStatus(m, "extra_time", "extra_time")
set_penalties(m)   == SetStatus(m, "penalties", "penalties")
set_full_time_unpublished(m) == SetStatus(m, "full_time", "full_time")
set_full_time(m) ==
  [SetStatus(m, "full_time", "full_time") EXCEPT
     !.rec = IF m.rec \in Published THEN m.rec ELSE "published"]
set_postponed(m)   == SetStatus(m, "postponed", "not_started")
set_cancelled(m)   == SetStatus(m, "cancelled", "not_started")
set_abandoned(m)   == SetStatus(m, "abandoned", "not_started")
set_walkover_no_forfeit(m, team) == SetStatus(m, "walkover", "full_time")
\* the service sets the status, the router the forfeiting team
set_walkover(m, team) ==
  [SetStatus(m, "walkover", "full_time") EXCEPT !.forfeit = team]

sync_minute(m, b) ==
  [m EXCEPT !.minute = Clamp(b.minute, 0, MaxMinute),
            !.period = IF b.period = None THEN m.period ELSE b.period]
set_hydration_break(m, active) == [m EXCEPT !.hydration = active]
add_time(m, b) == [m EXCEPT !.added = Clamp(b.minutes, 0, MaxAdded)]

submit_result_only(m, b) ==
  [SetStatus(m, "full_time", "full_time") EXCEPT
     !.home = b.home, !.away = b.away, !.resultOnly = TRUE,
     !.liveTracked = FALSE, !.rec = "published"]

Corrects_first_only(b, m) == b.kind = "event" /\ m.rec = "published"
\* The row half of record_event: the score, and a published record is reopened
\* as corrected.  The event row itself is added by the modules that EXTEND this.
Corrects(b, m) == b.kind = "event" /\ m.rec \in Published
Scores_any_team(b, side) == b.type \in SCORE_EVENT_TYPES
Scores(b, side) == b.type \in SCORE_EVENT_TYPES /\ b.team = side
record_event(m, b) ==
  [m EXCEPT !.home = IF Scores(b, "home") THEN m.home + 1 ELSE m.home,
            !.away = IF Scores(b, "away") THEN m.away + 1 ELSE m.away,
            !.rec  = IF Corrects(b, m) THEN "corrected" ELSE m.rec]

dispute_match_no_flag(m) == [m EXCEPT !.rec = "disputed"]
dispute_match(m) == [m EXCEPT !.disputed = TRUE, !.rec = "disputed"]
resolve_dispute(m, b) ==
  [m EXCEPT !.home = b.home, !.away = b.away, !.disputed = FALSE,
            !.rec = "published"]

\* PATCH /{match_id}: fields left out (None) keep their value; nothing is checked
Given(x, old) == IF x = None THEN old ELSE x
update_match_stores_null(m, b) == [m EXCEPT !.status = b.status]
update_match(m, b) ==
  [m EXCEPT !.status = Given(b.status, m.status), !.period = Given(b.period, m.period),
            !.minute = Given(b.minute, m.minute), !.added = Given(b.added, m.added),
            !.home = Given(b.home, m.home), !.away = Given(b.away, m.away)]

-----------------------------------------------------------------------------
\* When a handler does not store anything.

_set_status_refuses_second_half(b, m) ==
  b.kind = "second_half" /\ m.status \in finished_statuses
\* The guards: a ValueError, answered 409.
_set_status_refuses(b, m) ==
  b.kind \in {"start", "second_half"} /\ m.status \in finished_statuses
_validate_event_refuses_player(b) == b.kind = "event" /\ b.player = "stranger"
_validate_event_refuses(b) ==
  b.kind = "event" /\ (b.team \notin Side \/ b.player = "stranger")
Refuses(b, m) == _set_status_refuses(b, m) \/ _validate_event_refuses(b)

\* uuid.UUID() of what pydantic already made a UUID raises AttributeError: a
\* non-empty offline batch (before its match is looked up) and a result with
\* scorers (after it) are answered 500 with nothing written.
RaisesEarly(b) == b.kind = "batch" \/ (b.kind = "result_only" /\ b.scorers)
\* record_audit has no parameter "detail": add_time raises TypeError after it
\* wrote the row, and the transaction is rolled back.
RaisesLate(b) == b.kind = "add_time"

-----------------------------------------------------------------------------
\* The dispatch of routers/matches.py.

After(b, m) ==
  CASE b.kind = "start"       -> start_match(m)
    [] b.kind = "half_time"   -> set_half_time(m)
    [] b.kind = "second_half" -> set_second_half(m)
    [] b.kind = "extra_time"  -> set_extra_time(m)
    [] b.kind = "penalties"   -> set_penalties(m)
    [] b.kind = "full_time"   -> set_full_time(m)
    [] b.kind = "postponed"   -> set_postponed(m)
    [] b.kind = "cancelled"   -> set_cancelled(m)
    [] b.kind = "abandoned"   -> set_abandoned(m)
    [] b.kind = "walkover"    -> set_walkover(m, b.team)
    [] b.kind = "minute"      -> sync_minute(m, b)
    [] b.kind = "hydration"   -> set_hydration_break(m, b.active)
    [] b.kind = "add_time"    -> add_time(m, b)
    [] b.kind = "result_only" -> submit_result_only(m, b)
    [] b.kind = "event"       -> record_event(m, b)
    [] b.kind = "dispute"     -> dispute_match(m)
    [] b.kind = "resolve"     -> resolve_dispute(m, b)
    [] b.kind = "patch"       -> update_match(m, b)
    [] OTHER                  -> m          \* batch, delete

-----------------------------------------------------------------------------
\* SQLAlchemy's flush: the columns whose value differs from the loaded one are
\* written into the newest row, whatever the others hold by then.

Merged(old, new, cur) ==
  LET col(o, n, c) == IF o = n THEN c ELSE n IN
  [status      |-> col(old.status, new.status, cur.status),
   period      |-> col(old.period, new.period, cur.period),
   minute      |-> col(old.minute, new.minute, cur.minute),
   added       |-> col(old.added, new.added, cur.added),
   home        |-> col(old.home, new.home, cur.home),
   away        |-> col(old.away, new.away, cur.away),
   rec         |-> col(old.rec, new.rec, cur.rec),
   disputed    |-> col(old.disputed, new.disputed, cur.disputed),
   resultOnly  |-> col(old.resultOnly, new.resultOnly, cur.resultOnly),
   liveTracked |-> col(old.liveTracked, new.liveTracked, cur.liveTracked),
   forfeit     |-> col(old.forfeit, new.forfeit, cur.forfeit),
   hydration   |-> col(old.hydration, new.hydration, cur.hydration)]

\* A hydration break stores the time of day, which differs from any loaded one.
Stamps(b) == b.kind = "hydration" /\ b.active

\* The newest row once the handler of b, having loaded row old, is flushed.
Stored(b, old, cur) ==
  LET m == Merged(old, After(b, old), cur)
  IN  IF Stamps(b) THEN [m EXCEPT !.hydration = TRUE] ELSE m

-----------------------------------------------------------------------------
\* The audit entries a handler writes.

StatusKind == {"half_time", "second_half", "extra_time", "penalties", "full_time",
               "postponed", "cancelled", "abandoned", "walkover"}
Entry(p, action) == IF p THEN {action} ELSE {}
Audited(b, m) ==
  Entry(b.kind \in StatusKind, "status_change")
    \cup Entry(b.kind = "full_time" /\ m.rec \notin Published, "publish")
    \cup Entry(b.kind = "start" /\ b.announce, "announcement")
    \cup Entry(b.kind = "start" /\ m.rec # "submitted", "record_status")
    \cup Entry(b.kind = "hydration" /\ b.active, "hydration_break")
    \cup Entry(b.kind = "hydration" /\ ~b.active, "hydration_resume")
    \cup Entry(Corrects(b, m), "correct_event")
    \cup Entry(b.kind = "result_only", "result_only")
    \cup Entry(b.kind = "dispute", "dispute")
    \cup Entry(b.kind = "resolve", "resolve_dispute")
    \cup Entry(b.kind = "delete", "delete")

AuditAction == {"status_change", "publish", "announcement", "record_status",
                "hydration_break", "hydration_resume", "correct_event",
                "result_only", "dispute", "resolve_dispute", "delete"}

-----------------------------------------------------------------------------
\* The events of a match that count for a side: record_event adds one to that
\* side's score for each of them.
CountedFor(events, side) ==
  {i \in DOMAIN events : events[i].type \in SCORE_EVENT_TYPES /\ events[i].team = side}
Goals(events, side) == Cardinality(CountedFor(events, side))

\* What a request enters by hand, past the handlers' own bookkeeping: the clock
\* (status, period, minute) or the score.
ByHand(b) ==
  Entry(\/ b.kind = "minute" /\ b.period # None
        \/ b.kind = "patch" /\ ~(b.status = None /\ b.period = None /\ b.minute = None),
        "clock")
    \cup Entry(\/ b.kind \in {"result_only", "resolve"}
               \/ b.kind = "patch" /\ ~(b.home = None /\ b.away = None),
               "score")
=============================================================================
