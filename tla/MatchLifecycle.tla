--------------------------- MODULE MatchLifecycle ---------------------------
(***************************************************************************)
(* One match and the requests of its operators, served one at a time: each *)
(* request is a whole transaction of database.get_db, so a step is a whole *)
(* handler.  MatchRequests takes the same handlers apart and interleaves   *)
(* them; with one connection in the pool it implements this module.        *)
(***************************************************************************)
EXTENDS MatchRow

CONSTANTS Bodies,      \* the requests the operators may send
          MaxEvents    \* bound on the recorded events

ASSUME BodiesAreBodies == Bodies \subseteq Body
ASSUME MaxEventsInNat  == MaxEvents \in Nat

VARIABLES
  match,      \* the row
  present,    \* the row exists
  events,     \* the match_events rows, in the order they were committed
  recorded,   \* the audit entries the last stored request appended
  byHand      \* history: which of "clock", "score" was ever entered by hand

vars == <<match, present, events, recorded, byHand>>

Init ==
  /\ match = NewMatch
  /\ present = TRUE
  /\ events = <<>>
  /\ recorded = {}
  /\ byHand = {}

\* The transaction of request b stores row m.
Store(b, m) ==
  /\ present /\ ~Refuses(b, match) /\ ~RaisesEarly(b) /\ ~RaisesLate(b)
  /\ match' = m
  /\ recorded' = Audited(b, match)
  /\ byHand' = byHand \cup ByHand(b)
  /\ UNCHANGED present

StartMatch(b)   == b.kind = "start" /\ Store(b, start_match(match)) /\ UNCHANGED events
HalfTime(b)     == b.kind = "half_time" /\ Store(b, set_half_time(match)) /\ UNCHANGED events
SecondHalf(b)   == b.kind = "second_half" /\ Store(b, set_second_half(match)) /\ UNCHANGED events
ExtraTime(b)    == b.kind = "extra_time" /\ Store(b, set_extra_time(match)) /\ UNCHANGED events
Penalties(b)    == b.kind = "penalties" /\ Store(b, set_penalties(match)) /\ UNCHANGED events
FullTime(b)     == b.kind = "full_time" /\ Store(b, set_full_time(match)) /\ UNCHANGED events
Postponed(b)    == b.kind = "postponed" /\ Store(b, set_postponed(match)) /\ UNCHANGED events
Cancelled(b)    == b.kind = "cancelled" /\ Store(b, set_cancelled(match)) /\ UNCHANGED events
Abandoned(b)    == b.kind = "abandoned" /\ Store(b, set_abandoned(match)) /\ UNCHANGED events
Walkover(b)     == b.kind = "walkover" /\ Store(b, set_walkover(match, b.team)) /\ UNCHANGED events
SyncMinute(b)   == b.kind = "minute" /\ Store(b, sync_minute(match, b)) /\ UNCHANGED events
HydrationBreak(b) ==
  b.kind = "hydration" /\ Store(b, set_hydration_break(match, b.active)) /\ UNCHANGED events
ResultOnly(b)   == b.kind = "result_only" /\ Store(b, submit_result_only(match, b)) /\ UNCHANGED events
DisputeMatch(b) == b.kind = "dispute" /\ Store(b, dispute_match(match)) /\ UNCHANGED events
ResolveDispute(b) == b.kind = "resolve" /\ Store(b, resolve_dispute(match, b)) /\ UNCHANGED events
UpdateMatch(b)  == b.kind = "patch" /\ Store(b, update_match(match, b)) /\ UNCHANGED events

_next_event_sequence == Len(events) + 1
AddMatchEvent(b) ==
  /\ b.kind = "event" /\ Len(events) < MaxEvents
  /\ Store(b, record_event(match, b))
  /\ events' = Append(events, [seq |-> _next_event_sequence, type |-> b.type, team |-> b.team])

\* A bulk DELETE: the foreign key of match_events refuses it while events exist.
DeleteMatch(b) ==
  /\ b.kind = "delete" /\ present /\ events = <<>>
  /\ present' = FALSE
  /\ recorded' = Audited(b, match)
  /\ UNCHANGED <<match, events, byHand>>

\* Answered 404, 409 or 500 and rolled back.
Refused(b) ==
  /\ \/ ~present
     \/ Refuses(b, match) \/ RaisesEarly(b) \/ RaisesLate(b)
     \/ b.kind = "delete" /\ events # <<>>
  /\ UNCHANGED vars

Next ==
  \E b \in Bodies :
    \/ StartMatch(b) \/ HalfTime(b) \/ SecondHalf(b) \/ ExtraTime(b) \/ Penalties(b)
    \/ FullTime(b) \/ Postponed(b) \/ Cancelled(b) \/ Abandoned(b) \/ Walkover(b)
    \/ SyncMinute(b) \/ HydrationBreak(b) \/ ResultOnly(b) \/ DisputeMatch(b)
    \/ ResolveDispute(b) \/ UpdateMatch(b) \/ AddMatchEvent(b) \/ DeleteMatch(b)
    \/ Refused(b)

Spec == Init /\ [][Next]_vars

-----------------------------------------------------------------------------
\* Every variable keeps its type (the columns of models/match.py).
TypeOK ==
  /\ match \in Row
  /\ present \in BOOLEAN
  /\ events \in Seq(Event)
  /\ recorded \in SUBSET AuditAction
  /\ byHand \in SUBSET {"clock", "score"}

StatusFitsPeriod(m) ==
  \/ m.status = "live" /\ m.period \in {"first_half", "second_half"}
  \/ m.status \in {"full_time", "walkover"} /\ m.period = "full_time"
  \/ m.status \in {"half_time", "extra_time", "penalties"} /\ m.period = m.status
  \/ /\ m.status \in {"scheduled", "postponed", "cancelled", "abandoned"}
     /\ m.period = "not_started"

\* Until somebody enters the clock by hand, the status and the period agree:
\* no chain of the lifecycle endpoints leaves, say, a cancelled match in its
\* second half, and the minute stays what sync_minute clamps it to.
ClockConsistent ==
  "clock" \notin byHand => /\ StatusFitsPeriod(match)
                           /\ match.minute \in 0 .. MaxMinute

\* A match at full time counts in the standings, so its record is never still a
\* draft or merely submitted, unless PATCH wrote the status.
CountedIsPublished ==
  match.status = "full_time" /\ "clock" \notin byHand
    => match.rec \in {"published", "corrected", "disputed"}

\* Events, disputes, resolutions and full time interleave on record_status;
\* a record in status DISPUTED always carries the flag is_disputed.
DisputeFlagged == match.rec = "disputed" => match.disputed

\* A walkover names the team that forfeits, which the standings need to find
\* the winner, however the match got there (PATCH aside).
WalkoverHasForfeiter ==
  match.status = "walkover" /\ "clock" \notin byHand => match.forfeit # None

\* The score record_event keeps incrementally is the number of scoring events
\* of each side, until a score is entered by hand.
GoalsCounted ==
  "score" \notin byHand => /\ match.home = Goals(events, "home")
                           /\ match.away = Goals(events, "away")

\* An event added to a published record is always audited as a correction.
CorrectionAudited ==
  [][ Len(events') > Len(events) /\ match.rec \in Published
        => "correct_event" \in recorded' ]_vars

\* A published record is withdrawn only by a dispute, or by starting a match
\* that has left the finished statuses: no event, correction, walkover, PATCH or
\* result takes a result out of PUBLISHED and CORRECTED.
WithdrawnOnlyByDisputeOrStart ==
  [][ match.rec \in Published /\ match'.rec \notin Published
        => \/ match'.rec = "disputed"
           \/ match.status \notin finished_statuses ]_vars
=============================================================================
