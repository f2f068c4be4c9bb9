--------------------------- MODULE MatchRowProofs ---------------------------
(***************************************************************************)
(* Lemmas about the handlers of MatchRow, cited by the proofs about the    *)
(* modules that run them.                                                  *)
(***************************************************************************)
EXTENDS MatchRow, FiniteSetTheorems, TLAPS

\* The fields a body of each kind has.
LEMMA BodyFields ==
  ASSUME NEW b \in Body
  PROVE  /\ b.kind = "walkover" => b.team \in Team
         /\ b.kind = "minute" => b.minute \in Int /\ b.period \in Optional(MatchPeriod)
         /\ b.kind = "hydration" => b.active \in BOOLEAN
         /\ b.kind = "add_time" => b.minutes \in Int
         /\ b.kind \in {"result_only", "resolve"} => b.home \in Int /\ b.away \in Int
         /\ b.kind = "event" => b.type \in EventType /\ b.team \in Team
         /\ b.kind = "patch" =>
              /\ b.status \in Optional(MatchStatus) /\ b.period \in Optional(MatchPeriod)
              /\ b.minute \in Optional(Int) /\ b.added \in Optional(Int)
              /\ b.home \in Optional(Int) /\ b.away \in Optional(Int)
  BY DEF Body, PlainKind

\* A side's goals are a natural number, and an appended event adds one to the
\* goals of its side exactly when it is a scoring event.
LEMMA GoalsOfAppend ==
  ASSUME NEW es \in Seq(Event), NEW e \in Event, NEW side \in Side
  PROVE  /\ Goals(es, side) \in Nat
         /\ Goals(Append(es, e), side) =
              Goals(es, side)
                + IF e.type \in SCORE_EVENT_TYPES /\ e.team = side THEN 1 ELSE 0
<1> DEFINE n == Len(es)
           C == CountedFor(es, side)
           D == CountedFor(Append(es, e), side)
<1>1. n \in Nat /\ DOMAIN es = 1 .. n /\ DOMAIN Append(es, e) = 1 .. (n + 1)
  OBVIOUS
<1>2. IsFiniteSet(C) /\ n + 1 \notin C
  <2>1. IsFiniteSet(1 .. n)
    BY <1>1, FS_Interval
  <2>2. C \subseteq 1 .. n
    BY <1>1 DEF CountedFor
  <2> QED
    BY <2>1, <2>2, <1>1, FS_Subset
<1>3. Goals(es, side) \in Nat
  BY <1>2, FS_CardinalityType DEF Goals
<1>4. \A i \in 1 .. n : Append(es, e)[i] = es[i]
  BY <1>1
<1>5. Append(es, e)[n + 1] = e
  OBVIOUS
<1>6. CASE e.type \in SCORE_EVENT_TYPES /\ e.team = side
  <2>1. D = C \cup {n + 1}
    BY <1>1, <1>4, <1>5, <1>6 DEF CountedFor
  <2> QED
    BY <2>1, <1>2, <1>3, <1>6, FS_AddElement DEF Goals
<1>7. CASE ~(e.type \in SCORE_EVENT_TYPES /\ e.team = side)
  <2>1. D = C
    BY <1>1, <1>4, <1>5, <1>7 DEF CountedFor
  <2> QED
    BY <2>1, <1>3, <1>7 DEF Goals
<1> QED
  BY <1>6, <1>7, <1>3

LEMMA NoGoalsYet == \A side \in Side : Goals(<<>>, side) = 0
<1> TAKE side \in Side
<1>1. CountedFor(<<>>, side) = {}
  BY DEF CountedFor
<1> QED
  BY <1>1, FS_EmptySet DEF Goals

-----------------------------------------------------------------------------
\* Types.  The enumerations stay folded in the proofs about records; these are
\* their members.
LEMMA Members ==
  /\ \A s \in {"live", "half_time", "full_time", "extra_time", "penalties",
               "postponed", "cancelled", "abandoned", "walkover"} : s \in MatchStatus
  /\ \A p \in {"not_started", "first_half", "half_time", "second_half", "extra_time",
               "penalties", "full_time"} : p \in MatchPeriod
  /\ \A q \in {"submitted", "disputed", "published", "corrected"} : q \in RecordStatus
  /\ Published \subseteq RecordStatus
  BY DEF MatchStatus, MatchPeriod, RecordStatus, Published

LEMMA NewMatchType == NewMatch \in Row
  BY DEF NewMatch, Row, MatchStatus, MatchPeriod, RecordStatus

LEMMA SetStatusType ==
  ASSUME NEW m \in Row, NEW s \in MatchStatus, NEW p \in MatchPeriod
  PROVE  SetStatus(m, s, p) \in Row
  BY DEF Row, SetStatus

\* Every handler takes rows to rows.
LEMMA AfterType ==
  ASSUME NEW b \in Body, NEW m \in Row
  PROVE  After(b, m) \in Row
<1>1. start_match(m) \in Row
  <2>1. /\ "live" \in MatchStatus /\ "first_half" \in MatchPeriod /\ "submitted" \in RecordStatus
        /\ 1 \in Int
    BY Members
  <2> QED
    BY <2>1 DEF Row, start_match, SetStatus
<1>2. /\ set_half_time(m) \in Row /\ set_second_half(m) \in Row /\ set_extra_time(m) \in Row
      /\ set_penalties(m) \in Row /\ set_postponed(m) \in Row /\ set_cancelled(m) \in Row
      /\ set_abandoned(m) \in Row
  BY Members, SetStatusType DEF set_half_time, set_second_half, set_extra_time,
     set_penalties, set_postponed, set_cancelled, set_abandoned
<1>3. set_full_time(m) \in Row
  BY Members DEF Row, set_full_time, SetStatus
<1>4. ASSUME b.kind = "walkover" PROVE set_walkover(m, b.team) \in Row
  <2>1. b.team \in Team
    BY <1>4, BodyFields
  <2> QED
    BY <2>1, Members DEF Row, set_walkover, SetStatus
<1>5. ASSUME b.kind = "minute" PROVE sync_minute(m, b) \in Row
  <2>1. b.minute \in Int /\ (b.period = None \/ b.period \in MatchPeriod)
    BY <1>5, BodyFields DEF Optional
  <2>2. Clamp(b.minute, 0, MaxMinute) \in Int
    BY <2>1 DEF Clamp, MaxMinute
  <2> QED
    BY <2>1, <2>2 DEF Row, sync_minute
<1>6. ASSUME b.kind = "hydration" PROVE set_hydration_break(m, b.active) \in Row
  BY <1>6, BodyFields DEF Row, set_hydration_break
<1>7. ASSUME b.kind = "add_time" PROVE add_time(m, b) \in Row
  <2>1. Clamp(b.minutes, 0, MaxAdded) \in Int
    BY <1>7, BodyFields DEF Clamp, MaxAdded
  <2> QED
    BY <2>1 DEF Row, add_time
<1>8. ASSUME b.kind = "result_only" PROVE submit_result_only(m, b) \in Row
  <2>1. b.home \in Int /\ b.away \in Int
    BY <1>8, BodyFields
  <2> QED
    BY <2>1, Members DEF Row, submit_result_only, SetStatus
<1>9. record_event(m, b) \in Row
  <2>1. \A x \in Int : x + 1 \in Int
    OBVIOUS
  <2> QED
    BY <2>1, Members DEF Row, record_event
<1>10. dispute_match(m) \in Row
  BY Members DEF Row, dispute_match
<1>11. ASSUME b.kind = "resolve" PROVE resolve_dispute(m, b) \in Row
  <2>1. b.home \in Int /\ b.away \in Int
    BY <1>11, BodyFields
  <2> QED
    BY <2>1, Members DEF Row, resolve_dispute
<1>12. ASSUME b.kind = "patch" PROVE update_match(m, b) \in Row
  <2>1. /\ Given(b.status, m.status) \in MatchStatus
        /\ Given(b.period, m.period) \in MatchPeriod
        /\ Given(b.minute, m.minute) \in Int /\ Given(b.added, m.added) \in Int
        /\ Given(b.home, m.home) \in Int /\ Given(b.away, m.away) \in Int
    BY <1>12, BodyFields DEF Given, Optional, Row
  <2> QED
    BY <2>1 DEF Row, update_match
<1> QED
  BY <1>1, <1>2, <1>3, <1>4, <1>5, <1>6, <1>7, <1>8, <1>9, <1>10, <1>11, <1>12 DEF After

\* The audit entries and marks of a request are of their types.
LEMMA AuditedType ==
  ASSUME NEW b, NEW m
  PROVE  Audited(b, m) \subseteq AuditAction /\ ByHand(b) \subseteq {"clock", "score"}
  BY DEF Audited, AuditAction, ByHand, Entry

\* What a handler that is no score by hand makes of the score: nothing, or one
\* more for the side of a scoring event.
LEMMA ScoreAfter ==
  ASSUME NEW b \in Body, NEW m \in Row, "score" \notin ByHand(b)
  PROVE  /\ After(b, m).home = m.home
              \/ (b.kind = "event" /\ Scores(b, "home") /\ After(b, m).home = m.home + 1)
         /\ After(b, m).away = m.away
              \/ (b.kind = "event" /\ Scores(b, "away") /\ After(b, m).away = m.away + 1)
<1>1. b.kind \notin {"result_only", "resolve"}
  BY DEF ByHand, Entry
<1>2. b.kind = "patch" => b.home = None /\ b.away = None
  BY DEF ByHand, Entry
<1>3. CASE b.kind = "patch"
  BY <1>2, <1>3 DEF After, update_match, Given, Row
<1>4. CASE b.kind = "event"
  BY <1>4 DEF After, record_event, Row
<1>5. CASE b.kind \notin {"patch", "event", "result_only", "resolve"}
  BY <1>5 DEF After, Row, SetStatus, start_match, set_half_time, set_second_half,
     set_extra_time, set_penalties, set_full_time, set_postponed, set_cancelled,
     set_abandoned, set_walkover, sync_minute, set_hydration_break, add_time, dispute_match
<1> QED
  BY <1>1, <1>3, <1>4, <1>5

\* A scoring event always changes the row.
LEMMA ScoringChangesRow ==
  ASSUME NEW b \in Body, NEW m \in Row, b.kind = "event", ~Refuses(b, m),
         b.type \in SCORE_EVENT_TYPES
  PROVE  After(b, m) # m
<1>1. b.team = "home" \/ b.team = "away"
  BY DEF Refuses, _validate_event_refuses, Side
<1>2. b.team = "home" => After(b, m).home = m.home + 1
  BY DEF After, record_event, Row, Scores
<1>3. b.team = "away" => After(b, m).away = m.away + 1
  BY DEF After, record_event, Row, Scores
<1>4. m.home + 1 # m.home /\ m.away + 1 # m.away
  BY DEF Row
<1> QED
  BY <1>1, <1>2, <1>3, <1>4

\* Only a walkover, or a clock entered by hand, makes a match a walkover, and no
\* handler takes a forfeiting team away.
LEMMA ForfeitAfter ==
  ASSUME NEW b \in Body, NEW m \in Row
  PROVE  /\ After(b, m).forfeit = m.forfeit \/ After(b, m).forfeit \in Team
         /\ "clock" \notin ByHand(b) /\ After(b, m).status = "walkover" =>
              After(b, m).forfeit \in Team \/ After(b, m).status = m.status
<1>1. b.kind = "walkover" => b.team \in Team
  BY BodyFields
<1>2. b.kind = "patch" /\ "clock" \notin ByHand(b) => b.status = None
  BY DEF ByHand, Entry
<1>3. CASE b.kind = "patch"
  BY <1>2, <1>3 DEF After, update_match, Given, Row
<1>4. CASE b.kind = "walkover"
  BY <1>1, <1>4 DEF After, set_walkover, SetStatus, Row
<1>5. CASE b.kind \notin {"patch", "walkover"}
  BY <1>5 DEF After, Row, SetStatus, start_match, set_half_time, set_second_half,
     set_extra_time, set_penalties, set_full_time, set_postponed, set_cancelled,
     set_abandoned, sync_minute, set_hydration_break, add_time, dispute_match,
     submit_result_only, record_event, resolve_dispute
<1> QED
  BY <1>3, <1>4, <1>5
=============================================================================
