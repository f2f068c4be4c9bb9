------------------------ MODULE MatchLifecycleProofs ------------------------
(***************************************************************************)
(* Proofs about MatchLifecycle, for every set of request bodies and every  *)
(* bound on the events.                                                    *)
(***************************************************************************)
EXTENDS MatchLifecycle, MatchRowProofs

-----------------------------------------------------------------------------
\* The inductive invariant: type correctness and the safety invariants hold
\* together.  They support each other: full time publishes whatever the record
\* status was, and only disputes (which raise the flag) lead out of PUBLISHED
\* and CORRECTED without leaving the status full_time.
IInv == /\ TypeOK /\ ClockConsistent /\ CountedIsPublished /\ DisputeFlagged
        /\ WalkoverHasForfeiter /\ GoalsCounted

LEMMA InitIInv == Init => IInv
<1> SUFFICES ASSUME Init PROVE IInv
  OBVIOUS
<1>1. NewMatch \in Row
  BY DEF NewMatch, Row, MatchStatus, MatchPeriod, RecordStatus
<1>2. TypeOK
  BY <1>1 DEF Init, TypeOK
<1>3. /\ ClockConsistent /\ CountedIsPublished /\ DisputeFlagged
      /\ WalkoverHasForfeiter
  BY DEF Init, NewMatch, ClockConsistent, CountedIsPublished, DisputeFlagged,
         WalkoverHasForfeiter, StatusFitsPeriod, MaxMinute
<1>4. GoalsCounted
  BY NoGoalsYet DEF Init, NewMatch, GoalsCounted, Side
<1> QED
  BY <1>2, <1>3, <1>4 DEF IInv

\* What a request that stores row m in place of the current one, and touches no
\* event, has to show of m beyond its type.
RowOK(b, m) ==
  /\ "clock" \notin byHand \cup ByHand(b) =>
       /\ StatusFitsPeriod(m) /\ m.minute \in 0 .. MaxMinute
       /\ m.status = "full_time" => m.rec \in {"published", "corrected", "disputed"}
       /\ m.status = "walkover" => m.forfeit # None
  /\ m.rec = "disputed" => m.disputed
  /\ "score" \notin byHand \cup ByHand(b) =>
       m.home = match.home /\ m.away = match.away

LEMMA StoredRow ==
  ASSUME IInv, NEW b \in Bodies, Store(b, After(b, match)), UNCHANGED events,
         RowOK(b, After(b, match))
  PROVE  IInv'
<1>1. TypeOK'
  <2>1. After(b, match) \in Row
    BY AfterType, BodiesAreBodies DEF IInv, TypeOK
  <2> QED
    BY <2>1, AuditedType DEF Store, IInv, TypeOK
<1>2. /\ ClockConsistent' /\ CountedIsPublished' /\ DisputeFlagged'
      /\ WalkoverHasForfeiter'
  BY DEF Store, RowOK, ClockConsistent, CountedIsPublished, DisputeFlagged,
         WalkoverHasForfeiter, StatusFitsPeriod
<1>3. GoalsCounted'
  BY DEF Store, RowOK, IInv, GoalsCounted
<1> QED
  BY <1>1, <1>2, <1>3 DEF IInv

-----------------------------------------------------------------------------
\* A handler that writes no score by hand and leaves the minute and the record
\* status in order preserves the invariant.

LEMMA ClockActions ==
  ASSUME IInv, NEW b \in Bodies,
         \/ StartMatch(b) \/ HalfTime(b) \/ SecondHalf(b) \/ ExtraTime(b)
         \/ Penalties(b) \/ FullTime(b) \/ Postponed(b) \/ Cancelled(b)
         \/ Abandoned(b)
  PROVE  IInv'
<1> DEFINE n == After(b, match)
<1>1. Store(b, n) /\ UNCHANGED events
  BY DEF StartMatch, HalfTime, SecondHalf, ExtraTime, Penalties, FullTime, Postponed,
         Cancelled, Abandoned, After
<1>2. RowOK(b, n)
  <2>1. n.home = match.home /\ n.away = match.away /\ n.disputed = match.disputed
    BY DEF StartMatch, HalfTime, SecondHalf, ExtraTime, Penalties, FullTime, Postponed,
         Cancelled, Abandoned, After, IInv, TypeOK, Row, SetStatus,
         start_match, set_half_time, set_second_half, set_extra_time, set_penalties,
         set_full_time, set_postponed, set_cancelled, set_abandoned
  <2>2. StatusFitsPeriod(n) /\ n.status # "walkover"
    BY DEF StartMatch, HalfTime, SecondHalf, ExtraTime, Penalties, FullTime, Postponed,
         Cancelled, Abandoned, After, IInv, TypeOK, Row, SetStatus, StatusFitsPeriod,
         start_match, set_half_time, set_second_half, set_extra_time, set_penalties,
         set_full_time, set_postponed, set_cancelled, set_abandoned
  <2>3. n.minute = match.minute \/ n.minute = 1
    BY DEF StartMatch, HalfTime, SecondHalf, ExtraTime, Penalties, FullTime, Postponed,
         Cancelled, Abandoned, After, IInv, TypeOK, Row, SetStatus,
         start_match, set_half_time, set_second_half, set_extra_time, set_penalties,
         set_full_time, set_postponed, set_cancelled, set_abandoned
  <2>4. /\ n.status = "full_time" => n.rec \in {"published", "corrected"}
        /\ n.rec = "disputed" => n.rec = match.rec
    BY DEF StartMatch, HalfTime, SecondHalf, ExtraTime, Penalties, FullTime, Postponed,
         Cancelled, Abandoned, After, IInv, TypeOK, Row, SetStatus, Published,
         start_match, set_half_time, set_second_half, set_extra_time, set_penalties,
         set_full_time, set_postponed, set_cancelled, set_abandoned
  <2> QED
    BY <2>1, <2>2, <2>3, <2>4 DEF RowOK, IInv, ClockConsistent, DisputeFlagged, MaxMinute
<1> QED
  BY <1>1, <1>2, StoredRow

LEMMA WalkoverAction ==
  ASSUME IInv, NEW b \in Bodies, Walkover(b)
  PROVE  IInv'
<1> DEFINE n == After(b, match)
<1>1. b.kind = "walkover" /\ b.team # None
  BY BodyFields, BodiesAreBodies, NoneIsNoValue DEF Walkover
<1>2. Store(b, n) /\ UNCHANGED events
  BY DEF Walkover, After
<1>3. /\ n.status = "walkover" /\ n.period = "full_time" /\ n.forfeit = b.team
      /\ n.minute = match.minute /\ n.rec = match.rec /\ n.disputed = match.disputed
      /\ n.home = match.home /\ n.away = match.away
  BY <1>1 DEF After, set_walkover, SetStatus, IInv, TypeOK, Row
<1>4. RowOK(b, n)
  BY <1>1, <1>3 DEF RowOK, StatusFitsPeriod, IInv, ClockConsistent, DisputeFlagged
<1> QED
  BY <1>2, <1>4, StoredRow

LEMMA MinuteAction ==
  ASSUME IInv, NEW b \in Bodies, SyncMinute(b)
  PROVE  IInv'
<1> DEFINE n == After(b, match)
<1>1. b.kind = "minute" /\ b.minute \in Int
  BY BodyFields, BodiesAreBodies DEF SyncMinute
<1>2. Store(b, n) /\ UNCHANGED events
  BY DEF SyncMinute, After
<1>3. Clamp(b.minute, 0, MaxMinute) \in 0 .. MaxMinute
  BY <1>1 DEF Clamp, MaxMinute
<1>4. /\ n.status = match.status /\ n.rec = match.rec /\ n.disputed = match.disputed
      /\ n.home = match.home /\ n.away = match.away /\ n.forfeit = match.forfeit
      /\ n.minute = Clamp(b.minute, 0, MaxMinute)
      /\ b.period = None => n.period = match.period
  BY <1>1 DEF After, sync_minute, IInv, TypeOK, Row
<1>5. b.period # None => "clock" \in ByHand(b)
  BY <1>1 DEF ByHand, Entry
<1>6. RowOK(b, n)
  BY <1>3, <1>4, <1>5 DEF RowOK, StatusFitsPeriod, IInv, ClockConsistent, DisputeFlagged,
     CountedIsPublished, WalkoverHasForfeiter
<1> QED
  BY <1>2, <1>6, StoredRow

LEMMA FlagActions ==
  ASSUME IInv, NEW b \in Bodies, HydrationBreak(b) \/ DisputeMatch(b)
  PROVE  IInv'
<1> DEFINE n == After(b, match)
<1>1. Store(b, n) /\ UNCHANGED events
  BY DEF HydrationBreak, DisputeMatch, After
<1>2. /\ n.status = match.status /\ n.period = match.period /\ n.minute = match.minute
      /\ n.home = match.home /\ n.away = match.away /\ n.forfeit = match.forfeit
      /\ \/ n.rec = match.rec /\ n.disputed = match.disputed
         \/ n.rec = "disputed" /\ n.disputed = TRUE
  BY DEF HydrationBreak, DisputeMatch, After, set_hydration_break, dispute_match,
     IInv, TypeOK, Row
<1>3. RowOK(b, n)
  BY <1>2 DEF RowOK, StatusFitsPeriod, IInv, ClockConsistent, DisputeFlagged,
     CountedIsPublished, WalkoverHasForfeiter
<1> QED
  BY <1>1, <1>3, StoredRow

LEMMA ResultActions ==
  ASSUME IInv, NEW b \in Bodies, ResultOnly(b) \/ ResolveDispute(b)
  PROVE  IInv'
<1> DEFINE n == After(b, match)
<1>1. Store(b, n) /\ UNCHANGED events
  BY DEF ResultOnly, ResolveDispute, After
<1>2. /\ \/ n.status = match.status /\ n.period = match.period
         \/ n.status = "full_time" /\ n.period = "full_time"
      /\ n.minute = match.minute /\ n.forfeit = match.forfeit /\ n.rec = "published"
  BY DEF ResultOnly, ResolveDispute, After, submit_result_only, resolve_dispute, SetStatus,
     IInv, TypeOK, Row
<1>3. "score" \in ByHand(b)
  BY DEF ResultOnly, ResolveDispute, ByHand, Entry
<1>4. RowOK(b, n)
  BY <1>2, <1>3 DEF RowOK, StatusFitsPeriod, IInv, ClockConsistent, DisputeFlagged,
     CountedIsPublished, WalkoverHasForfeiter
<1> QED
  BY <1>1, <1>4, StoredRow

LEMMA PatchAction ==
  ASSUME IInv, NEW b \in Bodies, UpdateMatch(b)
  PROVE  IInv'
<1> DEFINE n == After(b, match)
<1>1. Store(b, n) /\ UNCHANGED events /\ b.kind = "patch"
  BY DEF UpdateMatch, After
<1>2. /\ n.rec = match.rec /\ n.disputed = match.disputed /\ n.forfeit = match.forfeit
      /\ n.status = Given(b.status, match.status) /\ n.period = Given(b.period, match.period)
      /\ n.minute = Given(b.minute, match.minute)
      /\ n.home = Given(b.home, match.home) /\ n.away = Given(b.away, match.away)
  BY <1>1 DEF After, update_match, IInv, TypeOK, Row
<1>3. "clock" \in ByHand(b) \/ (b.status = None /\ b.period = None /\ b.minute = None)
  BY <1>1 DEF ByHand, Entry
<1>4. "score" \in ByHand(b) \/ (b.home = None /\ b.away = None)
  BY <1>1 DEF ByHand, Entry
<1>5. RowOK(b, n)
  BY <1>2, <1>3, <1>4 DEF RowOK, Given, StatusFitsPeriod, IInv, ClockConsistent,
     DisputeFlagged, CountedIsPublished, WalkoverHasForfeiter
<1> QED
  BY <1>1, <1>5, StoredRow

\* An event moves the score and the list of events together.
LEMMA EventAction ==
  ASSUME IInv, NEW b \in Bodies, AddMatchEvent(b)
  PROVE  IInv'
<1> DEFINE n == record_event(match, b)
           e == [seq |-> _next_event_sequence, type |-> b.type, team |-> b.team]
<1>1. b.kind = "event" /\ b.type \in EventType /\ b.team \in Side
  <2>1. b.kind = "event" /\ ~Refuses(b, match)
    BY DEF AddMatchEvent, Store
  <2> QED
    BY <2>1, BodyFields, BodiesAreBodies DEF Refuses, _validate_event_refuses
<1>2. events \in Seq(Event) /\ match \in Row
  BY DEF IInv, TypeOK
<1>3. e \in Event
  BY <1>1, <1>2 DEF Event, _next_event_sequence
<1>4. match' = n /\ events' = Append(events, e)
  BY DEF AddMatchEvent, Store
<1>5. TypeOK'
  <2>1. After(b, match) = n
    BY <1>1 DEF After
  <2>2. b \in Body
    BY BodiesAreBodies
  <2>3. After(b, match) \in Row
    BY <2>2, <1>2, AfterType
  <2>4. match' \in Row
    BY <2>1, <2>3, <1>4
  <2>5. events' \in Seq(Event)
    BY <1>2, <1>3, <1>4
  <2> QED
    BY <2>4, <2>5, AuditedType DEF AddMatchEvent, Store, IInv, TypeOK
<1>6. /\ n.status = match.status /\ n.period = match.period /\ n.minute = match.minute
      /\ n.forfeit = match.forfeit /\ n.disputed = match.disputed
      /\ n.rec = match.rec \/ (match.rec \in Published /\ n.rec = "corrected")
      /\ n.home = match.home + IF Scores(b, "home") THEN 1 ELSE 0
      /\ n.away = match.away + IF Scores(b, "away") THEN 1 ELSE 0
  BY <1>1, <1>2 DEF record_event, Row, Corrects
<1>7. byHand \subseteq byHand'
  BY DEF AddMatchEvent, Store
<1>8. /\ ClockConsistent' /\ CountedIsPublished' /\ DisputeFlagged'
      /\ WalkoverHasForfeiter'
  BY <1>4, <1>6, <1>7 DEF StatusFitsPeriod, IInv, ClockConsistent, DisputeFlagged,
     CountedIsPublished, WalkoverHasForfeiter, Published
<1>9. GoalsCounted'
  <2>1. \A side \in Side : Goals(events', side) =
                              Goals(events, side) + IF Scores(b, side) THEN 1 ELSE 0
    BY <1>2, <1>3, <1>4, GoalsOfAppend DEF Scores
  <2> QED
    BY <2>1, <1>4, <1>6, <1>7 DEF IInv, GoalsCounted, Side
<1> QED
  BY <1>5, <1>8, <1>9 DEF IInv

LEMMA DeleteAction ==
  ASSUME IInv, NEW b \in Bodies, DeleteMatch(b)
  PROVE  IInv'
<1>1. TypeOK'
  BY AuditedType DEF DeleteMatch, IInv, TypeOK
<1> QED
  BY <1>1 DEF DeleteMatch, IInv, StatusFitsPeriod, ClockConsistent, DisputeFlagged,
     CountedIsPublished, WalkoverHasForfeiter, GoalsCounted

LEMMA Idle == IInv /\ UNCHANGED vars => IInv'
  BY DEF vars, IInv, TypeOK, StatusFitsPeriod, ClockConsistent, DisputeFlagged,
     CountedIsPublished, WalkoverHasForfeiter, GoalsCounted

LEMMA StepIInv == IInv /\ [Next]_vars => IInv'
<1> SUFFICES ASSUME IInv, [Next]_vars PROVE IInv'
  OBVIOUS
<1>1. ASSUME NEW b \in Bodies,
             \/ StartMatch(b) \/ HalfTime(b) \/ SecondHalf(b) \/ ExtraTime(b) \/ Penalties(b)
             \/ FullTime(b) \/ Postponed(b) \/ Cancelled(b) \/ Abandoned(b)
      PROVE  IInv'
  BY <1>1, ClockActions
<1>2. ASSUME NEW b \in Bodies, HydrationBreak(b) \/ DisputeMatch(b) PROVE IInv'
  BY <1>2, FlagActions
<1>3. ASSUME NEW b \in Bodies, ResultOnly(b) \/ ResolveDispute(b) PROVE IInv'
  BY <1>3, ResultActions
<1>4. ASSUME NEW b \in Bodies, Refused(b) PROVE IInv'
  BY <1>4, Idle DEF Refused
<1> QED
  BY <1>1, <1>2, <1>3, <1>4, Idle, WalkoverAction, MinuteAction, PatchAction, EventAction,
     DeleteAction DEF Next

-----------------------------------------------------------------------------
\* The invariant holds in every reachable state.
THEOREM Invariance == Spec => []IInv
  BY InitIInv, StepIInv, PTL DEF Spec

\* The row, the events and the history keep their types.
THEOREM TypeCorrect == Spec => []TypeOK
<1>1. IInv => TypeOK
  BY DEF IInv
<1> QED
  BY <1>1, Invariance, PTL

\* Status, period and minute agree until the clock is entered by hand
\* (_set_status, sync_minute).
THEOREM ClockStaysConsistent == Spec => []ClockConsistent
<1>1. IInv => ClockConsistent
  BY DEF IInv
<1> QED
  BY <1>1, Invariance, PTL

\* A match at full time has a published, corrected or disputed record
\* (set_full_time, submit_result_only and what may follow them).
THEOREM FullTimeIsPublished == Spec => []CountedIsPublished
<1>1. IInv => CountedIsPublished
  BY DEF IInv
<1> QED
  BY <1>1, Invariance, PTL

\* A record in status DISPUTED carries the flag (dispute_match, resolve_dispute).
THEOREM DisputesAreFlagged == Spec => []DisputeFlagged
<1>1. IInv => DisputeFlagged
  BY DEF IInv
<1> QED
  BY <1>1, Invariance, PTL

\* Served one at a time, the events and the incrementally kept score never
\* disagree (record_event), however many events and requests there are.
THEOREM ScoreIsCount == Spec => []GoalsCounted
<1>1. IInv => GoalsCounted
  BY DEF IInv
<1> QED
  BY <1>1, Invariance, PTL

\* A walkover has a forfeiting team (set_walkover and its endpoint).
THEOREM WalkoversForfeit == Spec => []WalkoverHasForfeiter
<1>1. IInv => WalkoverHasForfeiter
  BY DEF IInv
<1> QED
  BY <1>1, Invariance, PTL

\* No sequence of requests slips an event into a published record unaudited
\* when they are served one at a time (record_event).
THEOREM CorrectionsAreAudited == Spec => CorrectionAudited
<1> DEFINE A == Len(events') > Len(events) /\ match.rec \in Published
                  => "correct_event" \in recorded'
<1>1. ASSUME TypeOK, [Next]_vars PROVE A
  <2>1. CASE UNCHANGED events
    BY <1>1, <2>1 DEF TypeOK
  <2>2. ASSUME NEW b \in Bodies, AddMatchEvent(b) PROVE A
    BY <2>2 DEF AddMatchEvent, Store, Audited, Entry, Corrects
  <2>3. UNCHANGED events \/ \E b \in Bodies : AddMatchEvent(b)
    BY <1>1 DEF Next, vars, StartMatch, HalfTime, SecondHalf, ExtraTime, Penalties, FullTime,
       Postponed, Cancelled, Abandoned, Walkover, SyncMinute, HydrationBreak, ResultOnly,
       DisputeMatch, ResolveDispute, UpdateMatch, DeleteMatch, Refused
  <2> QED
    BY <2>1, <2>2, <2>3
<1>2. TypeOK /\ [Next]_vars => [A]_vars
  BY <1>1
<1> QED
  BY <1>2, TypeCorrect, PTL DEF Spec, CorrectionAudited

\* What a handler makes of the record status, when it is not refused: a start makes it
\* SUBMITTED, and is refused once the match is finished.
LEMMA RecordAfter ==
  ASSUME NEW b \in Bodies, match \in Row, ~Refuses(b, match)
  PROVE  LET rec == After(b, match).rec IN
         \/ rec \in Published \cup {"disputed", match.rec}
         \/ match.status \notin finished_statuses
<1> DEFINE n == After(b, match)
<1>1. CASE b.kind = "start"
  BY <1>1 DEF Refuses, _set_status_refuses
<1>2. CASE b.kind \in {"full_time", "result_only", "resolve", "dispute", "event"}
  <2>1. CASE b.kind = "full_time"
    BY <2>1 DEF After, set_full_time, SetStatus, Row, Published
  <2>2. CASE b.kind = "result_only"
    BY <2>2 DEF After, submit_result_only, SetStatus, Row, Published
  <2>3. CASE b.kind \in {"resolve", "dispute"}
    BY <2>3 DEF After, resolve_dispute, dispute_match, Row, Published
  <2>4. CASE b.kind = "event"
    BY <2>4 DEF After, record_event, Row, Published
  <2> QED
    BY <1>2, <2>1, <2>2, <2>3, <2>4
<1>3. CASE b.kind \in StatusKind \ {"full_time"}
  BY <1>3 DEF StatusKind, After, SetStatus, Row, set_half_time, set_second_half, set_extra_time,
     set_penalties, set_postponed, set_cancelled, set_abandoned, set_walkover
<1>4. CASE b.kind \in {"minute", "hydration", "add_time", "patch", "batch", "delete"}
  BY <1>4 DEF After, Row, sync_minute, set_hydration_break, add_time, update_match
<1>5. b.kind \in PlainKind \cup {"start", "walkover", "minute", "hydration", "add_time",
                                "result_only", "event", "resolve", "patch"}
  BY BodiesAreBodies DEF Body
<1> QED
  BY <1>1, <1>2, <1>3, <1>4, <1>5 DEF PlainKind, StatusKind

\* A published record is withdrawn only by a dispute, or by starting a match that has left
\* the finished statuses.
THEOREM RecordsStayPublished == Spec => WithdrawnOnlyByDisputeOrStart
<1> DEFINE A == match.rec \in Published /\ match'.rec \notin Published
                  => \/ match'.rec = "disputed"
                     \/ match.status \notin finished_statuses
<1>1. ASSUME TypeOK, [Next]_vars PROVE A
  <2>1. ASSUME NEW b \in Bodies, Store(b, After(b, match)) PROVE A
    BY <1>1, <2>1, RecordAfter DEF Store, TypeOK
  <2>2. CASE match' = match
    BY <2>2
  <2>3. match' = match \/ \E b \in Bodies : Store(b, After(b, match))
    BY <1>1 DEF Next, vars, StartMatch, HalfTime, SecondHalf, ExtraTime, Penalties, FullTime,
       Postponed, Cancelled, Abandoned, Walkover, SyncMinute, HydrationBreak, ResultOnly,
       DisputeMatch, ResolveDispute, UpdateMatch, AddMatchEvent, DeleteMatch, Refused, After
  <2> QED
    BY <2>1, <2>2, <2>3
<1>2. TypeOK /\ [Next]_vars => [A]_vars
  BY <1>1
<1> QED
  BY <1>2, TypeCorrect, PTL DEF Spec, WithdrawnOnlyByDisputeOrStart
=============================================================================
