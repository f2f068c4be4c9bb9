------------------------- MODULE MatchRequestsProofs -------------------------
(***************************************************************************)
(* Proofs about MatchRequests, for every set of requests and request       *)
(* bodies, every starting row and every pool size.                         *)
(***************************************************************************)
EXTENDS MatchRequests, MatchRowProofs

LEMMA MergedType ==
  ASSUME NEW old \in Row, NEW new \in Row, NEW cur \in Row
  PROVE  Merged(old, new, cur) \in Row
  BY DEF Merged, Row

-----------------------------------------------------------------------------
\* What a request carries at each place: a body once it arrived, the row it
\* loaded while it is in flight, and only events get as far as a number.
Carried ==
  \A r \in Req :
    /\ pc[r] # "idle" => body[r] \in Bodies
    /\ pc[r] \in InFlight => /\ seen[r] \in Row
                             /\ ~Refuses(body[r], seen[r]) /\ ~RaisesEarly(body[r])
    /\ pc[r] \in {"counted", "inserted"} => Is(r, "event")

TInv == TypeOK /\ Carried

LEMMA InitTInv == Init => TInv
<1> SUFFICES ASSUME Init PROVE TInv
  OBVIOUS
<1>1. match \in Row
  BY StartRowsAreRows DEF Init
<1> QED
  BY <1>1 DEF Init, TInv, TypeOK, Carried, InFlight

\* The row a request in flight stores is a row.
LEMMA StoredType ==
  ASSUME TInv, NEW r \in Req, pc[r] \in InFlight
  PROVE  Stored(body[r], seen[r], match) \in Row
<1>1. seen[r] \in Row /\ match \in Row /\ body[r] \in Body
  BY BodiesAreBodies DEF TInv, TypeOK, Carried, InFlight
<1>2. Merged(seen[r], After(body[r], seen[r]), match) \in Row
  BY <1>1, AfterType, MergedType
<1> QED
  BY <1>2 DEF Stored, Row

LEMMA StepTInv == TInv /\ [Next]_vars => TInv'
<1> SUFFICES ASSUME TInv, [Next]_vars PROVE TInv'
  OBVIOUS
<1> USE DEF TInv
<1>1. ASSUME NEW r \in Req, Arrive(r) PROVE TInv'
  BY <1>1, BodiesAreBodies DEF Arrive, TypeOK, Carried, Goto, Is, db, InFlight
<1>2. ASSUME NEW r \in Req, Load(r) PROVE TInv'
  BY <1>2 DEF Load, TypeOK, Carried, Goto, Is, db, InFlight, Answers
<1>3. ASSUME NEW r \in Req, PoolTimeout(r) \/ Raise(r) \/ Abort(r) PROVE TInv'
  BY <1>3 DEF PoolTimeout, Raise, Abort, TypeOK, Carried, Goto, Is, db, InFlight, Answers, Release
<1>4. ASSUME NEW r \in Req, Flush(r) \/ FlushNothing(r) \/ FlushDelete(r) PROVE TInv'
  BY <1>4 DEF Flush, FlushNothing, FlushDelete, TypeOK, Carried, Goto, Is, db, InFlight, Answers
<1>5. ASSUME NEW r \in Req, Count(r) PROVE TInv'
  BY <1>5 DEF Count, TypeOK, Carried, Goto, Is, db, InFlight, Answers, _next_event_sequence
<1>6. ASSUME NEW r \in Req, Insert(r) PROVE TInv'
  BY <1>6 DEF Insert, TypeOK, Carried, Goto, Is, db, InFlight, Answers
<1>7. ASSUME NEW r \in Req, CommitRow(r) PROVE TInv'
  <2>1. match' \in Row
    BY <1>7, StoredType DEF CommitRow, TypeOK, InFlight
  <2>2. recorded' \subseteq AuditAction /\ byHand' \subseteq {"clock", "score"}
    BY <1>7, AuditedType DEF CommitRow, TypeOK
  <2> QED
    BY <1>7, <2>1, <2>2 DEF CommitRow, TypeOK, Carried, Goto, Is, db, InFlight, Answers, Release
<1>8. ASSUME NEW r \in Req, CommitEvent(r) PROVE TInv'
  <2>1. match' \in Row
    BY <1>8, StoredType DEF CommitEvent, InFlight
  <2>2. recorded' \subseteq AuditAction
    BY <1>8, AuditedType DEF CommitEvent
  <2>3. events' \in Seq(Event)
    <3>1. body[r] \in Body /\ body[r].kind = "event" /\ body[r].team \in Side /\ seqno[r] \in Nat
      BY <1>8, BodiesAreBodies DEF CommitEvent, TypeOK, Carried, Is, InFlight, Refuses,
         _validate_event_refuses
    <3>2. body[r].type \in EventType
      BY <3>1, BodyFields
    <3>3. [seq |-> seqno[r], type |-> body[r].type, team |-> body[r].team] \in Event
      BY <3>1, <3>2 DEF Event
    <3> QED
      BY <1>8, <3>3 DEF CommitEvent, TypeOK
  <2> QED
    BY <1>8, <2>1, <2>2, <2>3
       DEF CommitEvent, TypeOK, Carried, Goto, Is, db, InFlight, Answers, Release
<1>9. ASSUME NEW r \in Req, CommitDelete(r) PROVE TInv'
  <2>1. recorded' \subseteq AuditAction
    BY <1>9, AuditedType DEF CommitDelete
  <2> QED
    BY <1>9, <2>1 DEF CommitDelete, TypeOK, Carried, Goto, Is, db, InFlight, Answers, Release
<1>10. CASE UNCHANGED vars
  BY <1>10 DEF vars, db, TypeOK, Carried, Is
<1> QED
  BY <1>1, <1>2, <1>3, <1>4, <1>5, <1>6, <1>7, <1>8, <1>9, <1>10 DEF Next, Handle, AllAnswered

\* Every variable keeps its type, whatever interleaves.
THEOREM TypeCorrect == Spec => []TypeOK
<1>1. TInv => TypeOK
  BY DEF TInv
<1> QED
  BY <1>1, InitTInv, StepTInv, PTL DEF Spec

-----------------------------------------------------------------------------
\* Why goals keep their order.  A scoring event holds the row lock from the flush
\* that precedes its count until it commits, so no other scoring event can
\* commit in between, and the number it counted stays above all of theirs.
Scoring(r) == Is(r, "event") /\ body[r].type \in SCORE_EVENT_TYPES
Holding == {"written", "counted", "inserted"}

LockHeld == \A r \in Req : pc[r] \in Holding /\ Scoring(r) => holder = r
NumbersFit ==
  \A r \in Req : pc[r] \in {"counted", "inserted"} =>
    /\ seqno[r] \in 1 .. Len(events) + 1
    /\ Scoring(r) => \A i \in ScoringEvents : events[i].seq < seqno[r]

OInv == LockHeld /\ NumbersFit /\ SequenceWithinCount /\ ScoringOrdered

LEMMA InitOInv == Init => OInv
  BY DEF Init, OInv, LockHeld, NumbersFit, SequenceWithinCount, ScoringOrdered, ScoringEvents,
     Holding

\* A step that commits no event and gives no number only has to keep the lock.
LEMMA KeepNumbers ==
  ASSUME TInv, OInv, UNCHANGED <<events, seqno>>, LockHeld',
         \A r \in Req : pc'[r] \in {"counted", "inserted"} =>
                         pc[r] \in {"counted", "inserted"} /\ body'[r] = body[r]
  PROVE  OInv'
<1>1. NumbersFit'
  BY DEF OInv, NumbersFit, ScoringEvents, Scoring, Is
<1> QED
  BY <1>1 DEF OInv, SequenceWithinCount, ScoringOrdered, ScoringEvents

LEMMA StepOInv == TInv /\ OInv /\ [Next]_vars => OInv'
<1> SUFFICES ASSUME TInv, OInv, [Next]_vars PROVE OInv'
  OBVIOUS
<1> USE DEF TInv
<1>1. ASSUME NEW r \in Req, Arrive(r) \/ Load(r) \/ PoolTimeout(r) \/ FlushNothing(r)
                            \/ FlushDelete(r) \/ Insert(r)
      PROVE  OInv'
  <2>1. FlushNothing(r) => ~Scoring(r)
    BY ScoringChangesRow, BodiesAreBodies
       DEF FlushNothing, Dirty, Scoring, Is, TypeOK, Carried, InFlight
  <2>2. FlushDelete(r) => ~Scoring(r) /\ holder = None
    BY DEF FlushDelete, Scoring, Is
  <2>3. LockHeld'
    BY <1>1, <2>1, <2>2, NoneIsNoRequest DEF Arrive, Load, PoolTimeout, FlushNothing,
       FlushDelete, Insert, Goto, OInv, LockHeld, Holding, Scoring, Is, TypeOK
  <2>4. UNCHANGED <<events, seqno>>
    BY <1>1 DEF Arrive, Load, PoolTimeout, FlushNothing, FlushDelete, Insert, db
  <2>5. \A q \in Req : pc'[q] \in {"counted", "inserted"} =>
                         pc[q] \in {"counted", "inserted"} /\ body'[q] = body[q]
    BY <1>1 DEF Arrive, Load, PoolTimeout, FlushNothing, FlushDelete, Insert, Goto, TypeOK
  <2> QED
    BY <2>3, <2>4, <2>5, KeepNumbers
<1>2. ASSUME NEW r \in Req, Flush(r) PROVE OInv'
  <2>1. LockHeld'
    BY <1>2, NoneIsNoRequest DEF Flush, Goto, OInv, LockHeld, Holding, Scoring, Is, TypeOK
  <2>2. \A q \in Req : pc'[q] \in {"counted", "inserted"} =>
                         pc[q] \in {"counted", "inserted"} /\ body'[q] = body[q]
    BY <1>2 DEF Flush, Goto, TypeOK
  <2> QED
    BY <1>2, <2>1, <2>2, KeepNumbers DEF Flush, db
<1>3. ASSUME NEW r \in Req, Raise(r) \/ Abort(r) \/ CommitRow(r) \/ CommitDelete(r)
      PROVE  OInv'
  <2>1. LockHeld'
    BY <1>3, NoneIsNoRequest DEF Raise, Abort, CommitRow, CommitDelete, Goto, Release, OInv,
       LockHeld, Holding, Scoring, Is, TypeOK, Answers
  <2>2. UNCHANGED <<events, seqno, body>>
    BY <1>3 DEF Raise, Abort, CommitRow, CommitDelete, db
  <2>3. \A q \in Req : pc'[q] \in {"counted", "inserted"} =>
                         pc[q] \in {"counted", "inserted"} /\ body'[q] = body[q]
    BY <1>3, <2>2 DEF Raise, Abort, CommitRow, CommitDelete, Goto, TypeOK
  <2> QED
    BY <2>1, <2>2, <2>3, KeepNumbers
<1>4. ASSUME NEW r \in Req, Count(r) PROVE OInv'
  <2>1. LockHeld'
    BY <1>4 DEF Count, Goto, OInv, LockHeld, Holding, Scoring, Is, TypeOK
  <2>2. \A i \in DOMAIN events : events[i].seq < Len(events) + 1
    BY DEF OInv, SequenceWithinCount, TypeOK
  <2>3. NumbersFit'
    BY <1>4, <2>2 DEF Count, Goto, _next_event_sequence, OInv, NumbersFit, ScoringEvents,
       Scoring, Is, TypeOK, db
  <2> QED
    BY <1>4, <2>1, <2>3 DEF Count, db, OInv, SequenceWithinCount, ScoringOrdered, ScoringEvents
<1>5. ASSUME NEW r \in Req, CommitEvent(r) PROVE OInv'
  <2> DEFINE n == Len(events)
             e == [seq |-> seqno[r], type |-> body[r].type, team |-> body[r].team]
  <2>1. /\ events' = Append(events, e) /\ n \in Nat /\ DOMAIN events = 1 .. n
        /\ Len(events') = n + 1 /\ DOMAIN events' = 1 .. (n + 1)
        /\ \A i \in 1 .. n : events'[i] = events[i]
        /\ events'[n + 1] = e
        /\ UNCHANGED <<seqno, body>>
    BY <1>5 DEF CommitEvent, TypeOK
  <2>2. seqno[r] \in 1 .. n + 1 /\ (Scoring(r) => \A i \in ScoringEvents : events[i].seq < seqno[r])
    BY <1>5 DEF CommitEvent, OInv, NumbersFit
  <2>3. ScoringEvents' = IF Scoring(r) THEN ScoringEvents \cup {n + 1} ELSE ScoringEvents
    BY <1>5, <2>1 DEF ScoringEvents, Scoring, CommitEvent, TypeOK, Carried
  <2>4. LockHeld'
    BY <1>5, NoneIsNoRequest DEF CommitEvent, Goto, Release, OInv, LockHeld, Holding, Scoring,
       Is, TypeOK, Answers
  <2>5. SequenceWithinCount'
    BY <2>1, <2>2 DEF OInv, SequenceWithinCount
  <2>6. ScoringOrdered'
    BY <2>1, <2>2, <2>3 DEF OInv, ScoringOrdered, ScoringEvents
  <2>7. NumbersFit'
    <3> SUFFICES ASSUME NEW q \in Req, pc'[q] \in {"counted", "inserted"}
                 PROVE  /\ seqno'[q] \in 1 .. Len(events') + 1
                        /\ Scoring(q)' => \A i \in ScoringEvents' : events'[i].seq < seqno'[q]
      BY DEF NumbersFit
    <3>1. q # r /\ pc[q] \in {"counted", "inserted"}
      BY <1>5 DEF CommitEvent, Goto, Answers, TypeOK
    <3>2. ~(Scoring(q) /\ Scoring(r))
      BY <1>5, <3>1 DEF CommitEvent, OInv, LockHeld, Holding
    <3>3. Scoring(q)' <=> Scoring(q)
      BY <2>1 DEF Scoring, Is
    <3>4. seqno'[q] \in 1 .. Len(events') + 1
      BY <2>1, <3>1 DEF OInv, NumbersFit
    <3>5. Scoring(q) => \A i \in ScoringEvents' : events'[i].seq < seqno'[q]
      BY <2>1, <2>3, <3>1, <3>2 DEF OInv, NumbersFit, ScoringEvents
    <3> QED
      BY <3>3, <3>4, <3>5
  <2> QED
    BY <2>4, <2>5, <2>6, <2>7 DEF OInv
<1>6. CASE UNCHANGED vars
  BY <1>6 DEF vars, db, OInv, LockHeld, NumbersFit, SequenceWithinCount, ScoringOrdered,
     ScoringEvents, Scoring, Is
<1> QED
  BY <1>1, <1>2, <1>3, <1>4, <1>5, <1>6 DEF Next, Handle, AllAnswered

\* Two scoring events of a match are numbered in the order they were committed,
\* whatever interleaves (record_event, _next_event_sequence and the row lock).
THEOREM GoalsKeepOrder == Spec => []ScoringOrdered
<1>1. TInv /\ OInv => ScoringOrdered
  BY DEF OInv
<1> QED
  BY <1>1, InitTInv, StepTInv, InitOInv, StepOInv, PTL DEF Spec

\* No sequence number is ahead of its event's place (_next_event_sequence).
THEOREM NumbersNeverSkip == Spec => []SequenceWithinCount
<1>1. TInv /\ OInv => SequenceWithinCount
  BY DEF OInv
<1> QED
  BY <1>1, InitTInv, StepTInv, InitOInv, StepOInv, PTL DEF Spec

-----------------------------------------------------------------------------
\* Why no event outlives its match.  An inserted event shares the row and a
\* deletion owns it: neither begins while the other is under way.
Excluded ==
  \A r \in Req :
    /\ pc[r] = "inserted" => present
    /\ pc[r] = "written" /\ Is(r, "delete") /\ holder = r =>
         events = <<>> /\ Sharing = {}

DInv == NoOrphanEvents /\ Excluded

LEMMA InitDInv == Init => DInv
  BY DEF Init, DInv, NoOrphanEvents, Excluded

LEMMA StepDInv == TInv /\ DInv /\ [Next]_vars => DInv'
<1> SUFFICES ASSUME TInv, DInv, [Next]_vars PROVE DInv'
  OBVIOUS
<1> USE DEF TInv, DInv, NoOrphanEvents, Excluded, Sharing
<1>1. ASSUME NEW r \in Req, Arrive(r) \/ Load(r) \/ PoolTimeout(r) \/ Flush(r)
                            \/ FlushNothing(r) \/ Count(r)
      PROVE  DInv'
  BY <1>1, NoneIsNoRequest DEF Arrive, Load, PoolTimeout, Flush, FlushNothing, Count, Goto, Is,
     db, TypeOK, InFlight
<1>2. ASSUME NEW r \in Req, FlushDelete(r) PROVE DInv'
  BY <1>2, NoneIsNoRequest DEF FlushDelete, Goto, Is, db, TypeOK
<1>3. ASSUME NEW r \in Req, Insert(r) PROVE DInv'
  <2>1. \A q \in Req : ~(Is(q, "delete") /\ holder = q)
    BY <1>3, NoneIsNoRequest DEF Insert, Deleting
  <2>2. UNCHANGED <<present, events, holder, body>>
    BY <1>3 DEF Insert, db
  <2>3. \A q \in Req : pc'[q] = "inserted" => pc[q] = "inserted" \/ present
    BY <1>3 DEF Insert, Goto, TypeOK
  <2> QED
    BY <2>1, <2>2, <2>3 DEF Is
<1>4. ASSUME NEW r \in Req, Raise(r) \/ Abort(r) \/ CommitRow(r) PROVE DInv'
  BY <1>4, NoneIsNoRequest DEF Raise, Abort, CommitRow, Goto, Release, Is, db, TypeOK
<1>5. ASSUME NEW r \in Req, CommitEvent(r) PROVE DInv'
  <2>1. present' /\ Sharing # {}
    BY <1>5 DEF CommitEvent
  <2>2. \A q \in Req : pc[q] = "written" /\ Is(q, "delete") => holder # q
    BY <2>1
  <2>3. \A q \in Req : pc'[q] = "written" => pc[q] = "written" /\ q # r
    BY <1>5 DEF CommitEvent, Goto, TypeOK
  <2> QED
    BY <1>5, <2>1, <2>2, <2>3, NoneIsNoRequest DEF CommitEvent, Release, Is
<1>6. ASSUME NEW r \in Req, CommitDelete(r) PROVE DInv'
  BY <1>6, NoneIsNoRequest DEF CommitDelete, Goto, Release, Is, TypeOK
<1>7. CASE UNCHANGED vars
  BY <1>7 DEF vars, db, Is
<1> QED
  BY <1>1, <1>2, <1>3, <1>4, <1>5, <1>6, <1>7 DEF Next, Handle, AllAnswered

\* A deleted match has no events, whatever interleaves (delete_match,
\* record_event and the foreign key between their tables).
THEOREM NoEventOutlivesMatch == Spec => []NoOrphanEvents
<1>1. DInv => NoOrphanEvents
  BY DEF DInv
<1> QED
  BY <1>1, InitTInv, StepTInv, InitDInv, StepDInv, PTL DEF Spec

-----------------------------------------------------------------------------
\* Why races only lose goals.  What a request loaded never exceeds the goals
\* committed by then, and each commit adds its goal to the list and at most one
\* to what it loaded.
ScoresBounded ==
  "score" \notin byHand =>
    \A r \in Req : pc[r] \in InFlight =>
      seen[r].home <= Goals(events, "home") /\ seen[r].away <= Goals(events, "away")

GInv == NeverOvercounts /\ ScoresBounded

\* Of the columns of Stored: one that the handler left as it loaded it keeps its
\* newest value, one that it changed is overwritten.
LEMMA StoredColumns ==
  ASSUME NEW r \in Req
  PROVE  LET a == After(body[r], seen[r]) IN
         /\ Stored(body[r], seen[r], match).home =
              IF seen[r].home = a.home THEN match.home ELSE a.home
         /\ Stored(body[r], seen[r], match).away =
              IF seen[r].away = a.away THEN match.away ELSE a.away
         /\ Stored(body[r], seen[r], match).status =
              IF seen[r].status = a.status THEN match.status ELSE a.status
         /\ Stored(body[r], seen[r], match).forfeit =
              IF seen[r].forfeit = a.forfeit THEN match.forfeit ELSE a.forfeit
  BY DEF Stored, Merged

LEMMA InitGInv == Init => GInv
  BY NoGoalsYet, StartRowsAreRows DEF Init, GInv, NeverOvercounts, ScoresBounded, Side, InFlight

LEMMA StepGInv == TInv /\ GInv /\ [Next]_vars => GInv'
<1> SUFFICES ASSUME TInv, GInv, [Next]_vars PROVE GInv'
  OBVIOUS
<1> USE DEF TInv, GInv
<1>1. ASSUME NEW r \in Req, Arrive(r) \/ PoolTimeout(r) \/ Flush(r) \/ FlushNothing(r)
                            \/ FlushDelete(r) \/ Count(r) \/ Insert(r) \/ Raise(r)
                            \/ Abort(r) \/ CommitDelete(r)
      PROVE  GInv'
  <2>1. UNCHANGED <<match, events, byHand, seen>>
    BY <1>1 DEF Arrive, PoolTimeout, Flush, FlushNothing, FlushDelete, Count, Insert, Raise,
       Abort, CommitDelete, db
  <2>2. \A q \in Req : pc'[q] \in InFlight => pc[q] \in InFlight
    BY <1>1 DEF Arrive, PoolTimeout, Flush, FlushNothing, FlushDelete, Count, Insert, Raise,
       Abort, CommitDelete, Goto, TypeOK, InFlight
  <2> QED
    BY <2>1, <2>2 DEF NeverOvercounts, ScoresBounded
<1>2. ASSUME NEW r \in Req, Load(r) PROVE GInv'
  BY <1>2 DEF Load, Goto, db, TypeOK, InFlight, NeverOvercounts, ScoresBounded
<1>3. ASSUME NEW r \in Req, CommitRow(r) PROVE GInv'
  <2>1. body[r] \in Body /\ seen[r] \in Row /\ body[r].kind # "event"
    BY <1>3, BodiesAreBodies DEF CommitRow, TypeOK, Carried, InFlight, Is
  <2>2. "score" \notin byHand' => match'.home = match.home /\ match'.away = match.away
    <3> SUFFICES ASSUME "score" \notin byHand'
                 PROVE  match'.home = match.home /\ match'.away = match.away
      OBVIOUS
    <3>1. "score" \notin ByHand(body[r])
      BY <1>3 DEF CommitRow
    <3>2. /\ After(body[r], seen[r]).home = seen[r].home
          /\ After(body[r], seen[r]).away = seen[r].away
      BY <2>1, <3>1, ScoreAfter
    <3> QED
      BY <1>3, <3>2, StoredColumns DEF CommitRow
  <2>3. \A q \in Req : pc'[q] \in InFlight => pc[q] \in InFlight
    BY <1>3 DEF CommitRow, Goto, TypeOK, InFlight
  <2> QED
    BY <1>3, <2>2, <2>3 DEF CommitRow, NeverOvercounts, ScoresBounded
<1>4. ASSUME NEW r \in Req, CommitEvent(r) PROVE GInv'
  <2> DEFINE e == [seq |-> seqno[r], type |-> body[r].type, team |-> body[r].team]
             b == body[r]
  <2>1. /\ b \in Body /\ b.kind = "event" /\ b.team \in Side /\ seen[r] \in Row
        /\ pc[r] \in InFlight /\ seqno[r] \in Nat
    BY <1>4, BodiesAreBodies
       DEF CommitEvent, TypeOK, Carried, InFlight, Is, Refuses, _validate_event_refuses
  <2>2. e \in Event
    BY <2>1, BodyFields DEF Event
  <2>3. \A side \in Side : /\ Goals(events, side) \in Nat
                           /\ Goals(events', side) =
                                Goals(events, side) + IF Scores(b, side) THEN 1 ELSE 0
    BY <1>4, <2>2, GoalsOfAppend DEF CommitEvent, TypeOK, Scores
  <2>4. /\ After(b, seen[r]).home = seen[r].home + IF Scores(b, "home") THEN 1 ELSE 0
        /\ After(b, seen[r]).away = seen[r].away + IF Scores(b, "away") THEN 1 ELSE 0
    <3>1. After(b, seen[r]) = record_event(seen[r], b)
      BY <2>1 DEF After
    <3>2. seen[r].home \in Int /\ seen[r].away \in Int
      BY <2>1 DEF Row
    <3>3. /\ record_event(seen[r], b).home =
               IF Scores(b, "home") THEN seen[r].home + 1 ELSE seen[r].home
          /\ record_event(seen[r], b).away =
               IF Scores(b, "away") THEN seen[r].away + 1 ELSE seen[r].away
      BY <2>1 DEF record_event, Row
    <3> QED
      BY <3>1, <3>2, <3>3
  <2>5. /\ match'.home = match.home
             \/ (Scores(b, "home") /\ match'.home = seen[r].home + 1)
        /\ match'.away = match.away
             \/ (Scores(b, "away") /\ match'.away = seen[r].away + 1)
    <3>1. match' = Stored(body[r], seen[r], match)
      BY <1>4 DEF CommitEvent
    <3>2. seen[r].home \in Int /\ seen[r].away \in Int
      BY <2>1 DEF Row
    <3> QED
      BY <3>1, <3>2, <2>4, StoredColumns
  <2>6. \A q \in Req : pc'[q] \in InFlight => pc[q] \in InFlight /\ seen[q] \in Row
    BY <1>4 DEF CommitEvent, Goto, TypeOK, Carried, InFlight
  <2>7. match.home \in Int /\ match.away \in Int /\ seen[r].home \in Int /\ seen[r].away \in Int
    BY <2>1 DEF TypeOK, Row
  <2>8. UNCHANGED <<byHand, seen>>
    BY <1>4 DEF CommitEvent
  <2>9. NeverOvercounts'
    BY <2>1, <2>3, <2>5, <2>7, <2>8 DEF NeverOvercounts, ScoresBounded, Side
  <2>10. ScoresBounded'
    <3> SUFFICES ASSUME "score" \notin byHand', NEW q \in Req, pc'[q] \in InFlight
                 PROVE  seen'[q].home <= Goals(events', "home")
                          /\ seen'[q].away <= Goals(events', "away")
      BY DEF ScoresBounded
    <3>1. seen[q].home \in Int /\ seen[q].away \in Int
      BY <2>6 DEF Row
    <3>2. seen[q].home <= Goals(events, "home") /\ seen[q].away <= Goals(events, "away")
      BY <2>6, <2>8 DEF ScoresBounded
    <3> QED
      BY <2>3, <2>8, <3>1, <3>2 DEF Side
  <2> QED
    BY <2>9, <2>10
<1>5. CASE UNCHANGED vars
  BY <1>5 DEF vars, db, NeverOvercounts, ScoresBounded
<1> QED
  BY <1>1, <1>2, <1>3, <1>4, <1>5 DEF Next, Handle, AllAnswered

\* Until a score is entered by hand, no interleaving counts a goal twice
\* (record_event adds to the score it loaded).
THEOREM RacesNeverInventGoals == Spec => []NeverOvercounts
<1>1. GInv => NeverOvercounts
  BY DEF GInv
<1> QED
  BY <1>1, InitTInv, StepTInv, InitGInv, StepGInv, PTL DEF Spec

-----------------------------------------------------------------------------
\* Why a walkover keeps its forfeiting team.  Nobody clears the column, so a
\* request that loaded a team may leave the column out of its UPDATE.
ForfeitKept ==
  \A r \in Req : pc[r] \in InFlight /\ seen[r].forfeit # None => match.forfeit # None

WInv == WalkoverHasForfeiter /\ ForfeitKept

LEMMA InitWInv == Init => WInv
  BY StartRowsAreRows DEF Init, WInv, WalkoverHasForfeiter, ForfeitKept, InFlight

LEMMA StoredForfeit ==
  ASSUME TInv, WInv, NEW r \in Req, pc[r] \in InFlight, match' = Stored(body[r], seen[r], match),
         byHand' = byHand \cup ByHand(body[r]), UNCHANGED seen,
         \A q \in Req : pc'[q] \in InFlight => pc[q] \in InFlight
  PROVE  WInv'
<1> DEFINE a == After(body[r], seen[r])
<1>1. body[r] \in Body /\ seen[r] \in Row /\ match \in Row
  BY BodiesAreBodies DEF TInv, TypeOK, Carried, InFlight
<1>2. None \notin Team
  BY NoneIsNoValue
<1>3. a.forfeit = seen[r].forfeit \/ a.forfeit # None
  BY <1>1, <1>2, ForfeitAfter
<1>4. "clock" \notin ByHand(body[r]) /\ a.status = "walkover" =>
        a.forfeit # None \/ a.status = seen[r].status
  BY <1>1, <1>2, ForfeitAfter
<1>5. /\ match'.status = IF seen[r].status = a.status THEN match.status ELSE a.status
      /\ match'.forfeit = IF seen[r].forfeit = a.forfeit THEN match.forfeit ELSE a.forfeit
  BY StoredColumns
<1>6. match.forfeit # None => match'.forfeit # None
  BY <1>3, <1>5
<1>7. seen[r].forfeit # None => match.forfeit # None
  BY DEF WInv, ForfeitKept
<1>8. WalkoverHasForfeiter'
  BY <1>3, <1>4, <1>5, <1>6, <1>7 DEF WInv, WalkoverHasForfeiter
<1>9. ForfeitKept'
  BY <1>6 DEF WInv, ForfeitKept
<1> QED
  BY <1>8, <1>9 DEF WInv

LEMMA StepWInv == TInv /\ WInv /\ [Next]_vars => WInv'
<1> SUFFICES ASSUME TInv, WInv, [Next]_vars PROVE WInv'
  OBVIOUS
<1>1. ASSUME NEW r \in Req, Arrive(r) \/ PoolTimeout(r) \/ Flush(r) \/ FlushNothing(r)
                            \/ FlushDelete(r) \/ Count(r) \/ Insert(r) \/ Raise(r)
                            \/ Abort(r) \/ CommitDelete(r)
      PROVE  WInv'
  <2>1. UNCHANGED <<match, byHand, seen>>
    BY <1>1 DEF Arrive, PoolTimeout, Flush, FlushNothing, FlushDelete, Count, Insert, Raise,
       Abort, CommitDelete, db
  <2>2. \A q \in Req : pc'[q] \in InFlight => pc[q] \in InFlight
    BY <1>1 DEF Arrive, PoolTimeout, Flush, FlushNothing, FlushDelete, Count, Insert, Raise,
       Abort, CommitDelete, Goto, TInv, TypeOK, InFlight
  <2> QED
    BY <2>1, <2>2 DEF WInv, WalkoverHasForfeiter, ForfeitKept
<1>2. ASSUME NEW r \in Req, Load(r) PROVE WInv'
  BY <1>2 DEF Load, Goto, db, TInv, TypeOK, InFlight, WInv, WalkoverHasForfeiter, ForfeitKept
<1>3. ASSUME NEW r \in Req, CommitRow(r) \/ CommitEvent(r) PROVE WInv'
  <2>1. pc[r] \in InFlight /\ UNCHANGED seen
    BY <1>3 DEF CommitRow, CommitEvent, InFlight
  <2>2. \A q \in Req : pc'[q] \in InFlight => pc[q] \in InFlight
    BY <1>3 DEF CommitRow, CommitEvent, Goto, TInv, TypeOK, InFlight
  <2>3. byHand' = byHand \cup ByHand(body[r])
    <3>1. CommitEvent(r) => Is(r, "event")
      BY DEF CommitEvent, TInv, Carried
    <3>2. Is(r, "event") => ByHand(body[r]) = {}
      BY DEF Is, ByHand, Entry
    <3> QED
      BY <1>3, <3>1, <3>2 DEF CommitRow, CommitEvent
  <2>4. CASE match' = Stored(body[r], seen[r], match)
    BY <2>1, <2>2, <2>3, <2>4, StoredForfeit
  <2>5. CASE match' = match
    BY <2>1, <2>2, <2>3, <2>5 DEF WInv, WalkoverHasForfeiter, ForfeitKept
  <2> QED
    BY <1>3, <2>4, <2>5 DEF CommitRow, CommitEvent
<1>4. CASE UNCHANGED vars
  BY <1>4 DEF vars, db, WInv, WalkoverHasForfeiter, ForfeitKept
<1> QED
  BY <1>1, <1>2, <1>3, <1>4 DEF Next, Handle, AllAnswered

\* A walkover names its forfeiting team although status and team are written by
\* two flushes, each of the columns its request found different (set_walkover and
\* its endpoint).
THEOREM WalkoverKeepsForfeiter == Spec => []WalkoverHasForfeiter
<1>1. WInv => WalkoverHasForfeiter
  BY DEF WInv
<1> QED
  BY <1>1, InitTInv, StepTInv, InitWInv, StepWInv, PTL DEF Spec

-----------------------------------------------------------------------------
\* Why the requests implement the store.  A request has begun while it is in
\* flight; it ends when it commits, raises or is aborted, and only a commit has an
\* effect.  What the effect needs of the other invariants: an event's number is
\* within the count, its match is present, a deleted match has no events.
begun == [r \in Req |-> IF pc[r] \in InFlight THEN seen[r] ELSE None]

\* The store reads the row by the same operators of MatchRow.
LEMMA StoreRefuses ==
  ASSUME NEW b, NEW m
  PROVE  /\ Store!Refuses(b, m) <=> Refuses(b, m)
         /\ Store!RaisesEarly(b) <=> RaisesEarly(b)
         /\ Store!RaisesLate(b) <=> RaisesLate(b)
  BY DEF Refuses, _set_status_refuses, _validate_event_refuses, finished_statuses, Side,
     RaisesEarly, RaisesLate, Store!Refuses, Store!_set_status_refuses,
     Store!_validate_event_refuses, Store!finished_statuses, Store!Side,
     Store!RaisesEarly, Store!RaisesLate

LEMMA StoreStores ==
  ASSUME NEW b, NEW old, NEW cur
  PROVE  Store!Stored(b, old, cur) = Stored(b, old, cur)
<1>1. Store!After(b, old) = After(b, old)
  BY DEF After, start_match, set_half_time, set_second_half, set_extra_time, set_penalties,
     set_full_time, set_postponed, set_cancelled, set_abandoned, set_walkover, sync_minute,
     set_hydration_break, add_time, submit_result_only, record_event, dispute_match,
     resolve_dispute, update_match, SetStatus, Clamp, MaxMinute, MaxAdded, Published,
     Corrects, Scores, SCORE_EVENT_TYPES, Given,
     Store!After, Store!start_match, Store!set_half_time, Store!set_second_half,
     Store!set_extra_time, Store!set_penalties, Store!set_full_time, Store!set_postponed,
     Store!set_cancelled, Store!set_abandoned, Store!set_walkover, Store!sync_minute,
     Store!set_hydration_break, Store!add_time, Store!submit_result_only,
     Store!record_event, Store!dispute_match, Store!resolve_dispute, Store!update_match,
     Store!SetStatus, Store!Clamp, Store!MaxMinute, Store!MaxAdded, Store!Published,
     Store!Corrects, Store!Scores, Store!SCORE_EVENT_TYPES, Store!Given
<1> QED
  BY <1>1 DEF Stored, Merged, Stamps, Store!Stored, Store!Merged, Store!Stamps

LEMMA InitRefines == Init => Store!Init
  BY DEF Init, Store!Init, InFlight

\* The steps that keep every request where it was, in flight or not.
LEMMA SameBegun ==
  ASSUME TInv, UNCHANGED <<match, present, events>>,
         \A q \in Req : pc'[q] \in InFlight <=> pc[q] \in InFlight,
         \A q \in Req : pc[q] \in InFlight => seen'[q] = seen[q]
  PROVE  UNCHANGED Store!vars
<1>1. begun' = begun
  BY DEF begun, InFlight
<1> QED
  BY <1>1 DEF begun, Store!vars

\* The steps that end one request and leave the others alone.
LEMMA Ended ==
  ASSUME TInv, NEW r \in Req, pc[r] \in InFlight, UNCHANGED seen,
         \E l \in Answers : Goto(r, l)
  PROVE  Store!End(r)
<1>1. seen[r] # None
  BY NoneIsNoRow DEF TInv, Carried
<1>2. \A q \in Req \ {r} : pc'[q] = pc[q]
  BY DEF Goto, TInv, TypeOK
<1>3. pc'[r] \notin InFlight
  BY DEF Goto, TInv, TypeOK, Answers, InFlight
<1>4. begun' = [begun EXCEPT ![r] = None]
  BY <1>2, <1>3 DEF begun, InFlight
<1> QED
  BY <1>1, <1>4 DEF Store!End, begun

LEMMA StepRefines == TInv /\ OInv /\ DInv /\ [Next]_vars => [Store!Next]_Store!vars
<1> SUFFICES ASSUME TInv, OInv, DInv, [Next]_vars PROVE [Store!Next]_Store!vars
  OBVIOUS
<1>1. ASSUME NEW r \in Req, Arrive(r) \/ PoolTimeout(r) \/ Count(r) PROVE UNCHANGED Store!vars
  <2>1. UNCHANGED <<match, present, events, seen>>
    BY <1>1 DEF Arrive, PoolTimeout, Count, db
  <2>2. \A q \in Req : pc'[q] \in InFlight <=> pc[q] \in InFlight
    BY <1>1 DEF Arrive, PoolTimeout, Count, Goto, TInv, TypeOK, InFlight
  <2> QED
    BY <2>1, <2>2, SameBegun
<1>2. ASSUME NEW r \in Req, Load(r) PROVE Store!Begin(r) \/ UNCHANGED Store!vars
  <2>1. UNCHANGED <<match, present, events>> /\ pc[r] = "queued"
    BY <1>2 DEF Load, db
  <2>2. CASE pc'[r] = "loaded"
    <3>1. present /\ seen' = [seen EXCEPT ![r] = match] /\ Goto(r, "loaded")
      BY <1>2, <2>2 DEF Load, Goto, TInv, TypeOK
    <3>2. \A q \in Req \ {r} : pc'[q] = pc[q] /\ seen'[q] = seen[q]
      BY <3>1 DEF Goto, TInv, TypeOK
    <3>3. seen'[r] = match
      BY <3>1 DEF TInv, TypeOK
    <3>4. begun' = [begun EXCEPT ![r] = match]
      BY <2>2, <3>2, <3>3 DEF begun, InFlight
    <3> QED
      BY <2>1, <3>1, <3>4 DEF Store!Begin, begun, InFlight
  <2>3. CASE pc'[r] # "loaded"
    <3>1. seen' = seen /\ \E l \in Answers : Goto(r, l)
      BY <1>2, <2>3 DEF Load, Goto, TInv, TypeOK, Answers
    <3>2. \A q \in Req : pc'[q] \in InFlight <=> pc[q] \in InFlight
      BY <2>1, <3>1 DEF Goto, TInv, TypeOK, InFlight, Answers
    <3> QED
      BY <2>1, <3>1, <3>2, SameBegun
  <2> QED
    BY <2>2, <2>3
<1>3. ASSUME NEW r \in Req, Flush(r) \/ FlushNothing(r) \/ FlushDelete(r) \/ Insert(r)
                            \/ Raise(r) \/ Abort(r)
      PROVE  Store!Drop(r) \/ UNCHANGED Store!vars
  <2>1. UNCHANGED <<match, present, events, seen>> /\ pc[r] \in InFlight
    BY <1>3 DEF Flush, FlushNothing, FlushDelete, Insert, Raise, Abort, db, InFlight
  <2>2. \E l \in {"written", "inserted"} \cup Answers : Goto(r, l)
    BY <1>3 DEF Flush, FlushNothing, FlushDelete, Insert, Raise, Abort, Answers
  <2>3. CASE \E l \in Answers : Goto(r, l)
    BY <2>1, <2>3, Ended DEF Store!Drop
  <2>4. CASE \E l \in {"written", "inserted"} : Goto(r, l)
    <3>1. \A q \in Req : pc'[q] \in InFlight <=> pc[q] \in InFlight
      BY <2>1, <2>4 DEF Goto, TInv, TypeOK, InFlight
    <3> QED
      BY <2>1, <3>1, SameBegun
  <2> QED
    BY <2>2, <2>3, <2>4
<1>4. ASSUME NEW r \in Req, CommitRow(r)
      PROVE  Store!Drop(r) \/ \E b \in Bodies : Store!ChangeRow(r, b)
  <2>1. pc[r] \in InFlight /\ Store!End(r) /\ begun[r] = seen[r]
    BY <1>4, Ended DEF CommitRow, InFlight, Answers, begun
  <2>2. /\ body[r] \in Bodies /\ ~Refuses(body[r], seen[r])
        /\ ~RaisesEarly(body[r]) /\ ~RaisesLate(body[r])
    BY <1>4, <2>1 DEF CommitRow, TInv, Carried, InFlight
  <2>3. CASE ~present
    BY <1>4, <2>1, <2>3 DEF CommitRow, Store!Drop
  <2>4. CASE present
    BY <1>4, <2>1, <2>2, <2>4, StoreRefuses, StoreStores
       DEF CommitRow, Is, Store!ChangeRow, Store!Effect, begun
  <2> QED
    BY <2>3, <2>4
<1>5. ASSUME NEW r \in Req, CommitEvent(r) PROVE \E b \in Bodies : Store!AddEvent(r, b)
  <2>1. pc[r] \in InFlight /\ Store!End(r) /\ begun[r] = seen[r]
    BY <1>5, Ended DEF CommitEvent, InFlight, Answers, begun
  <2>2. body[r] \in Bodies /\ ~Refuses(body[r], seen[r]) /\ body[r].kind = "event"
    BY <1>5, <2>1 DEF CommitEvent, TInv, Carried, InFlight, Is
  <2>3. ~RaisesEarly(body[r]) /\ ~RaisesLate(body[r])
    BY <2>2 DEF RaisesEarly, RaisesLate
  <2>4. present /\ seqno[r] \in 1 .. Len(events) + 1
    BY <1>5 DEF CommitEvent, DInv, Excluded, OInv, NumbersFit
  <2> QED
    BY <1>5, <2>1, <2>2, <2>3, <2>4, StoreRefuses, StoreStores
       DEF CommitEvent, Store!AddEvent, Store!Effect, begun
<1>6. ASSUME NEW r \in Req, CommitDelete(r)
      PROVE  Store!Drop(r) \/ \E b \in Bodies : Store!Remove(r, b)
  <2>1. pc[r] \in InFlight /\ Store!End(r) /\ begun[r] = seen[r]
    BY <1>6, Ended DEF CommitDelete, InFlight, Answers, begun
  <2>2. body[r] \in Bodies /\ ~Refuses(body[r], seen[r]) /\ body[r].kind = "delete"
    BY <1>6, <2>1 DEF CommitDelete, TInv, Carried, InFlight, Is
  <2>3. ~RaisesEarly(body[r]) /\ ~RaisesLate(body[r])
    BY <2>2 DEF RaisesEarly, RaisesLate
  <2>4. present \in BOOLEAN
    BY DEF TInv, TypeOK
  <2>5. CASE present /\ holder = r
    <3>1. events = <<>> /\ present' = FALSE /\ UNCHANGED <<match, events>>
      BY <1>6, <2>5 DEF CommitDelete, DInv, Excluded
    <3> QED
      BY <2>1, <2>2, <2>3, <2>5, <3>1, StoreRefuses DEF Store!Remove, Store!Effect, begun
  <2>6. CASE ~(present /\ holder = r)
    BY <1>6, <2>1, <2>4, <2>6 DEF CommitDelete, Store!Drop
  <2> QED
    BY <2>5, <2>6
<1>7. CASE UNCHANGED vars
  BY <1>7 DEF vars, db, Store!vars
<1> QED
  BY <1>1, <1>2, <1>3, <1>4, <1>5, <1>6, <1>7 DEF Next, Handle, AllAnswered, Store!Next

\* What is committed for a match goes through whole requests only, each computed
\* from the row it loaded: none is half applied, none takes effect when it was
\* refused or raised, whatever interleaves and whatever is aborted (get_db).
THEOREM RequestsImplementStore == Spec => ImplementsStore
<1> QED
  BY InitRefines, InitTInv, StepTInv, InitOInv, StepOInv, InitDInv, StepDInv, StepRefines, PTL
     DEF Spec, ImplementsStore, Store!Spec
-----------------------------------------------------------------------------
\* Why one connection makes the handlers serial.  The pool lets one request in
\* at a time, so the row it loaded stays the newest, the number it counted stays
\* the next, and a deletion that went through its checks keeps what it checked.
SerialPool == PoolSize = 1 /\ IsFiniteSet(Req) /\ StartRows \subseteq {NewMatch}

Alone == \A q, r \in Req : pc[q] \in InFlight /\ pc[r] \in InFlight => q = r
Current == \A r \in Req : pc[r] \in InFlight => present /\ seen[r] = match
NumberIsNext == \A r \in Req : pc[r] \in {"counted", "inserted"} => seqno[r] = Len(events) + 1
DeletionHolds ==
  \A r \in Req : pc[r] = "written" /\ Is(r, "delete") => holder = r /\ events = <<>>
\* Each event is of a request answered, so the requests bound the events.
EventsServed ==
  Len(events) = Cardinality({q \in Req : pc[q] = "ok" /\ Is(q, "event")})

SInv == Alone /\ Current /\ NumberIsNext /\ DeletionHolds /\ EventsServed

LEMMA InitSInv == Init => SInv
<1> SUFFICES ASSUME Init PROVE SInv
  OBVIOUS
<1>1. {q \in Req : pc[q] = "ok" /\ Is(q, "event")} = {}
  BY DEF Init
<1>2. EventsServed
  BY <1>1, FS_EmptySet DEF Init, EventsServed
<1> QED
  BY <1>2 DEF Init, SInv, Alone, Current, NumberIsNext, DeletionHolds, InFlight

\* A request that gets its connection finds the pool empty.
LEMMA PoolIsFree ==
  ASSUME SerialPool, ~PoolFull
  PROVE  \A q \in Req : pc[q] \notin InFlight
<1> DEFINE S == {q \in Req : pc[q] \in InFlight}
<1>1. IsFiniteSet(S)
  BY FS_Subset DEF SerialPool
<1>2. Cardinality(S) \in Nat /\ ~(Cardinality(S) >= 1)
  BY <1>1, FS_CardinalityType DEF SerialPool, PoolFull
<1>3. Cardinality(S) = 0
  BY <1>2
<1>4. S = {}
  BY <1>1, <1>3, FS_EmptySet
<1> QED
  BY <1>4

\* A step that answers no event keeps the events counted.
LEMMA KeepServed ==
  ASSUME TInv, EventsServed, UNCHANGED events,
         \A q \in Req : pc'[q] = "ok" /\ Is(q, "event")' <=> pc[q] = "ok" /\ Is(q, "event")
  PROVE  EventsServed'
<1>1. {q \in Req : pc[q] = "ok" /\ Is(q, "event")}'
        = {q \in Req : pc[q] = "ok" /\ Is(q, "event")}
  OBVIOUS
<1> QED
  BY <1>1 DEF EventsServed

\* An event committed is one more, and there is a request for it.
LEMMA OneMoreServed ==
  ASSUME SerialPool, TInv, EventsServed, NEW r \in Req, CommitEvent(r)
  PROVE  EventsServed' /\ Len(events) < Cardinality(Req)
<1> DEFINE S == {q \in Req : pc[q] = "ok" /\ Is(q, "event")}
           T == {q \in Req : pc'[q] = "ok" /\ Is(q, "event")'}
<1>1. T = S \cup {r} /\ r \notin S
  <2>1. pc[r] = "inserted" /\ Is(r, "event") /\ Goto(r, "ok") /\ UNCHANGED body
    BY DEF CommitEvent, TInv, Carried
  <2>2. \A q \in Req : pc'[q] = IF q = r THEN "ok" ELSE pc[q]
    BY <2>1 DEF Goto, TInv, TypeOK
  <2> QED
    BY <2>1, <2>2 DEF Is
<1>2. S \subseteq Req /\ T \subseteq Req
  OBVIOUS
<1>3. IsFiniteSet(S) /\ IsFiniteSet(T) /\ Cardinality(T) <= Cardinality(Req)
  BY <1>2, FS_Subset DEF SerialPool
<1>4. Cardinality(T) = Cardinality(S) + 1
  BY <1>1, <1>3, FS_AddElement
<1>5. Cardinality(S) \in Nat /\ Cardinality(Req) \in Nat
  BY <1>3, FS_CardinalityType DEF SerialPool
<1>6. Len(events) = Cardinality(S)
  BY DEF EventsServed
<1>7. Len(events') = Len(events) + 1
  BY DEF CommitEvent, TInv, TypeOK
<1>8. EventsServed'
  <2>1. Len(events') = Cardinality(T)
    BY <1>4, <1>6, <1>7
  <2> QED
    BY <2>1 DEF EventsServed
<1>9. Cardinality(S) < Cardinality(Req)
  BY <1>3, <1>4, <1>5
<1> QED
  BY <1>6, <1>8, <1>9
\* The steps of a request that has its connection: it is the only one, so what
\* the others are at, idle or answered, asks nothing of the row.
LEMMA OthersAreOut ==
  ASSUME TInv, Alone, NEW r \in Req, pc[r] \in InFlight, NEW l, Goto(r, l)
  PROVE  /\ pc'[r] = l
         /\ \A q \in Req \ {r} : pc'[q] = pc[q] /\ pc[q] \notin InFlight
  BY DEF Goto, TInv, TypeOK, Alone

LEMMA StepSInv == SerialPool /\ TInv /\ SInv /\ [Next]_vars => SInv'
<1> SUFFICES ASSUME SerialPool, TInv, SInv, [Next]_vars PROVE SInv'
  OBVIOUS
<1>1. ASSUME NEW r \in Req, Arrive(r) \/ PoolTimeout(r) PROVE SInv'
  <2>1. UNCHANGED <<match, present, events, seen, seqno, holder>>
    BY <1>1 DEF Arrive, PoolTimeout, db
  <2>2. /\ pc'[r] \in {"queued", "error"} /\ pc[r] \in {"idle", "queued"}
        /\ \A q \in Req \ {r} : pc'[q] = pc[q] /\ body'[q] = body[q]
    BY <1>1 DEF Arrive, PoolTimeout, Goto, TInv, TypeOK
  <2>3. EventsServed'
    <3>1. \A q \in Req : pc'[q] = "ok" /\ Is(q, "event")' <=> pc[q] = "ok" /\ Is(q, "event")
      BY <2>2 DEF Is
    <3> QED
      BY <2>1, <3>1, KeepServed DEF SInv
  <2> QED
    BY <2>1, <2>2, <2>3 DEF SInv, Alone, Current, NumberIsNext, DeletionHolds, Is, InFlight
<1>2. ASSUME NEW r \in Req, Load(r) PROVE SInv'
  <2>1. UNCHANGED <<match, present, events, body, seqno, holder>> /\ pc[r] = "queued"
    BY <1>2 DEF Load, db
  <2>2. \A q \in Req : pc[q] \notin InFlight
    BY <1>2, PoolIsFree DEF Load
  <2>3. /\ \/ pc'[r] \in {"error", "not_found", "conflict"}
           \/ pc'[r] = "loaded" /\ present /\ seen'[r] = match
        /\ \A q \in Req \ {r} : pc'[q] = pc[q]
    <3>1. PICK l \in {"error", "not_found", "conflict", "loaded"} :
            Goto(r, l) /\ (l = "loaded" => present /\ seen' = [seen EXCEPT ![r] = match])
      BY <1>2 DEF Load
    <3>2. pc'[r] = l /\ \A q \in Req \ {r} : pc'[q] = pc[q]
      BY <3>1 DEF Goto, TInv, TypeOK
    <3>3. l = "loaded" => present /\ seen'[r] = match
      BY <3>1 DEF TInv, TypeOK
    <3> QED
      BY <3>1, <3>2, <3>3
  <2>4. EventsServed'
    <3>1. \A q \in Req : pc'[q] = "ok" /\ Is(q, "event")' <=> pc[q] = "ok" /\ Is(q, "event")
      BY <2>1, <2>3 DEF Is
    <3> QED
      BY <2>1, <3>1, KeepServed DEF SInv
  <2> QED
    BY <2>1, <2>2, <2>3, <2>4
       DEF SInv, Alone, Current, NumberIsNext, DeletionHolds, Is, InFlight
<1>3. ASSUME NEW r \in Req, Flush(r) \/ FlushNothing(r) \/ FlushDelete(r) \/ Count(r)
                            \/ Insert(r) \/ Raise(r) \/ Abort(r)
      PROVE  SInv'
  <2>1. UNCHANGED <<match, present, events, body, seen>> /\ pc[r] \in InFlight
    BY <1>3 DEF Flush, FlushNothing, FlushDelete, Count, Insert, Raise, Abort, db, InFlight
  <2>2. PICK l \in {"written", "counted", "inserted", "error", "conflict"} : Goto(r, l)
    BY <1>3 DEF Flush, FlushNothing, FlushDelete, Count, Insert, Raise, Abort
  <2>3. pc'[r] = l /\ \A q \in Req \ {r} : pc'[q] = pc[q] /\ pc[q] \notin InFlight
    BY <2>1, <2>2, OthersAreOut DEF SInv
  <2>4. EventsServed'
    <3>1. \A q \in Req : pc'[q] = "ok" /\ Is(q, "event")' <=> pc[q] = "ok" /\ Is(q, "event")
      BY <2>1, <2>3 DEF Is, InFlight
    <3> QED
      BY <2>1, <3>1, KeepServed DEF SInv
  <2>5. Alone' /\ Current'
    BY <2>1, <2>3 DEF SInv, Alone, Current, InFlight
  <2>6. NumberIsNext'
    <3>1. l \in {"counted", "inserted"} => seqno'[r] = Len(events) + 1
      <4>1. l = "counted" => Count(r)
        BY <1>3, <2>3 DEF Flush, FlushNothing, FlushDelete, Insert, Raise, Abort, Goto,
           TInv, TypeOK
      <4>2. l = "inserted" => Insert(r)
        BY <1>3, <2>3 DEF Flush, FlushNothing, FlushDelete, Count, Raise, Abort, Goto,
           TInv, TypeOK
      <4>3. Count(r) => seqno'[r] = Len(events) + 1
        BY DEF Count, _next_event_sequence, TInv, TypeOK
      <4>4. Insert(r) => seqno'[r] = Len(events) + 1
        BY DEF Insert, SInv, NumberIsNext
      <4> QED
        BY <2>2, <4>1, <4>2, <4>3, <4>4
    <3> QED
      BY <2>1, <2>3, <3>1 DEF NumberIsNext, InFlight
  <2>7. DeletionHolds'
    <3>1. l = "written" /\ Is(r, "delete") => FlushDelete(r)
      BY <1>3, <2>3 DEF Flush, FlushNothing, Count, Insert, Raise, Abort, Goto, TInv, TypeOK
    <3>2. l = "written" /\ FlushDelete(r) => holder' = r /\ events = <<>>
      BY <2>1, <2>3 DEF FlushDelete, SInv, Current, Goto, TInv, TypeOK
    <3> QED
      BY <2>1, <2>3, <3>1, <3>2 DEF DeletionHolds, Is, InFlight
  <2> QED
    BY <2>4, <2>5, <2>6, <2>7 DEF SInv
<1>4. ASSUME NEW r \in Req, CommitRow(r) \/ CommitEvent(r) \/ CommitDelete(r) PROVE SInv'
  <2>1. pc[r] \in InFlight /\ UNCHANGED body
    BY <1>4 DEF CommitRow, CommitEvent, CommitDelete, InFlight
  <2>2. PICK l \in {"ok", "not_found"} : Goto(r, l)
    BY <1>4 DEF CommitRow, CommitEvent, CommitDelete
  <2>3. pc'[r] = l /\ \A q \in Req \ {r} : pc'[q] = pc[q] /\ pc[q] \notin InFlight
    BY <2>1, <2>2, OthersAreOut DEF SInv
  <2>4. EventsServed'
    <3>1. CASE CommitEvent(r)
      BY <3>1, OneMoreServed DEF SInv
    <3>2. CASE CommitRow(r) \/ CommitDelete(r)
      <4>1. ~Is(r, "event") /\ UNCHANGED events
        BY <3>2 DEF CommitRow, CommitDelete, Is
      <4>2. \A q \in Req : pc'[q] = "ok" /\ Is(q, "event")' <=> pc[q] = "ok" /\ Is(q, "event")
        BY <2>1, <2>3, <4>1 DEF Is
      <4> QED
        BY <4>1, <4>2, KeepServed DEF SInv
    <3> QED
      BY <1>4, <3>1, <3>2
  <2> QED
    BY <2>3, <2>4 DEF SInv, Alone, Current, NumberIsNext, DeletionHolds, InFlight
<1>5. CASE UNCHANGED vars
  <2>1. EventsServed'
    BY <1>5, KeepServed DEF vars, db, SInv, Is
  <2> QED
    BY <1>5, <2>1 DEF vars, db, SInv, Alone, Current, NumberIsNext, DeletionHolds, Is
<1> QED
  BY <1>1, <1>2, <1>3, <1>4, <1>5 DEF Next, Handle, AllAnswered
-----------------------------------------------------------------------------
\* MatchLifecycle reads the row by the same operators of MatchRow.
LEMMA SerialReads ==
  ASSUME NEW b, NEW m
  PROVE  /\ Serial!Refuses(b, m) <=> Refuses(b, m)
         /\ Serial!RaisesEarly(b) <=> RaisesEarly(b)
         /\ Serial!RaisesLate(b) <=> RaisesLate(b)
         /\ Serial!Audited(b, m) = Audited(b, m)
         /\ Serial!ByHand(b) = ByHand(b)
<1>1. /\ Serial!Refuses(b, m) <=> Refuses(b, m)
      /\ Serial!RaisesEarly(b) <=> RaisesEarly(b)
      /\ Serial!RaisesLate(b) <=> RaisesLate(b)
  BY DEF Refuses, _set_status_refuses, _validate_event_refuses, finished_statuses, Side,
     RaisesEarly, RaisesLate, Serial!Refuses, Serial!_set_status_refuses,
     Serial!_validate_event_refuses, Serial!finished_statuses, Serial!Side,
     Serial!RaisesEarly, Serial!RaisesLate
<1>2. Serial!Audited(b, m) = Audited(b, m)
  BY DEF Audited, Entry, StatusKind, Corrects, Published, Serial!Audited, Serial!Entry,
     Serial!StatusKind, Serial!Corrects, Serial!Published
<1>3. Serial!ByHand(b) = ByHand(b)
  BY DEF ByHand, Entry, Serial!ByHand, Serial!Entry
<1> QED
  BY <1>1, <1>2, <1>3

\* What it stores for each kind of request is what After dispatches to.
LEMMA SerialStores ==
  ASSUME NEW b, NEW m
  PROVE  /\ b.kind = "start" => After(b, m) = Serial!start_match(m)
         /\ b.kind = "half_time" => After(b, m) = Serial!set_half_time(m)
         /\ b.kind = "second_half" => After(b, m) = Serial!set_second_half(m)
         /\ b.kind = "extra_time" => After(b, m) = Serial!set_extra_time(m)
         /\ b.kind = "penalties" => After(b, m) = Serial!set_penalties(m)
         /\ b.kind = "full_time" => After(b, m) = Serial!set_full_time(m)
         /\ b.kind = "postponed" => After(b, m) = Serial!set_postponed(m)
         /\ b.kind = "cancelled" => After(b, m) = Serial!set_cancelled(m)
         /\ b.kind = "abandoned" => After(b, m) = Serial!set_abandoned(m)
         /\ b.kind = "walkover" => After(b, m) = Serial!set_walkover(m, b.team)
         /\ b.kind = "minute" => After(b, m) = Serial!sync_minute(m, b)
         /\ b.kind = "hydration" => After(b, m) = Serial!set_hydration_break(m, b.active)
         /\ b.kind = "result_only" => After(b, m) = Serial!submit_result_only(m, b)
         /\ b.kind = "event" => After(b, m) = Serial!record_event(m, b)
         /\ b.kind = "dispute" => After(b, m) = Serial!dispute_match(m)
         /\ b.kind = "resolve" => After(b, m) = Serial!resolve_dispute(m, b)
         /\ b.kind = "patch" => After(b, m) = Serial!update_match(m, b)
  BY DEF After, start_match, set_half_time, set_second_half, set_extra_time, set_penalties,
     set_full_time, set_postponed, set_cancelled, set_abandoned, set_walkover, sync_minute,
     set_hydration_break, submit_result_only, record_event, dispute_match,
     resolve_dispute, update_match, SetStatus, Clamp, MaxMinute, Published,
     Corrects, Scores, SCORE_EVENT_TYPES, Given,
     Serial!start_match, Serial!set_half_time, Serial!set_second_half,
     Serial!set_extra_time, Serial!set_penalties, Serial!set_full_time,
     Serial!set_postponed, Serial!set_cancelled, Serial!set_abandoned,
     Serial!set_walkover, Serial!sync_minute, Serial!set_hydration_break,
     Serial!submit_result_only, Serial!record_event, Serial!dispute_match,
     Serial!resolve_dispute, Serial!update_match, Serial!SetStatus, Serial!Clamp,
     Serial!MaxMinute, Serial!Published, Serial!Corrects, Serial!Scores,
     Serial!SCORE_EVENT_TYPES, Serial!Given

\* Written over the row it was computed from, a row arrives whole: the columns
\* left out of the UPDATE hold the value they should.
LEMMA StoredWhole ==
  ASSUME NEW b \in Body, NEW m \in Row
  PROVE  Stored(b, m, m) = After(b, m)
<1> DEFINE a == After(b, m)
<1>1. a \in Row
  BY AfterType
<1> HIDE DEF a
<1>2. Merged(m, a, m) = a
  BY <1>1 DEF Merged, Row
<1>3. Stamps(b) => a.hydration = TRUE
  BY DEF a, Stamps, After, set_hydration_break, Row
<1>4. [a EXCEPT !.hydration = a.hydration] = a
  BY <1>1 DEF Row
<1> QED
  BY <1>2, <1>3, <1>4 DEF Stored, a

LEMMA InitSerial == SerialPool /\ Init => Serial!Init
  BY DEF SerialPool, Init, Serial!Init, NewMatch, Serial!NewMatch

LEMMA CommitRowSerial ==
  ASSUME TInv, SInv, NEW r \in Req, CommitRow(r)
  PROVE  Serial!Next
<1> DEFINE b == body[r]
<1>1. /\ pc[r] \in InFlight /\ b \in Bodies /\ b \in Body /\ match \in Row
      /\ present /\ seen[r] = match /\ ~Refuses(b, match) /\ ~RaisesEarly(b)
  BY BodiesAreBodies DEF CommitRow, InFlight, TInv, TypeOK, Carried, SInv, Current
<1>2. b.kind \notin {"event", "delete", "add_time", "batch"}
  BY <1>1 DEF CommitRow, Is, RaisesLate, RaisesEarly
<1>3. Serial!Store(b, After(b, match)) /\ UNCHANGED events
  <2>1. match' = After(b, match)
    BY <1>1, StoredWhole DEF CommitRow
  <2> QED
    BY <1>1, <2>1, SerialReads DEF CommitRow, Serial!Store
<1>4. b.kind \in PlainKind \cup {"start", "walkover", "minute", "hydration", "add_time",
                                 "result_only", "event", "resolve", "patch"}
  BY <1>1 DEF Body
<1> HIDE DEF b
<1>5. \/ Serial!StartMatch(b) \/ Serial!HalfTime(b) \/ Serial!SecondHalf(b)
      \/ Serial!ExtraTime(b) \/ Serial!Penalties(b) \/ Serial!FullTime(b)
      \/ Serial!Postponed(b) \/ Serial!Cancelled(b) \/ Serial!Abandoned(b)
      \/ Serial!Walkover(b) \/ Serial!SyncMinute(b) \/ Serial!HydrationBreak(b)
      \/ Serial!ResultOnly(b) \/ Serial!DisputeMatch(b) \/ Serial!ResolveDispute(b)
      \/ Serial!UpdateMatch(b)
  BY <1>2, <1>3, <1>4, SerialStores DEF PlainKind, Serial!StartMatch, Serial!HalfTime,
     Serial!SecondHalf, Serial!ExtraTime, Serial!Penalties, Serial!FullTime,
     Serial!Postponed, Serial!Cancelled, Serial!Abandoned, Serial!Walkover,
     Serial!SyncMinute, Serial!HydrationBreak, Serial!ResultOnly, Serial!DisputeMatch,
     Serial!ResolveDispute, Serial!UpdateMatch
<1> QED
  BY <1>1, <1>5 DEF Serial!Next

LEMMA CommitEventSerial ==
  ASSUME SerialPool, TInv, SInv, NEW r \in Req, CommitEvent(r)
  PROVE  Serial!Next
<1> DEFINE b == body[r]
<1>1. /\ pc[r] \in InFlight /\ b \in Bodies /\ b \in Body /\ match \in Row /\ b.kind = "event"
      /\ present /\ seen[r] = match /\ ~Refuses(b, match) /\ ~RaisesEarly(b)
  BY BodiesAreBodies DEF CommitEvent, InFlight, TInv, TypeOK, Carried, SInv, Current, Is
<1>2. ~RaisesLate(b) /\ ByHand(b) = {}
  BY <1>1 DEF RaisesLate, ByHand, Entry
<1>3. match' = Serial!record_event(match, b)
  BY <1>1, StoredWhole, SerialStores DEF CommitEvent
<1>4. Len(events) < Cardinality(Req)
  BY OneMoreServed DEF SInv
<1>5. seqno[r] = Serial!_next_event_sequence
  BY DEF CommitEvent, SInv, NumberIsNext, Serial!_next_event_sequence
<1> HIDE DEF b
<1>6. Serial!Store(b, Serial!record_event(match, b))
  BY <1>1, <1>2, <1>3, SerialReads DEF CommitEvent, Serial!Store, b
<1>7. Serial!AddMatchEvent(b)
  BY <1>1, <1>4, <1>5, <1>6 DEF CommitEvent, Serial!AddMatchEvent, b
<1> QED
  BY <1>1, <1>7 DEF Serial!Next

LEMMA CommitDeleteSerial ==
  ASSUME TInv, SInv, NEW r \in Req, CommitDelete(r)
  PROVE  Serial!Next
<1>1. /\ body[r] \in Bodies /\ body[r].kind = "delete" /\ present /\ seen[r] = match
      /\ holder = r /\ events = <<>>
  BY DEF CommitDelete, InFlight, TInv, TypeOK, Carried, SInv, Current, DeletionHolds, Is
<1>2. Serial!DeleteMatch(body[r])
  BY <1>1, SerialReads DEF CommitDelete, Serial!DeleteMatch
<1> QED
  BY <1>1, <1>2 DEF Serial!Next

LEMMA StepSerial == SerialPool /\ TInv /\ SInv /\ [Next]_vars => [Serial!Next]_Serial!vars
<1> SUFFICES ASSUME SerialPool, TInv, SInv, [Next]_vars PROVE [Serial!Next]_Serial!vars
  OBVIOUS
<1>1. ASSUME NEW r \in Req, Arrive(r) \/ Load(r) \/ PoolTimeout(r) \/ Flush(r)
                            \/ FlushNothing(r) \/ FlushDelete(r) \/ Count(r) \/ Insert(r)
                            \/ Raise(r) \/ Abort(r)
      PROVE  UNCHANGED Serial!vars
  BY <1>1 DEF Arrive, Load, PoolTimeout, Flush, FlushNothing, FlushDelete, Count, Insert,
     Raise, Abort, db, Serial!vars
<1>2. CASE UNCHANGED vars
  BY <1>2 DEF vars, db, Serial!vars
<1> QED
  BY <1>1, <1>2, CommitRowSerial, CommitEventSerial, CommitDeleteSerial
     DEF Next, Handle, AllAnswered

\* With one connection, a new match and any finite number of requests, the
\* handlers taken apart are the handlers one at a time: every theorem about
\* MatchLifecycle holds there (get_db, database.py's pool).
THEOREM OneConnectionIsSerial ==
  ASSUME SerialPool PROVE Spec => ImplementsLifecycle
<1> QED
  BY InitSerial, InitTInv, StepTInv, InitSInv, StepSInv, StepSerial, PTL
     DEF Spec, ImplementsLifecycle, Serial!Spec
=============================================================================
