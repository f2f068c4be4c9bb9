----------------------- MODULE BackofficeEntriesProofs -----------------------
(***************************************************************************)
(* What the run fixtures checks of the requests that review reports, post  *)
(* articles, keep the tree of a competition and read its standings, and    *)
(* that all requests together implement the atomic store of RecordStore,   *)
(* proved for every set of requests, bodies and earlier rows.              *)
(***************************************************************************)
EXTENDS BackofficeStepsProofs

-----------------------------------------------------------------------------
(* Who writes a table. *)

\* The table of an updated, a deleted and a new row.
LEMMA EntityTables ==
  /\ \A k \in Updating : Entity[k] \notin {"moderation_items", "matches", "seasons", "stages"}
  /\ Entity["review_item"] = "moderation_items"
  /\ \A k \in Inserting \ {"record_event"} :
       /\ Entity[k] = "moderation_items" => k = "submit_report"
       /\ Entity[k] = "articles" => k = "create_article"
       /\ Entity[k] = "seasons" => k = "create_season"
  /\ \A k \in Deleting : Entity[k] = "seasons" => k = "delete_season"
  /\ Entity["delete_season"] = "seasons" /\ Entity["delete_stage"] = "stages"
  /\ Entity["delete_group"] = "groups" /\ Entity["create_season"] = "seasons"
  /\ Entity["create_stage"] = "stages" /\ Entity["create_group"] = "groups"
  /\ Entity["create_article"] = "articles" /\ Entity["submit_report"] = "moderation_items"
BY DEF Entity, Updating, Inserting, Deleting

\* The kinds that delete a row run that statement.
LEMMA DeletingRuns ==
  ASSUME NEW k \in Deleting
  PROVE  Runs(k, "delete")
<1>1. CASE k \in {"delete_competition", "delete_article"}
  <2>1. Handlers[k][1] = "delete" /\ 1 \in DOMAIN Handlers[k]
    BY <1>1 DEF Handlers, delete_competition, delete_article
  <2> QED
    BY <2>1 DEF Runs
<1>2. CASE k \in {"delete_match", "delete_player", "delete_team", "delete_season",
                  "delete_stage", "delete_group"}
  <2>1. Handlers[k][2] = "delete" /\ 2 \in DOMAIN Handlers[k]
    BY <1>2 DEF Handlers, delete_match, delete_player, delete_team, delete_season,
                delete_stage, delete_group
  <2> QED
    BY <2>1 DEF Runs
<1> QED
  BY <1>1, <1>2 DEF Deleting

\* A new report, article or season is its request's, and the one at hand.
LEMMA NewRows ==
  ASSUME NEW r \in Req, TypeInv, InsertionInv, NEW id \in DOMAIN req[r].new,
         NEW k \in {"submit_report", "create_article", "create_season"},
         req[r].new[id].table = Entity[k]
  PROVE  /\ Running(r) /\ Kind(r) = k /\ id = r /\ req[r].new[id] = req[r].row
         /\ InsertionOK(r) /\ req[r].todo = <<>>
<1> DEFINE q == req[r]
           b == req[r].body
<1>0. Entity[k] \in {"moderation_items", "articles", "seasons"}
  BY EntityTables
<1>1. Running(r) /\ RequestOK(r) /\ b # None /\ IsRequest(b)
  BY DEF TypeInv, RequestOK, Running, Idle, Body
<1>2. b.kind \notin Filling
  <2>1. b.kind \in Filling =>
          b.kind \notin Inserting /\ b.sheet \in {"lineup_entries", "match_statistics"}
    BY <1>1, SheetKind, Kinds
  <2> QED
    BY <1>0, <1>1, <2>1 DEF RequestOK
<1>3. b.kind \in Inserting /\ id = r
  BY <1>1, <1>2 DEF RequestOK
<1>4. InsertionOK(r) /\ Kind(r) = b.kind /\ Body(r) = b
  BY <1>1, <1>3 DEF InsertionInv, Kind, Body
<1>5. q.new[id] = q.row /\ q.todo = <<>>
  BY <1>4 DEF InsertionOK
<1>6. b.row.table = IF b.kind = "record_event" THEN "match_events" ELSE Entity[b.kind]
  BY <1>1, <1>3, InsertingRuns DEF IsRequest
<1>7. b.kind # "record_event"
  <2>1. b.kind = "record_event" => q.row = b.row
    BY <1>4, <1>5 DEF InsertionOK
  <2> QED
    BY <1>0, <1>5, <1>6, <2>1
<1>8. b.kind = k
  <2>1. CASE q.row = b.row
    <3>1. Entity[b.kind] = Entity[k]
      BY <1>5, <1>6, <1>7, <2>1
    <3> QED
      BY <1>3, <1>7, <3>1, EntityTables
  <2>2. CASE b.kind = "create_article" /\ q.row.table = "articles"
    BY <1>3, <1>5, <1>7, <2>2, EntityTables
  <2> QED
    BY <1>4, <1>7, <2>1, <2>2 DEF InsertionOK
<1> QED
  BY <1>1, <1>3, <1>4, <1>5, <1>8

-----------------------------------------------------------------------------
(* Reports.  A report that is decided is never open again, and an open one has no *)
(* reviewer; a review that found it open writes its whole decision.               *)

Loaders == Updating \cup {"review_item"}
\* What the request loaded is a row of its kind's table, as long as it is there.
Loaded(r) ==
  Settled(Body(r).id) /\ (Body(r).id \in DOMAIN rows => rows[Body(r).id].table = Entity[Kind(r)])
LoadedOK(r) == (req[r].todo # <<>> /\ Head(req[r].todo) = "get") \/ Loaded(r)

\* What a review knows of its report.
Known(r) ==
  IF req[r].row.status = "open" THEN IsOpen(req[r].row)
  ELSE Body(r).id \in DOMAIN rows => rows[Body(r).id].status # "open"
\* What it has written there.
Reviewed(r) ==
  /\ \A x \in Updated(r) : req[r].set[x] = Dirty(r, Decision(r))
  /\ req[r].row.status = "open" => Body(r).id \in Updated(r)
ReviewOK(r) ==
  \/ req[r].todo = <<"get", "review">>
  \/ req[r].todo = <<"review">> /\ Known(r)
  \/ req[r].todo = <<>> /\ Known(r) /\ Reviewed(r)

OpenInv ==
  \A x \in DOMAIN rows :
    rows[x].table = "moderation_items" /\ rows[x].status = "open" => IsOpen(rows[x])
ReportInv ==
  /\ OpenInv
  /\ \A r \in Req : Running(r) /\ Kind(r) \in Loaders => LoadedOK(r)
  /\ \A r \in Req : Running(r) /\ Kind(r) = "review_item" => ReviewOK(r)

\* Only a decision is written over a report.
LEMMA DecisionCommits ==
  ASSUME NEW r \in Req, TypeInv, ReportInv, Commits(r), NEW x \in Updated(r) \cap DOMAIN rows,
         rows[x].table = "moderation_items"
  PROVE  With(rows[x], req[r].set[x]).status # "open"
<1> DEFINE q == req[r]
           b == Body(r)
<1>1. /\ Running(r) /\ q.todo = <<>> /\ RequestOK(r) /\ b # None /\ IsRequest(b)
      /\ Whole(rows[x])
  BY DEF Commits, TypeInv, RowsOK, RequestOK, Running, Idle, Body
<1>2. x = b.id /\ Kind(r) \in Loaders
  BY <1>1 DEF RequestOK, Updated, Loaders, Kind, Body
<1>3. Kind(r) = "review_item"
  <2>1. Loaded(r)
    BY <1>1, <1>2 DEF ReportInv, LoadedOK
  <2> QED
    BY <1>2, <2>1, EntityTables DEF Loaded, Loaders
<1>4. Known(r) /\ Reviewed(r)
  BY <1>1, <1>3, Tails DEF ReportInv, ReviewOK
<1>5. b.status # "open" /\ "status" \in DOMAIN rows[x]
  BY <1>1, <1>3 DEF IsRequest, Kind, Body, Whole
<1>6. q.set[x] = Dirty(r, Decision(r))
  BY <1>4 DEF Reviewed
<1>7. CASE b.status # q.row.status
  <2>1. "status" \in DOMAIN q.set[x] /\ q.set[x].status = b.status
    BY <1>6, <1>7 DEF Dirty, Decision
  <2> QED
    BY <1>5, <2>1 DEF With
<1>8. CASE b.status = q.row.status
  <2>1. "status" \notin DOMAIN q.set[x]
    BY <1>6, <1>8 DEF Dirty, Decision
  <2>2. rows[x].status # "open"
    BY <1>2, <1>4, <1>5, <1>8 DEF Known
  <2> QED
    BY <1>5, <2>1, <2>2 DEF With
<1> QED
  BY <1>7, <1>8

\* A report is new, or was one already; then it is as it was or decided.
LEMMA ReportSteps ==
  ASSUME TypeInv, InsertionInv, ReportInv, [Next]_vars, NEW x \in DOMAIN rows',
         rows'[x].table = "moderation_items"
  PROVE  \/ x \notin DOMAIN rows /\ IsOpen(rows'[x])
         \/ /\ x \in DOMAIN rows /\ rows[x].table = "moderation_items"
            /\ rows'[x] = rows[x] \/ rows'[x].status # "open"
<1>1. ASSUME NEW r \in Req, Commits(r), x \in DOMAIN req[r].new
      PROVE  x \notin DOMAIN rows /\ IsOpen(rows'[x])
  <2>1. x \notin DOMAIN rows /\ rows'[x] = req[r].new[x]
    BY <1>1 DEF Commits, Committed
  <2>2. Kind(r) = "submit_report" /\ req[r].new[x] = req[r].row /\ InsertionOK(r)
    BY <1>1, <2>1, NewRows, EntityTables
  <2>3. req[r].row = Body(r).row /\ IsRequest(Body(r))
    BY <1>1, <2>2 DEF InsertionOK, TypeInv, RequestOK, Commits, Running, Idle, Body
  <2> QED
    BY <2>1, <2>2, <2>3 DEF IsRequest, Kind, Body
<1>2. ASSUME NEW r \in Req, Commits(r), x \notin DOMAIN req[r].new
      PROVE  /\ x \in DOMAIN rows /\ rows[x].table = "moderation_items"
             /\ rows'[x] = rows[x] \/ rows'[x].status # "open"
  <2>1. x \in DOMAIN rows \ req[r].gone
    BY <1>2 DEF Commits, Committed
  <2>2. rows[x].table = "moderation_items"
    BY <1>2, <2>1, TablesKept
  <2>3. rows'[x] = IF x \in Updated(r) THEN With(rows[x], req[r].set[x]) ELSE rows[x]
    BY <1>2, <2>1 DEF Commits, Committed
  <2> QED
    BY <1>2, <2>1, <2>2, <2>3, DecisionCommits
<1> QED
  BY <1>1, <1>2, Steps DEF vars, Alone, Outcome

\* What is loaded stays the row of its kind.
LEMMA LoadedStays ==
  ASSUME TypeInv, [Next]_vars, NEW r \in Req, Body(r)' = Body(r), Loaded(r)
  PROVE  Loaded(r)'
<1>1. Settled(Body(r).id)' /\ (Body(r).id \in DOMAIN rows' => Body(r).id \in DOMAIN rows)
  BY SettledRows DEF Loaded
<1>2. Body(r).id \in DOMAIN rows' => rows'[Body(r).id].table = Entity[Kind(r)]
  BY <1>1, RowsKept DEF Loaded
<1>3. Kind(r)' = Kind(r)
  BY DEF Kind, Body
<1> QED
  BY <1>1, <1>2, <1>3 DEF Loaded, Settled

\* What a review knows stays true.
LEMMA KnownStays ==
  ASSUME TypeInv, InsertionInv, ReportInv, [Next]_vars, NEW r \in Req, Kind(r) = "review_item",
         Body(r)' = Body(r), req'[r].row = req[r].row, Loaded(r), Known(r)
  PROVE  Known(r)'
<1> SUFFICES ASSUME req[r].row.status # "open", Body(r).id \in DOMAIN rows'
             PROVE  rows'[Body(r).id].status # "open"
  BY DEF Known, IsOpen
<1>1. Body(r).id \in DOMAIN rows
  BY SettledRows DEF Loaded
<1>2. rows[Body(r).id].table = "moderation_items"
  BY <1>1, EntityTables DEF Loaded
<1>3. rows'[Body(r).id].table = "moderation_items"
  BY <1>1, <1>2, RowsKept
<1> QED
  BY <1>1, <1>3, ReportSteps DEF Known

\* The steps of others leave a review what it knows and what it has written.
LEMMA ReviewStays ==
  ASSUME TypeInv, InsertionInv, ReportInv, [Next]_vars, NEW r \in Req, Running(r),
         req'[r] = req[r]
  PROVE  /\ Kind(r) \in Loaders => LoadedOK(r)'
         /\ Kind(r) = "review_item" => ReviewOK(r)'
<1>1. /\ Body(r)' = Body(r) /\ Updated(r)' = Updated(r)
      /\ Dirty(r, Decision(r))' = Dirty(r, Decision(r))
  BY DEF Body, Updated, Dirty, Decision
<1>2. Kind(r) \in Loaders => LoadedOK(r)'
  BY <1>1, LoadedStays DEF ReportInv, LoadedOK
<1>3. ASSUME Kind(r) = "review_item" PROVE ReviewOK(r)'
  <2>1. ReviewOK(r) /\ LoadedOK(r)
    BY <1>3 DEF ReportInv, Loaders
  <2>2. CASE req[r].todo = <<"get", "review">>
    BY <2>2 DEF ReviewOK
  <2>3. CASE req[r].todo \in {<<"review">>, <<>>}
    <3>1. Loaded(r) /\ Known(r)
      BY <2>1, <2>3, Tails DEF LoadedOK, ReviewOK
    <3>2. Known(r)'
      BY <1>1, <1>3, <3>1, KnownStays
    <3>3. Reviewed(r) => Reviewed(r)'
      BY <1>1 DEF Reviewed
    <3> QED
      BY <2>1, <2>3, <3>2, <3>3, Tails DEF ReviewOK
  <2> QED
    BY <2>1, <2>2, <2>3 DEF ReviewOK
<1> QED
  BY <1>2, <1>3

\* All that load a row start with that.
LEMMA ReviewStarts ==
  ASSUME NEW r \in Req, NEW b, Starts(r, b)
  PROVE  /\ b.kind \in Loaders => LoadedOK(r)'
         /\ b.kind = "review_item" => ReviewOK(r)'
<1>1. req'[r].todo = Handlers[b.kind] /\ b.kind \in DOMAIN Handlers
  BY DEF Starts, IsRequest
<1>2. b.kind \in Loaders => Handlers[b.kind] # <<>> /\ Head(Handlers[b.kind]) = "get"
  BY <1>1 DEF Loaders, Updating, Handlers, update_player, update_competition, update_group,
              update_team, update_article, review_item
<1>3. b.kind = "review_item" => Handlers[b.kind] = <<"get", "review">>
  BY DEF Handlers, review_item
<1> QED
  BY <1>1, <1>2, <1>3 DEF LoadedOK, ReviewOK

\* What it loads is a row of its table.
LEMMA LoadedWorks ==
  ASSUME TypeInv, [Next]_vars, NEW r \in Req, Works(r), Kind(r) \in Loaders, LoadedOK(r),
         Body(r)' = Body(r)
  PROVE  Loaded(r)'
<1> DEFINE q == req[r]
<1>1. CASE Loaded(r)
  BY <1>1, LoadedStays
<1>2. CASE Head(q.todo) = "get" /\ q.todo # <<>>
  <2>1. Get(r) /\ Running(r) /\ DOMAIN req = Req /\ rows' = rows /\ req'[r].status = 0
    BY <1>2, AtStatement DEF Works, TypeInv, RowsOK, Goes, Alone
  <2>2. ~Answer(r, 404)
    BY <2>1, AnswerEnds DEF Ends, Codes
  <2>3. Body(r).id \in Table(Body(r).table)
    BY <2>1, <2>2 DEF Get
  <2>4. Body(r).table = Entity[Kind(r)]
    <3>1. IsRequest(Body(r))
      BY <2>1 DEF TypeInv, RequestOK, Running, Idle, Body
    <3>2. Handlers[Kind(r)][1] = "get" /\ 1 \in DOMAIN Handlers[Kind(r)]
      BY DEF Loaders, Updating, Handlers, update_player, update_competition, update_group,
             update_team, update_article, review_item
    <3> QED
      BY <3>1, <3>2 DEF IsRequest, Runs, Kind, Body
  <2>5. Loaded(r)
    BY <2>3, <2>4, RowsSettled DEF Loaded, Table, TypeInv
  <2> QED
    BY <2>5, LoadedStays
<1> QED
  BY <1>1, <1>2 DEF LoadedOK

\* A review loads its report, and writes what it decides.
LEMMA ReviewWorks ==
  ASSUME TypeInv, InsertionInv, ReportInv, [Next]_vars, NEW r \in Req, Works(r),
         Kind(r) = "review_item", ReviewOK(r), LoadedOK(r), Body(r)' = Body(r)
  PROVE  ReviewOK(r)'
<1> DEFINE q == req[r]
           s == req'[r]
           id == Body(r).id
<1>1. /\ DOMAIN req = Req /\ DOMAIN q = Fields /\ Running(r) /\ q.todo # <<>> /\ rows' = rows
      /\ s.status = 0 /\ OpenInv /\ IsRequest(Body(r)) /\ Body(r) # None
  BY DEF TypeInv, RowsOK, RequestOK, Works, Goes, Alone, ReportInv, Running, Idle, Body
<1>2. \A code \in {404, InternalError} : ~Answer(r, code)
  <2>1. \A code \in {404, InternalError} : code \in Codes \ {0}
    BY DEF Codes, InternalError
  <2> QED
    BY <1>1, <2>1, AnswerEnds DEF Ends
<1>3. CASE q.todo = <<"get", "review">>
  <2>1. Get(r)
    BY <1>3, AtStatement, Tails DEF Works
  <2>2. id \in Table(Body(r).table) /\ s.row = rows[id] /\ s.todo = <<"review">>
    BY <1>1, <1>2, <1>3, <2>1, Tails DEF Get, Fields
  <2>3. Body(r).table = "moderation_items"
    <3>1. Handlers["review_item"][1] = "get" /\ 1 \in DOMAIN Handlers["review_item"]
      BY DEF Handlers, review_item
    <3> QED
      BY <1>1, <3>1, EntityTables DEF IsRequest, Runs, Kind, Body
  <2>4. Known(r)'
    BY <1>1, <2>2, <2>3 DEF Known, OpenInv, Table, IsOpen
  <2> QED
    BY <2>2, <2>4 DEF ReviewOK
<1>4. CASE q.todo = <<"review">> /\ Known(r)
  <2>1. Review(r)
    BY <1>4, AtStatement, Tails DEF Works
  <2>2. Loaded(r)
    BY <1>4, Tails DEF LoadedOK
  <2>3. Change(r, Decision(r))
    BY <2>1 DEF Review
  <2>4. DOMAIN q.set = {}
    <3>1. q.todo # <<>> /\ Head(q.todo) = "review"
      BY <1>4, Tails
    <3> QED
      BY <3>1 DEF TypeInv, RequestOK
  <2>5. CASE DOMAIN Dirty(r, Decision(r)) = {} /\ Proceed(r)
    <3>1. s.row = q.row /\ s.set = q.set /\ s.todo = <<>> /\ s.body = q.body
      BY <1>1, <1>4, <2>5, Tails DEF Proceed, Fields
    <3>2. q.row.status # "open"
      <4>1. Body(r).status # "open"
        BY <1>1 DEF IsRequest, Kind, Body
      <4>2. q.row.status = "open" => "status" \in DOMAIN Dirty(r, Decision(r))
        BY <4>1 DEF Dirty, Decision
      <4> QED
        BY <2>5, <4>2
    <3>3. Reviewed(r)'
      BY <2>4, <3>1, <3>2 DEF Reviewed, Updated
    <3>4. Known(r)'
      BY <1>4, <2>2, <3>1, KnownStays
    <3> QED
      BY <3>1, <3>3, <3>4 DEF ReviewOK
  <2>6. CASE req' = [req EXCEPT ![r].todo = Tail(@),
                                ![r].set = [x \in {id} |-> Dirty(r, Decision(r))]]
    <3>1. /\ s.row = q.row /\ s.todo = <<>> /\ s.body = q.body
          /\ s.set = [x \in {id} |-> Dirty(r, Decision(r))]
      BY <1>1, <1>4, <2>6, Tails DEF Fields
    <3>2. Dirty(r, Decision(r))' = Dirty(r, Decision(r))
      BY <3>1 DEF Dirty, Decision, Body
    <3>3. Reviewed(r)'
      BY <3>1, <3>2 DEF Reviewed, Updated
    <3>4. Known(r)'
      BY <1>4, <2>2, <3>1, KnownStays
    <3> QED
      BY <3>1, <3>3, <3>4 DEF ReviewOK
  <2> QED
    BY <1>2, <2>3, <2>5, <2>6 DEF Change
<1>5. CASE q.todo = <<>>
  BY <1>1, <1>5
<1> QED
  BY <1>3, <1>4, <1>5 DEF ReviewOK

\* No review runs at the start.
LEMMA ReportInit == Init => ReportInv
<1> SUFFICES ASSUME Init PROVE ReportInv
  OBVIOUS
<1>1. OpenInv
  BY ReportsAreWhole DEF Init, OpenInv
<1>2. \A r \in Req : ~Running(r)
  BY DEF Init, Blank, Running, Idle, Body
<1> QED
  BY <1>1, <1>2 DEF ReportInv

\* Every step keeps what the reports and their reviews are.
LEMMA ReportNext ==
  ASSUME TypeInv, InsertionInv, ReportInv, [Next]_vars
  PROVE  ReportInv'
<1>1. OpenInv'
  <2>1. SUFFICES ASSUME NEW x \in DOMAIN rows', rows'[x].table = "moderation_items",
                        rows'[x].status = "open"
                 PROVE  IsOpen(rows'[x])
    BY DEF OpenInv, IsOpen
  <2> QED
    BY <2>1, ReportSteps DEF ReportInv, OpenInv
<1>2. ASSUME NEW q \in Req, Running(q)'
      PROVE  /\ Kind(q)' \in Loaders => LoadedOK(q)'
             /\ Kind(q)' = "review_item" => ReviewOK(q)'
  <2>1. CASE Running(q) /\ req'[q] = req[q]
    BY <2>1, OthersKeep, ReviewStays
  <2>2. CASE Alone(q) /\ \E b : Starts(q, b) /\ Body(q)' = b
    <3>1. PICK b : Starts(q, b) /\ Body(q)' = b
      BY <2>2
    <3> QED
      BY <3>1, ReviewStarts DEF Kind, Body
  <2>3. CASE Works(q) /\ Running(q) /\ Body(q)' = Body(q)
    <3>1. Kind(q)' = Kind(q)
      BY <2>3 DEF Kind, Body
    <3>2. Kind(q) \in Loaders => LoadedOK(q)'
      BY <2>3, LoadedWorks DEF ReportInv, LoadedOK
    <3>3. Kind(q) = "review_item" => ReviewOK(q)'
      BY <2>3, ReviewWorks DEF ReportInv, Loaders
    <3> QED
      BY <3>1, <3>2, <3>3
  <2> QED
    BY <1>2, <2>1, <2>2, <2>3, Frame
<1> QED
  BY <1>1, <1>2 DEF ReportInv

\* A review that found its report open leaves it decided by itself alone.
LEMMA ReviewCommits ==
  ASSUME NEW r \in Req, TypeInv, LocksInv, ReportInv, Commits(r), Kind(r) = "review_item",
         req[r].row.status = "open"
  PROVE  IsDecidedBy(r)
<1> DEFINE q == req[r]
           b == Body(r)
           id == b.id
<1>1. /\ Running(r) /\ q.todo = <<>> /\ RequestOK(r) /\ b # None /\ IsRequest(b) /\ Committed(r)
  BY DEF Commits, TypeInv, RequestOK, Running, Idle, Body
<1>2. Known(r) /\ Reviewed(r) /\ Loaded(r)
  BY <1>1, Tails DEF ReportInv, ReviewOK, LoadedOK, Loaders
<1>3. IsOpen(q.row) /\ id \in Updated(r) /\ q.set[id] = Dirty(r, Decision(r))
  BY <1>2 DEF Known, Reviewed
<1>4. id \in DOMAIN rows /\ q.gone = {}
  <2>1. Kind(r) \notin Deleting \cup Filling \cup {"remove_favorite"}
    BY DEF Deleting, Filling
  <2>2. q.gone = {}
    BY <1>1, <2>1 DEF RequestOK, Kind, Body
  <2> QED
    BY <1>3, <2>2 DEF LocksInv, Locked
<1>5. {"status", "reviewer", "reviewed_at"} \subseteq DOMAIN rows[id]
  BY <1>2, <1>4, EntityTables DEF Loaded, TypeInv, RowsOK, Whole
<1>6. b.status # "open" /\ b.reviewer # None /\ r # None
  BY <1>1, IdsAreApart DEF IsRequest, Kind, Body
<1>7. q.set[id] = Decision(r)
  <2>1. DOMAIN Dirty(r, Decision(r)) = {"status", "reviewer", "reviewed_at"}
    BY <1>3, <1>6 DEF Dirty, Decision, IsOpen
  <2> QED
    BY <1>3, <2>1 DEF Dirty, Decision
<1>8. rows'[id] = With(rows[id], Decision(r))
  BY <1>1, <1>3, <1>4, <1>7 DEF Committed
<1>9. /\ rows'[id].status = b.status /\ rows'[id].reviewer = b.reviewer
      /\ rows'[id].reviewed_at = r
  BY <1>5, <1>8 DEF With, Decision
<1> QED
  BY <1>9 DEF IsDecidedBy

\* Several moderators who open a report at once never leave the decision of one under
\* the name of another.
THEOREM FirstReviewsAreWhole == Spec => FirstReviewWhole
<1> DEFINE A ==
      \A r \in Req :
        Accepted(r) /\ Kind(r) = "review_item" /\ req[r].row.status = "open" => IsDecidedBy(r)
<1>1. ASSUME TypeInv, LocksInv, ReportInv, [Next]_vars PROVE A
  BY <1>1, AcceptedCommits, ReviewCommits
<1>2. TypeInv /\ LocksInv /\ ReportInv /\ [Next]_vars => [A]_vars
  BY <1>1
<1>3. Init => TypeInv /\ LocksInv /\ InsertionInv /\ ReportInv
  BY TypeInit, LocksInit, InsertionInit, ReportInit
<1>4. TypeInv /\ LocksInv /\ InsertionInv /\ ReportInv /\ [Next]_vars
        => TypeInv' /\ LocksInv' /\ InsertionInv' /\ ReportInv'
  BY TypeNext, LocksNext, InsertionNext, ReportNext
<1> QED
  BY <1>2, <1>3, <1>4, PTL DEF Spec, FirstReviewWhole

-----------------------------------------------------------------------------
(* Articles.  A slug is a title, or a title with the name of its own article; so a *)
(* name that nobody else has makes a slug that nobody else has.                    *)

\* What the slug of the article x may be.
SlugOf(x, slug) == IsTitle(slug) \/ \E t : IsTitle(t) /\ slug = Append(t, x)
SlugsInv ==
  \A x \in DOMAIN rows : rows[x].table = "articles" => SlugOf(x, rows[x].slug)
\* None of the articles that were there when r arrived has its title.
Untaken(r) == Titled(Body(r).row.slug) \cap req[r].before = {}
ArticleOK(r) ==
  LET q == req[r]  title == Body(r).row.slug IN
  /\ \A a \in q.before : Settled(a)
  /\ \/ q.todo = <<"slug", "insert">> /\ q.row = Body(r).row
     \/ /\ q.todo \in {<<"insert">>, <<>>} /\ q.row.table = "articles"
        /\ q.row = [Body(r).row EXCEPT !.slug = q.row.slug]
        /\ (q.row.slug = title /\ Untaken(r)) \/ q.row.slug = Append(title, r)
ArticleInv == \A r \in Req : Running(r) /\ Kind(r) = "create_article" => ArticleOK(r)

\* The parts of a slug with a suffix.
LEMMA Suffixed ==
  ASSUME NEW t, IsTitle(t), NEW x
  PROVE  /\ t \in Seq({t[i] : i \in DOMAIN t})
         /\ \E n \in Nat : /\ DOMAIN Append(t, x) = 1 .. n + 1 /\ Append(t, x)[n + 1] = x
                           /\ \A i \in 1 .. n : Append(t, x)[i] = t[i]
                           /\ DOMAIN t = 1 .. n
<1> DEFINE words == {t[i] : i \in DOMAIN t}
<1>1. t \in Seq(words)
  BY DEF IsTitle
<1>2. PICK n \in Nat : n = Len(t) /\ DOMAIN t = 1 .. n
  BY <1>1
<1>3. t \in Seq(words \cup {x})
  BY <1>1, <1>2
<1>4. /\ Append(t, x) \in Seq(words \cup {x}) /\ Len(Append(t, x)) = n + 1
      /\ \A i \in 1 .. n : Append(t, x)[i] = t[i]
      /\ Append(t, x)[n + 1] = x
  BY <1>2, <1>3, AppendProperties
<1>5. DOMAIN Append(t, x) = 1 .. n + 1
  BY <1>4
<1> QED
  BY <1>1, <1>2, <1>4, <1>5

\* No other slug is a title with the name of a request that has inserted nothing yet.
LEMMA SuffixFresh ==
  ASSUME NEW r \in Req, NEW t, IsTitle(t), NEW x, x # r, NEW slug, SlugOf(x, slug)
  PROVE  slug # Append(t, r)
<1> SUFFICES ASSUME slug = Append(t, r) PROVE FALSE
  OBVIOUS
<1>1. PICK n \in Nat : DOMAIN slug = 1 .. n + 1 /\ slug[n + 1] = r
  BY Suffixed
<1>2. CASE IsTitle(slug)
  <2>1. n + 1 \in DOMAIN slug
    BY <1>1
  <2> QED
    BY <1>1, <1>2, <2>1 DEF IsTitle
<1>3. ASSUME NEW u, IsTitle(u), slug = Append(u, x) PROVE FALSE
  <2>1. PICK m \in Nat : DOMAIN slug = 1 .. m + 1 /\ slug[m + 1] = x
    BY <1>3, Suffixed
  <2>2. m = n
    <3>1. m + 1 \in 1 .. n + 1 /\ n + 1 \in 1 .. m + 1
      BY <1>1, <2>1
    <3> QED
      BY <3>1
  <2> QED
    BY <1>1, <2>1, <2>2
<1> QED
  BY <1>2, <1>3 DEF SlugOf

\* Articles keep their slugs.
LEMMA ArticleKept ==
  ASSUME TypeInv, [Next]_vars, NEW x \in DOMAIN rows, x \in DOMAIN rows',
         rows[x].table = "articles" \/ rows'[x].table = "articles"
  PROVE  rows[x].table = "articles" /\ rows'[x].slug = rows[x].slug
<1>1. rows[x].table = "articles"
  BY RowsKept
<1>2. "slug" \in Fixed \cap DOMAIN rows[x]
  BY <1>1, FixedColumns DEF TypeInv, RowsOK, Whole
<1> QED
  BY <1>1, <1>2, FixedKept

\* So what nobody had at the arrival is not taken by those who were there then.
LEMMA UntakenStays ==
  ASSUME TypeInv, [Next]_vars, NEW r \in Req, \A a \in req[r].before : Settled(a), Untaken(r),
         req'[r].before = req[r].before, Body(r)' = Body(r)
  PROVE  Untaken(r)'
<1> SUFFICES ASSUME NEW a \in req[r].before, a \in DOMAIN rows', rows'[a].table = "articles",
                    rows'[a].slug = Body(r).row.slug
             PROVE  FALSE
  BY DEF Untaken, Titled, Table
<1>1. a \in DOMAIN rows
  BY SettledRows
<1>2. rows[a].table = "articles" /\ rows[a].slug = Body(r).row.slug
  BY <1>1, ArticleKept
<1> QED
  BY <1>1, <1>2 DEF Untaken, Titled, Table

\* The steps of others.
LEMMA ArticleStays ==
  ASSUME TypeInv, [Next]_vars, NEW r \in Req, ArticleOK(r), req'[r] = req[r]
  PROVE  ArticleOK(r)'
<1>1. Body(r)' = Body(r) /\ \A a \in req[r].before : Settled(a)'
  BY SettledRows DEF ArticleOK, Body
<1>2. Untaken(r) => Untaken(r)'
  BY <1>1, UntakenStays DEF ArticleOK
<1> QED
  BY <1>1, <1>2 DEF ArticleOK

\* A request for an article arrives.
LEMMA ArticleStarts ==
  ASSUME TypeInv, NEW r \in Req, Alone(r), NEW b, Starts(r, b), b.kind = "create_article"
  PROVE  ArticleOK(r)'
<1>1. /\ req'[r].before = Table("articles") /\ Body(r)' = b
      /\ req'[r].todo = <<"slug", "insert">>
  BY DEF Starts, Seen, Handlers, create_article, Body
<1>2. req'[r].row = b.row
  <2>1. "row" \in DOMAIN b
    BY InsertingRuns DEF Starts, IsRequest, Inserting
  <2> QED
    BY <2>1 DEF Starts
<1>3. ASSUME NEW a \in Table("articles") PROVE Settled(a)'
  BY <1>3, RowsSettled, StatusStays, SettledStays DEF TypeInv, Table
<1> QED
  BY <1>1, <1>2, <1>3 DEF ArticleOK

\* It chooses its slug, and inserts it.
LEMMA ArticleWorks ==
  ASSUME TypeInv, [Next]_vars, NEW r \in Req, Works(r), Kind(r) = "create_article",
         ArticleOK(r), Body(r)' = Body(r)
  PROVE  ArticleOK(r)'
<1> DEFINE q == req[r]
           s == req'[r]
           title == Body(r).row.slug
<1>1. /\ DOMAIN req = Req /\ DOMAIN q = Fields /\ Running(r) /\ q.todo # <<>> /\ rows' = rows
      /\ s.status = 0 /\ s.before = q.before /\ IsRequest(Body(r)) /\ Body(r) # None
      /\ \A a \in q.before : Settled(a)
  BY DEF TypeInv, RowsOK, RequestOK, Works, Goes, Alone, ArticleOK, Running, Idle, Body
<1>2. \A a \in q.before : Settled(a)'
  BY <1>1, SettledRows
<1>3. CASE q.todo = <<"slug", "insert">> /\ q.row = Body(r).row
  <2>1. ChooseSlug(r)
    BY <1>3, AtStatement, Tails DEF Works
  <2>2. Whole(q.row) /\ q.row.table = "articles"
    <3>1. Kind(r) \in Inserting \ {"record_event"}
      BY DEF Inserting
    <3> QED
      BY <1>1, <1>3, <3>1, InsertingRuns, EntityTables DEF IsRequest, Kind, Body
  <2>3. /\ s.row = [q.row EXCEPT !.slug = IF Titled(title) = {} THEN title ELSE Append(title, r)]
        /\ s.todo = <<"insert">>
    BY <1>1, <1>3, <2>1, Tails DEF ChooseSlug, Fields
  <2>4. /\ s.row.table = "articles"
        /\ s.row.slug = IF Titled(title) = {} THEN title ELSE Append(title, r)
    BY <2>2, <2>3 DEF Whole
  <2>5. Titled(title) = {} => Untaken(r)
    BY DEF Untaken
  <2>6. Untaken(r) => Untaken(r)'
    BY <1>1, UntakenStays
  <2> QED
    BY <1>1, <1>2, <2>3, <2>4, <2>5, <2>6 DEF ArticleOK
<1>4. CASE /\ q.todo = <<"insert">> /\ q.row.table = "articles"
           /\ q.row = [Body(r).row EXCEPT !.slug = q.row.slug]
           /\ (q.row.slug = title /\ Untaken(r)) \/ q.row.slug = Append(title, r)
  <2>1. Insert(r)
    BY <1>4, AtStatement, Tails DEF Works
  <2>2. ~Answer(r, IntegrityViolation)
    BY <1>1, AnswerEnds DEF Ends, Codes, IntegrityViolation
  <2>3. s.row = q.row /\ s.todo = <<>>
    BY <1>1, <1>4, <2>1, <2>2, Tails DEF Insert, Fields
  <2>4. Untaken(r) => Untaken(r)'
    BY <1>1, UntakenStays
  <2> QED
    BY <1>1, <1>2, <1>4, <2>3, <2>4 DEF ArticleOK
<1> QED
  BY <1>1, <1>3, <1>4 DEF ArticleOK

\* A slug that is inserted is a title, or has the name of its article.
LEMMA SlugsNext ==
  ASSUME TypeInv, InsertionInv, SlugsInv, ArticleInv, [Next]_vars
  PROVE  SlugsInv'
<1> SUFFICES ASSUME NEW x \in DOMAIN rows', rows'[x].table = "articles"
             PROVE  SlugOf(x, rows'[x].slug)
  BY DEF SlugsInv, SlugOf
<1>1. CASE x \in DOMAIN rows
  BY <1>1, ArticleKept DEF SlugsInv
<1>2. ASSUME NEW r \in Req, Commits(r), x \in DOMAIN req[r].new
      PROVE  SlugOf(x, rows'[x].slug)
  <2>1. rows'[x] = req[r].new[x]
    BY <1>2 DEF Commits, Committed
  <2>2. /\ Kind(r) = "create_article" /\ x = r /\ rows'[x] = req[r].row /\ Running(r)
        /\ req[r].todo = <<>>
    BY <1>2, <2>1, NewRows, EntityTables
  <2>3. ArticleOK(r) /\ IsTitle(Body(r).row.slug)
    BY <2>2 DEF ArticleInv, TypeInv, RequestOK, IsRequest, Running, Idle, Kind, Body
  <2>4. rows'[x].slug \in {Body(r).row.slug, Append(Body(r).row.slug, r)}
    BY <2>2, <2>3, Tails DEF ArticleOK
  <2> QED
    BY <2>2, <2>3, <2>4 DEF SlugOf
<1> QED
  BY <1>1, <1>2, Steps DEF Commits, Committed, vars, Alone, Outcome

\* Nothing has been chosen at the start.
LEMMA ArticleInit == Init => SlugsInv /\ ArticleInv
<1> SUFFICES ASSUME Init PROVE SlugsInv /\ ArticleInv
  OBVIOUS
<1>1. SlugsInv
  BY SlugsAreTitles DEF Init, SlugsInv, SlugOf
<1>2. \A r \in Req : ~Running(r)
  BY DEF Init, Blank, Running, Idle, Body
<1> QED
  BY <1>1, <1>2 DEF ArticleInv

\* Every step keeps what has been chosen.
LEMMA ArticleNext ==
  ASSUME TypeInv, ArticleInv, [Next]_vars
  PROVE  ArticleInv'
<1> SUFFICES ASSUME NEW q \in Req, Running(q)', Kind(q)' = "create_article" PROVE ArticleOK(q)'
  BY DEF ArticleInv
<1>1. CASE Running(q) /\ req'[q] = req[q]
  BY <1>1, OthersKeep, ArticleStays DEF ArticleInv
<1>2. CASE Alone(q) /\ \E b : Starts(q, b) /\ Body(q)' = b
  <2>1. PICK b : Starts(q, b) /\ Body(q)' = b
    BY <1>2
  <2> QED
    BY <1>2, <2>1, ArticleStarts DEF Kind, Body
<1>3. CASE Works(q) /\ Running(q) /\ Body(q)' = Body(q)
  <2>1. Kind(q) = "create_article" /\ ArticleOK(q)
    BY <1>3 DEF ArticleInv, Kind, Body
  <2> QED
    BY <1>3, <2>1, ArticleWorks
<1> QED
  BY <1>1, <1>2, <1>3, Frame

\* A request is refused by a statement of its own.
LEMMA RefusedByStatement ==
  ASSUME TypeInv, [Next]_vars, NEW r \in Req, Running(r), req'[r].status \notin {0, 200, Lost}
  PROVE  Handle(r) /\ ~Commit(r) /\ rows' = rows
<1>0. DOMAIN req = Req /\ req[r].status = 0
  BY DEF TypeInv, RowsOK, Running
<1>1. PICK q \in Req : Arrive(q) \/ Handle(q) \/ Abort(q)
  BY <1>0 DEF Next, vars
<1>2. q = r
  <2>1. ASSUME q # r PROVE FALSE
    <3>1. Alone(q) \/ Commits(q)
      BY <1>1, ArriveStarts, HandleOutcome, CommitEnds, AnswerEnds
      DEF Abort, Lost, Codes, Outcome, TypeInv, Commits, RowsOK
    <3>2. req'[r] = req[r]
      BY <2>1, <3>1 DEF Alone, Commits
    <3> QED
      BY <1>0, <3>2
  <2> QED
    BY <2>1
<1>3. ~Arrive(r)
  BY DEF Arrive, Running
<1>4. ~Abort(r)
  <2>1. Lost \in Codes \ {0}
    BY DEF Lost, Codes
  <2> QED
    BY <1>0, <2>1, AnswerEnds DEF Abort
<1>5. ~Commit(r)
  BY CommitEnds
<1>6. rows' = rows
  BY <1>1, <1>2, <1>3, <1>4, <1>5, HandleOutcome DEF Outcome, Alone, TypeInv
<1> QED
  BY <1>1, <1>2, <1>3, <1>4, <1>5, <1>6

\* A title that is refused is that of an article that came after the request.
LEMMA ArticleRefused ==
  ASSUME TypeInv, SlugsInv, ArticleInv, [Next]_vars, NEW r \in Req, Running(r),
         Kind(r) = "create_article", req'[r].status = IntegrityViolation
  PROVE  Titled(Body(r).row.slug) \ req[r].before # {}
<1> DEFINE q == req[r]
           title == Body(r).row.slug
<1>1. /\ Handle(r) /\ ~Commit(r) /\ DOMAIN req = Req /\ DOMAIN q = Fields /\ q.status = 0
      /\ ArticleOK(r) /\ IsTitle(title)
  BY RefusedByStatement
  DEF IntegrityViolation, Lost, TypeInv, RowsOK, RequestOK, ArticleInv, Running, Idle, Kind, Body,
      IsRequest
<1>2. Running(r) /\ q.todo # <<>>
  BY <1>1, AtStatement
<1>3. CASE q.todo = <<"slug", "insert">>
  <2>1. ChooseSlug(r)
    BY <1>1, <1>3, AtStatement, Tails
  <2>2. req'[r].status = q.status
    BY <1>1, <2>1 DEF ChooseSlug, Fields
  <2> QED
    BY <1>1, <2>2 DEF IntegrityViolation
<1>4. CASE /\ q.todo = <<"insert">> /\ q.row.table = "articles"
           /\ q.row = [Body(r).row EXCEPT !.slug = q.row.slug]
           /\ (q.row.slug = title /\ Untaken(r)) \/ q.row.slug = Append(title, r)
  <2>1. Insert(r)
    BY <1>1, <1>4, AtStatement, Tails
  <2>2. Resolved(q.row)
    BY <1>4 DEF Resolved, References, ForeignKeys
  <2>3. Taken(r, Keys(q.row))
    <3>1. ASSUME req' = [req EXCEPT ![r].todo = Tail(@), ![r].new = [id \in {r} |-> q.row]]
          PROVE  FALSE
      <4>1. req'[r].status = q.status
        BY <1>1, <3>1 DEF Fields
      <4> QED
        BY <1>1, <4>1 DEF IntegrityViolation
    <3> QED
      BY <2>1, <2>2, <3>1 DEF Insert
  <2>4. PICK x \in DOMAIN rows : Keys(rows[x]) \cap Keys(q.row) # {}
    BY <2>3 DEF Taken
  <2>5. Keys(q.row) = {<<"articles", q.row.slug>>}
    BY <1>4 DEF Keys
  <2>6. rows[x].table = "articles" /\ rows[x].slug = q.row.slug
    <3>1. <<"articles", q.row.slug>> \in Keys(rows[x])
      BY <2>4, <2>5
    <3>2. CASE rows[x].table = "articles"
      <4>1. Keys(rows[x]) = {<<"articles", rows[x].slug>>}
        BY <3>2 DEF Keys
      <4> QED
        BY <3>1, <3>2, <4>1
    <3>3. CASE rows[x].table = "players" /\ rows[x].jersey # None
      <4>1. Keys(rows[x]) = {<<"players", rows[x].team, rows[x].jersey>>}
        BY <3>3 DEF Keys
      <4>2. <<"articles", q.row.slug>>[1] # <<"players", rows[x].team, rows[x].jersey>>[1]
        OBVIOUS
      <4> QED
        BY <3>1, <4>1, <4>2
    <3>4. CASE /\ rows[x].table # "articles"
               /\ ~(rows[x].table = "players" /\ rows[x].jersey # None)
      <4>1. Keys(rows[x]) = {}
        BY <3>4 DEF Keys
      <4> QED
        BY <3>1, <4>1
    <3> QED
      BY <3>2, <3>3, <3>4
  <2>7. q.row.slug # Append(title, r)
    <3>1. x # r
      BY <1>1 DEF TypeInv, RowsOK
    <3>2. SlugOf(x, rows[x].slug)
      BY <2>6 DEF SlugsInv
    <3> QED
      BY <1>1, <2>6, <3>1, <3>2, SuffixFresh
  <2>8. x \in Titled(title)
    BY <1>4, <2>6, <2>7 DEF Titled, Table
  <2> QED
    BY <1>4, <2>7, <2>8 DEF Untaken
<1> QED
  BY <1>1, <1>2, <1>3, <1>4 DEF ArticleOK

\* A title is refused only when another article took its slug after the request had
\* arrived.
THEOREM RivalsAloneRefuse == Spec => RefusedByRivalOnly
<1> DEFINE A ==
      \A r \in Req :
        Running(r) /\ Kind(r) = "create_article" /\ req'[r].status = IntegrityViolation =>
          Titled(Body(r).row.slug) \ req[r].before # {}
<1>1. ASSUME TypeInv, SlugsInv, ArticleInv, [Next]_vars PROVE A
  BY <1>1, ArticleRefused
<1>2. TypeInv /\ SlugsInv /\ ArticleInv /\ [Next]_vars => [A]_vars
  BY <1>1
<1>3. Init => TypeInv /\ InsertionInv /\ SlugsInv /\ ArticleInv
  BY TypeInit, InsertionInit, ArticleInit
<1>4. TypeInv /\ InsertionInv /\ SlugsInv /\ ArticleInv /\ [Next]_vars
        => TypeInv' /\ InsertionInv' /\ SlugsInv' /\ ArticleInv'
  BY TypeNext, InsertionNext, SlugsNext, ArticleNext
<1> QED
  BY <1>2, <1>3, <1>4, PTL DEF Spec, RefusedByRivalOnly

-----------------------------------------------------------------------------
(* Places.  A season, a stage or a group that is there never moves to another     *)
(* competition, so what a climb has found stays true until it is used.            *)

\* No row is named NULL.
NamesInv == None \notin DOMAIN rows
\* None at the start, and none later.
LEMMA NamesHold ==
  /\ Init => NamesInv
  /\ TypeInv /\ NamesInv /\ [Next]_vars => NamesInv'
<1>1. Init => NamesInv
  BY IdsAreApart DEF Init, NamesInv
<1>2. ASSUME TypeInv, NamesInv, [Next]_vars PROVE NamesInv'
  <2>1. ASSUME NEW r \in Req, Commits(r) PROVE None \notin DOMAIN rows'
    <3>1. DOMAIN req[r].new \subseteq Req \cup Req \X Nat
      BY <1>2 DEF TypeInv, RequestOK
    <3>2. None \notin DOMAIN req[r].new
      BY <3>1, IdsAreApart
    <3> QED
      BY <1>2, <2>1, <3>2 DEF NamesInv, Commits, Committed
  <2> QED
    BY <1>2, <2>1, Steps DEF NamesInv, vars, Alone, Outcome
<1> QED
  BY <1>1, <1>2

\* x, as long as it is there, is a season of c, a stage of one, a group of one of those.
SeasonIn(x, c) ==
  /\ Settled(x) /\ x # None
  /\ x \in DOMAIN rows => rows[x].table = "seasons" /\ rows[x].competition = c
StageIn(x, c) ==
  /\ Settled(x) /\ x # None
  /\ x \in DOMAIN rows => rows[x].table = "stages" /\ SeasonIn(rows[x].season, c)
GroupIn(x, c) ==
  /\ Settled(x) /\ x # None
  /\ x \in DOMAIN rows => rows[x].table = "groups" /\ StageIn(rows[x].stage, c)
In(p, c) ==
  \/ p.table = "seasons" /\ SeasonIn(p.id, c)
  \/ p.table = "stages" /\ StageIn(p.id, c)
  \/ p.table = "groups" /\ GroupIn(p.id, c)

\* The place q is the one above p.
Up(p, q) ==
  /\ \/ p.table = "stages" /\ q.table = "seasons"
     \/ p.table = "groups" /\ q.table = "stages"
  /\ Settled(p.id) /\ p.id # None
  /\ p.id \in DOMAIN rows => rows[p.id].table = p.table /\ Above(rows[p.id]) = q
Reached(f, q) == f = q \/ Up(f, q) \/ \E m : Up(f, m) /\ Up(m, q)

\* The columns that lead upwards are references.
LEMMA TreeColumns ==
  ASSUME NEW x
  PROVE  /\ x.table = "seasons" => "competition" \in References(x)
         /\ x.table = "stages" => "season" \in References(x)
         /\ x.table = "groups" => "stage" \in References(x)
BY DEF References, ForeignKeys

\* They stay.
LEMMA PlacesStay ==
  ASSUME TypeInv, [Next]_vars
  PROVE  /\ \A x, c : SeasonIn(x, c) => SeasonIn(x, c)'
         /\ \A x, c : StageIn(x, c) => StageIn(x, c)'
         /\ \A x, c : GroupIn(x, c) => GroupIn(x, c)'
         /\ \A p, q : Up(p, q) => Up(p, q)'
<1>0. \A x : Settled(x) => Settled(x)' /\ (x \in DOMAIN rows' => x \in DOMAIN rows)
  BY SettledRows
<1>1. ASSUME NEW x, NEW c, SeasonIn(x, c) PROVE SeasonIn(x, c)'
  BY <1>0, <1>1, RowsKept, TreeColumns DEF SeasonIn
<1>2. ASSUME NEW x, NEW c, StageIn(x, c) PROVE StageIn(x, c)'
  <2>1. ASSUME x \in DOMAIN rows'
        PROVE  (rows[x].table = "stages" /\ SeasonIn(rows[x].season, c))'
    <3>1. x \in DOMAIN rows /\ rows[x].table = "stages" /\ SeasonIn(rows[x].season, c)
      BY <1>0, <1>2, <2>1 DEF StageIn
    <3>2. rows'[x].table = "stages" /\ rows'[x].season = rows[x].season
      BY <2>1, <3>1, RowsKept, TreeColumns
    <3>3. PICK y : y = rows[x].season
      OBVIOUS
    <3>4. SeasonIn(y, c)'
      BY <1>1, <3>1, <3>3
    <3>5. SeasonIn(rows[x].season, c)'
      BY <3>2, <3>3, <3>4 DEF SeasonIn, Settled
    <3> QED
      BY <3>2, <3>5
  <2> QED
    BY <1>0, <1>2, <2>1 DEF StageIn
<1>3. ASSUME NEW x, NEW c, GroupIn(x, c) PROVE GroupIn(x, c)'
  <2>1. ASSUME x \in DOMAIN rows'
        PROVE  (rows[x].table = "groups" /\ StageIn(rows[x].stage, c))'
    <3>1. x \in DOMAIN rows /\ rows[x].table = "groups" /\ StageIn(rows[x].stage, c)
      BY <1>0, <1>3, <2>1 DEF GroupIn
    <3>2. rows'[x].table = "groups" /\ rows'[x].stage = rows[x].stage
      BY <2>1, <3>1, RowsKept, TreeColumns
    <3>3. PICK y : y = rows[x].stage
      OBVIOUS
    <3>4. StageIn(y, c)'
      BY <1>2, <3>1, <3>3
    <3>5. StageIn(rows[x].stage, c)'
      BY <3>2, <3>3, <3>4 DEF StageIn, SeasonIn, Settled
    <3> QED
      BY <3>2, <3>5
  <2> QED
    BY <1>0, <1>3, <2>1 DEF GroupIn
<1>4. ASSUME NEW p, NEW q, Up(p, q) PROVE Up(p, q)'
  <2>1. ASSUME p.id \in DOMAIN rows'
        PROVE  rows'[p.id].table = p.table /\ Above(rows'[p.id]) = q
    <3>1. p.id \in DOMAIN rows /\ rows[p.id].table = p.table /\ Above(rows[p.id]) = q
      BY <1>0, <1>4, <2>1 DEF Up
    <3>2. rows'[p.id].table = rows[p.id].table
      BY <2>1, <3>1, RowsKept
    <3>3. Above(rows'[p.id]) = Above(rows[p.id])
      <4>1. CASE p.table = "groups"
        BY <2>1, <3>1, <4>1, RowsKept, TreeColumns DEF Above
      <4>2. CASE p.table = "stages"
        BY <2>1, <3>1, <4>2, RowsKept, TreeColumns DEF Above
      <4> QED
        BY <1>4, <4>1, <4>2 DEF Up
    <3> QED
      BY <3>1, <3>2, <3>3
  <2> QED
    BY <1>0, <1>4, <2>1 DEF Up
<1> QED
  BY <1>1, <1>2, <1>3, <1>4

\* What a request has found of where its place belongs: where the climb has got to,
\* and then that the place it started from is in the competition of the URL.
AtClimb(r) == req[r].todo # <<>> /\ Head(req[r].todo) = "climb"
ClimbOK(r) ==
  \E f \in {Foot(Body(r))}, c \in {Body(r).competition} :
    /\ AtClimb(r) => \E q : req[r].found = {q} /\ Reached(f, q)
    /\ ~AtClimb(r) => In(f, c)
ClimbInv == \A r \in Req : Running(r) /\ Kind(r) \in Climbing => ClimbOK(r)

\* A place that is one or two levels below a season belongs where that does.
LEMMA SeasonReached ==
  ASSUME NEW f, NEW q, NEW c, Reached(f, q), q.table = "seasons", SeasonIn(q.id, c)
  PROVE  In(f, c)
<1>1. ASSUME NEW p, Up(p, q) PROVE p.table = "stages" /\ StageIn(p.id, c)
  BY <1>1 DEF Up, StageIn, Above
<1>2. CASE f = q
  BY <1>2 DEF In
<1>3. CASE Up(f, q)
  BY <1>1, <1>3 DEF In
<1>4. ASSUME NEW m, Up(f, m), Up(m, q) PROVE In(f, c)
  <2>1. m.table = "stages" /\ StageIn(m.id, c)
    BY <1>1, <1>4
  <2> QED
    BY <1>4, <2>1 DEF Up, Above, GroupIn, In
<1> QED
  BY <1>2, <1>3, <1>4 DEF Reached

\* From another level the climb goes on.
LEMMA LevelReached ==
  ASSUME TypeInv, NamesInv, NEW f, NEW q, Reached(f, q), q.id \in Table(q.table),
         f.table \in {"seasons", "stages", "groups"}, q.table # "seasons"
  PROVE  Reached(f, Above(rows[q.id]))
<1>1. q.table \in {"stages", "groups"}
  BY DEF Reached, Up
<1>2. Settled(q.id) /\ q.id # None /\ rows[q.id].table = q.table
  BY RowsSettled DEF Table, TypeInv, NamesInv
<1>3. Up(q, Above(rows[q.id]))
  <2>1. q.table = "stages" => Above(rows[q.id]).table = "seasons"
    BY <1>2 DEF Above
  <2>2. q.table = "groups" => Above(rows[q.id]).table = "stages"
    BY <1>2 DEF Above
  <2> QED
    BY <1>1, <1>2, <2>1, <2>2 DEF Up
<1>4. \A m : Up(f, m) => ~Up(m, q)
  BY DEF Up
<1> QED
  BY <1>3, <1>4 DEF Reached

\* Where a climb may start.
LEMMA FootPlace ==
  ASSUME NEW b, IsRequest(b), b.kind \in Climbing
  PROVE  /\ Foot(b).table \in {"seasons", "stages", "groups"}
         /\ b.kind = "create_stage" => Foot(b) = [table |-> "seasons", id |-> b.row.season]
         /\ b.kind = "create_group" => Foot(b) = [table |-> "stages", id |-> b.row.stage]
         /\ b.kind \in Deleting =>
              Foot(b) = [table |-> Entity[b.kind], id |-> b.id] /\ b.table = Entity[b.kind]
<1>1. ASSUME b.kind \in {"delete_season", "delete_stage", "delete_group"}
      PROVE  b.table = Entity[b.kind]
  BY <1>1, DeletingRuns DEF IsRequest, Deleting
<1>2. CASE b.kind \in {"delete_season", "delete_stage", "delete_group"}
  <2>1. Foot(b) = [table |-> b.table, id |-> b.id]
    BY <1>2 DEF Foot
  <2> QED
    BY <1>1, <1>2, <2>1, EntityTables
<1>3. CASE b.kind = "create_stage"
  BY <1>3 DEF Foot, Deleting
<1>4. CASE b.kind = "create_group"
  BY <1>4 DEF Foot, Deleting
<1> QED
  BY <1>2, <1>3, <1>4 DEF Climbing

\* The steps of others.
LEMMA ClimbStays ==
  ASSUME TypeInv, [Next]_vars, NEW r \in Req, ClimbOK(r), req'[r] = req[r]
  PROVE  ClimbOK(r)'
<1>1. Body(r)' = Body(r) /\ AtClimb(r)' = AtClimb(r)
  BY DEF Body, AtClimb
<1>2. PICK f, c : /\ f = Foot(Body(r)) /\ c = Body(r).competition
                  /\ AtClimb(r) => \E q : req[r].found = {q} /\ Reached(f, q)
                  /\ ~AtClimb(r) => In(f, c)
  BY DEF ClimbOK
<1>3. f = Foot(Body(r)') /\ c = Body(r)'.competition
  BY <1>1, <1>2
<1>4. In(f, c) => In(f, c)'
  BY PlacesStay DEF In
<1>5. \A q : Reached(f, q) => Reached(f, q)'
  BY PlacesStay DEF Reached
<1> QED
  BY <1>1, <1>2, <1>3, <1>4, <1>5 DEF ClimbOK

\* A request starts to climb at its foot.
LEMMA ClimbStarts ==
  ASSUME NEW r \in Req, NEW b, Starts(r, b), b.kind \in Climbing
  PROVE  ClimbOK(r)'
<1>1. Handlers[b.kind] # <<>> /\ Head(Handlers[b.kind]) = "climb"
  BY DEF Climbing, Handlers, create_stage, create_group, delete_season, delete_stage, delete_group
<1>2. req'[r].todo = Handlers[b.kind] /\ req'[r].found = {Foot(b)} /\ Body(r)' = b
  BY <1>1 DEF Starts, Body
<1>3. AtClimb(r)'
  BY <1>1, <1>2 DEF AtClimb
<1>4. Reached(Foot(b), Foot(b))'
  BY DEF Reached
<1> QED
  BY <1>2, <1>3, <1>4 DEF ClimbOK

\* Its own steps: a query of the climb, or what comes after it.
LEMMA ClimbWorks ==
  ASSUME TypeInv, NamesInv, [Next]_vars, NEW r \in Req, ClimbOK(r), Works(r),
         Kind(r) \in Climbing, Body(r)' = Body(r)
  PROVE  ClimbOK(r)'
<1> DEFINE q == req[r]
           s == req'[r]
<1>1. /\ DOMAIN req = Req /\ DOMAIN q = Fields /\ Running(r) /\ q.todo # <<>> /\ rows' = rows
      /\ s.status = 0 /\ Placed(Kind(r), q.todo) /\ IsRequest(Body(r))
      /\ \/ s.todo = Tail(q.todo)
         \/ s.todo = q.todo /\ Head(q.todo) \in {"climb", "fill"}
  BY GoesOn DEF TypeInv, RowsOK, RequestOK, Works, Goes, Alone, Kind, Body
<1>2. PICK f, c : /\ f = Foot(Body(r)) /\ c = Body(r).competition
                  /\ AtClimb(r) => \E p : q.found = {p} /\ Reached(f, p)
                  /\ ~AtClimb(r) => In(f, c)
  BY DEF ClimbOK
<1>3. f = Foot(Body(r)') /\ c = Body(r)'.competition
  BY <1>2
<1>4. In(f, c) => In(f, c)'
  BY PlacesStay DEF In
<1>5. \A p : Reached(f, p) => Reached(f, p)'
  BY PlacesStay DEF Reached
<1>6. ASSUME s.todo = Tail(q.todo) PROVE ~AtClimb(r)'
  BY <1>1, <1>6 DEF Placed, Follows, AtClimb
<1>7. CASE AtClimb(r)
  <2>1. Climb(r)
    BY <1>7, AtStatement DEF Works, AtClimb
  <2>2. PICK p : q.found = {p} /\ Reached(f, p)
    BY <1>2, <1>7
  <2>3. ~Answer(r, 404)
    BY <1>1, AnswerEnds DEF Ends, Codes
  <2>4. /\ p.id \in Table(p.table)
        /\ \/ /\ p.table = "seasons" /\ rows[p.id].competition = c
              /\ req' = [req EXCEPT ![r].todo = Tail(@), ![r].found = {}]
           \/ /\ p.table # "seasons"
              /\ req' = [req EXCEPT ![r].found = {Above(rows[p.id])}]
    BY <1>2, <2>1, <2>2, <2>3 DEF Climb
  <2>5. CASE /\ p.table = "seasons" /\ rows[p.id].competition = c
             /\ req' = [req EXCEPT ![r].todo = Tail(@), ![r].found = {}]
    <3>1. s.todo = Tail(q.todo)
      BY <1>1, <2>5 DEF Fields
    <3>2. SeasonIn(p.id, c)
      BY <2>4, <2>5, RowsSettled DEF SeasonIn, Table, TypeInv, NamesInv
    <3>3. In(f, c)
      BY <2>2, <2>5, <3>2, SeasonReached
    <3> QED
      BY <1>3, <1>4, <1>6, <3>1, <3>3 DEF ClimbOK
  <2>6. CASE /\ p.table # "seasons"
             /\ req' = [req EXCEPT ![r].found = {Above(rows[p.id])}]
    <3>1. s.todo = q.todo /\ s.found = {Above(rows[p.id])}
      BY <1>1, <2>6 DEF Fields
    <3>2. PICK up : up = Above(rows[p.id])
      OBVIOUS
    <3>3. Reached(f, up)
      <4>1. f.table \in {"seasons", "stages", "groups"}
        BY <1>1, <1>2, FootPlace DEF Kind, Body
      <4>2. Reached(f, Above(rows[p.id]))
        BY <2>2, <2>4, <2>6, <4>1, LevelReached
      <4> QED
        BY <3>2, <4>2
    <3>4. AtClimb(r)'
      BY <1>7, <3>1 DEF AtClimb
    <3> QED
      BY <1>3, <1>5, <3>1, <3>2, <3>3, <3>4 DEF ClimbOK
  <2> QED
    BY <2>4, <2>5, <2>6
<1>8. CASE ~AtClimb(r)
  <2>1. ~AtClimb(r)'
    BY <1>1, <1>6, <1>8 DEF AtClimb
  <2> QED
    BY <1>2, <1>3, <1>4, <1>8, <2>1 DEF ClimbOK
<1> QED
  BY <1>7, <1>8

\* No request climbs at the start.
LEMMA ClimbInit == Init => ClimbInv
BY DEF Init, Blank, ClimbInv, Running, Idle, Body
\* Every step keeps what the climbs have found.
LEMMA ClimbNext ==
  ASSUME TypeInv, NamesInv, ClimbInv, [Next]_vars
  PROVE  ClimbInv'
<1> SUFFICES ASSUME NEW q \in Req, Running(q)', Kind(q)' \in Climbing PROVE ClimbOK(q)'
  BY DEF ClimbInv
<1>1. CASE Running(q) /\ req'[q] = req[q]
  BY <1>1, OthersKeep, ClimbStays DEF ClimbInv
<1>2. CASE Alone(q) /\ \E b : Starts(q, b) /\ Body(q)' = b
  <2>1. PICK b : Starts(q, b) /\ Body(q)' = b
    BY <1>2
  <2> QED
    BY <1>2, <2>1, ClimbStarts DEF Kind, Body
<1>3. CASE Works(q) /\ Running(q) /\ Body(q)' = Body(q)
  <2>1. Kind(q) \in Climbing /\ ClimbOK(q)
    BY <1>3 DEF ClimbInv, Kind, Body
  <2> QED
    BY <1>3, <2>1, ClimbWorks
<1> QED
  BY <1>1, <1>2, <1>3, Frame

\* What a request deletes is a row of its kind's table.
DeletedInv ==
  \A r \in Req : Running(r) /\ Kind(r) \in Deleting =>
    \A x \in req[r].gone : rows[x].table = Entity[Kind(r)]

\* A deletion finds its row in the table of its kind.
LEMMA DeletedWorks ==
  ASSUME TypeInv, NEW r \in Req, Works(r), Kind(r) \in Deleting,
         \A x \in req[r].gone : rows[x].table = Entity[Kind(r)]
  PROVE  \A x \in req'[r].gone : rows[x].table = Entity[Kind(r)]
<1>1. /\ IsRequest(Body(r)) /\ Placed(Kind(r), req[r].todo) /\ DOMAIN req = Req /\ Running(r)
      /\ req'[r].status = 0 /\ rows' = rows
  BY GoesOn DEF Works, Goes, Alone, TypeInv, RowsOK, Kind, Body
<1>2. CASE Removes(r)
  <2>1. ~Clear(r) /\ ~Discard(r)
    BY <1>1, Kinds DEF Clear, Discard, At, Placed
  <2>2. Delete(r) /\ req'[r].gone = {Body(r).id}
    BY <1>2, <2>1 DEF Removes
  <2>3. ~Answer(r, 404)
    BY <1>1, AnswerEnds DEF Ends, Codes
  <2>4. Body(r).id \in Table(Body(r).table) /\ Head(req[r].todo) = "delete"
    BY <2>2, <2>3 DEF Delete, At
  <2>5. Body(r).table = Entity[Kind(r)]
    <3>1. Runs(Kind(r), "delete")
      BY DeletingRuns
    <3> QED
      BY <1>1, <3>1 DEF IsRequest, Kind, Body
  <2> QED
    BY <2>2, <2>4, <2>5 DEF Table
<1>3. CASE ~Removes(r)
  <2>1. req'[r].gone = req[r].gone
    BY <1>3 DEF Works, Outcome, Goes, Ends, Keeps, Holds, Writes, Inserts, Fills, Changes
  <2> QED
    BY <2>1
<1> QED
  BY <1>2, <1>3

\* Every step keeps that, as long as what is deleted is there.
LEMMA DeletedNext ==
  ASSUME TypeInv, LocksInv, LocksInv', DeletedInv, [Next]_vars
  PROVE  DeletedInv'
<1> SUFFICES ASSUME NEW q \in Req, Running(q)', Kind(q)' \in Deleting, NEW x \in req'[q].gone
             PROVE  rows'[x].table = Entity[Kind(q)']
  BY DEF DeletedInv
<1>1. CASE Running(q) /\ req'[q] = req[q]
  <2>1. Kind(q)' = Kind(q) /\ rows[x].table = Entity[Kind(q)]
    BY <1>1, OthersKeep DEF DeletedInv
  <2>2. x \in DOMAIN rows /\ x \in DOMAIN rows'
    BY <1>1 DEF LocksInv, Locked
  <2> QED
    BY <2>1, <2>2, RowsKept
<1>2. CASE Alone(q) /\ \E b : Starts(q, b) /\ Body(q)' = b
  BY <1>2 DEF Starts
<1>3. CASE Works(q) /\ Running(q) /\ Body(q)' = Body(q)
  <2>1. Kind(q)' = Kind(q) /\ rows' = rows
    BY <1>3 DEF Works, Alone, Kind, Body
  <2> QED
    BY <1>3, <2>1, DeletedWorks DEF DeletedInv
<1> QED
  BY <1>1, <1>2, <1>3, Frame

\* A new season is compared with the competition of the URL before it is inserted.
SeasonInv ==
  \A r \in Req : Running(r) /\ Kind(r) = "create_season" =>
    \/ req[r].todo = <<"competition", "insert">>
    \/ /\ req[r].todo \in {<<"insert">>, <<>>}
       /\ Body(r).row.competition = Body(r).competition

\* Every step keeps that.
LEMMA SeasonNext ==
  ASSUME TypeInv, InsertionInv, SeasonInv, [Next]_vars
  PROVE  SeasonInv'
<1> SUFFICES ASSUME NEW q \in Req, Running(q)', Kind(q)' = "create_season"
             PROVE  \/ req'[q].todo = <<"competition", "insert">>
                    \/ /\ req'[q].todo \in {<<"insert">>, <<>>}
                       /\ Body(q)'.row.competition = Body(q)'.competition
  BY DEF SeasonInv
<1>1. CASE Running(q) /\ req'[q] = req[q]
  BY <1>1, OthersKeep DEF SeasonInv
<1>2. CASE Alone(q) /\ \E b : Starts(q, b) /\ Body(q)' = b
  <2>1. PICK b : Starts(q, b) /\ Body(q)' = b
    BY <1>2
  <2>2. b.kind = "create_season"
    BY <2>1 DEF Kind, Body
  <2> QED
    BY <2>1, <2>2 DEF Starts, Handlers, create_season
<1>3. CASE Works(q) /\ Running(q) /\ Body(q)' = Body(q)
  <2>1. /\ Kind(q) = "create_season" /\ DOMAIN req = Req /\ DOMAIN req[q] = Fields
        /\ req'[q].status = 0 /\ rows' = rows /\ req[q].todo # <<>>
    BY <1>3 DEF Kind, Body, Works, Goes, Alone, TypeInv, RowsOK, RequestOK
  <2>2. \A code \in {400, 404, IntegrityViolation} : ~Answer(q, code)
    <3>1. \A code \in {400, 404, IntegrityViolation} : code \in Codes \ {0}
      BY DEF Codes, IntegrityViolation
    <3> QED
      BY <1>3, <2>1, <3>1, AnswerEnds DEF Ends
  <2>3. CASE req[q].todo = <<"competition", "insert">>
    <3>1. FindCompetition(q)
      BY <1>3, <2>3, AtStatement, Tails DEF Works
    <3>2. Proceed(q) /\ req[q].row.competition = Body(q).competition
      BY <2>2, <3>1 DEF FindCompetition
    <3>3. req[q].row = Body(q).row
      BY <1>3, <2>1 DEF InsertionInv, InsertionOK, Inserting
    <3>4. req'[q].todo = <<"insert">>
      BY <2>1, <2>3, <3>2, Tails DEF Proceed, Fields
    <3> QED
      BY <1>3, <3>2, <3>3, <3>4
  <2>4. CASE /\ req[q].todo = <<"insert">>
             /\ Body(q).row.competition = Body(q).competition
    <3>1. Insert(q)
      BY <1>3, <2>4, AtStatement, Tails DEF Works
    <3>2. req'[q].todo = <<>>
      BY <2>1, <2>2, <2>4, <3>1, Tails DEF Insert, Fields
    <3> QED
      BY <1>3, <2>4, <3>2
  <2> QED
    BY <1>3, <2>1, <2>3, <2>4 DEF SeasonInv
<1> QED
  BY <1>1, <1>2, <1>3, Frame

\* Nothing is deleted or compared at the start.
LEMMA DeletedInit == Init => DeletedInv /\ SeasonInv
BY DEF Init, Blank, DeletedInv, SeasonInv, Running, Idle, Body

\* A row that is resolved and belongs to a season, directly or by its stage, belongs to
\* the competition of that season.
LEMMA RowIn ==
  ASSUME NoOrphans, NEW x, NEW c, Resolved(x),
         \/ x.table = "seasons" /\ x.competition = c
         \/ x.table = "stages" /\ SeasonIn(x.season, c)
         \/ x.table = "groups" /\ StageIn(x.stage, c)
  PROVE  CompetitionOf(x) = c
<1>1. CASE x.table = "seasons"
  BY <1>1 DEF CompetitionOf
<1>2. ASSUME NEW y, y.table = "stages", Resolved(y), SeasonIn(y.season, c)
      PROVE  rows[y.season].competition = c
  <2>1. y.season \in Table(ForeignKeys[y.table]["season"])
    BY <1>2, TreeColumns DEF Resolved, SeasonIn
  <2> QED
    BY <1>2, <2>1 DEF SeasonIn, Table
<1>3. CASE x.table = "stages" /\ SeasonIn(x.season, c)
  BY <1>2, <1>3 DEF CompetitionOf
<1>4. CASE x.table = "groups" /\ StageIn(x.stage, c)
  <2>1. x.stage \in Table(ForeignKeys[x.table]["stage"])
    BY <1>4, TreeColumns DEF Resolved, StageIn
  <2>2. x.stage \in DOMAIN rows
    BY <2>1 DEF Table
  <2>3. rows[rows[x.stage].season].competition = c
    BY <1>2, <1>4, <2>2 DEF StageIn, NoOrphans
  <2> QED
    BY <1>4, <2>3 DEF CompetitionOf
<1> QED
  BY <1>1, <1>3, <1>4

\* A commit inserts and deletes only what is in the competition of the URL.
LEMMA PlacesCommit ==
  ASSUME NEW r \in Req, TypeInv, LocksInv, RefsInv, InsertionInv, ClimbInv, DeletedInv,
         SeasonInv, Commits(r), Kind(r) \in Placing
  PROVE  /\ \A id \in DOMAIN req[r].new : CompetitionOf(req[r].new[id]) = Body(r).competition
         /\ \A id \in req[r].gone : CompetitionOf(rows[id]) = Body(r).competition
<1> DEFINE q == req[r]
           b == Body(r)
<1>1. /\ Running(r) /\ q.todo = <<>> /\ RequestOK(r) /\ b # None /\ IsRequest(b)
      /\ Kind(r) = b.kind /\ b.kind \in Placing /\ NoOrphans
  BY DEF Commits, TypeInv, RequestOK, Running, Idle, Kind, Body, RefsInv
<1>2. b.kind \in Climbing => In(Foot(b), b.competition)
  BY <1>1 DEF ClimbInv, ClimbOK, AtClimb
<1>3. ASSUME NEW id \in DOMAIN q.new PROVE CompetitionOf(q.new[id]) = b.competition
  <2>1. b.kind \in Inserting
    BY <1>1 DEF RequestOK, Placing, Filling, Body
  <2>2. q.new[id] = q.row /\ q.row = b.row /\ Resolved(b.row)
    BY <1>1, <1>3, <2>1 DEF InsertionInv, InsertionOK, Placing, Body, Kind, RefsInv
  <2>3. b.row.table = Entity[b.kind]
    BY <1>1, <2>1, InsertingRuns DEF IsRequest, Placing
  <2>4. CASE b.kind = "create_season"
    <3>0. Running(r) /\ Kind(r) = "create_season" /\ req[r].todo = <<>>
      BY <1>1, <2>4
    <3>1. Body(r).row.competition = Body(r).competition
      BY <3>0, Tails DEF SeasonInv
    <3>2. b.row.table = "seasons"
      BY <2>3, <2>4, EntityTables
    <3> QED
      BY <2>2, <3>1, <3>2 DEF CompetitionOf
  <2>5. CASE b.kind = "create_stage"
    <3>1. Foot(b) = [table |-> "seasons", id |-> b.row.season]
      BY <1>1, <2>5, FootPlace DEF Climbing
    <3>2. SeasonIn(b.row.season, b.competition)
      BY <1>2, <2>5, <3>1 DEF In, Climbing
    <3> QED
      BY <1>1, <2>2, <2>3, <2>5, <3>2, RowIn, EntityTables
  <2>6. CASE b.kind = "create_group"
    <3>1. Foot(b) = [table |-> "stages", id |-> b.row.stage]
      BY <1>1, <2>6, FootPlace DEF Climbing
    <3>2. StageIn(b.row.stage, b.competition)
      BY <1>2, <2>6, <3>1 DEF In, Climbing
    <3> QED
      BY <1>1, <2>2, <2>3, <2>6, <3>2, RowIn, EntityTables
  <2> QED
    BY <1>1, <2>1, <2>4, <2>5, <2>6 DEF Placing, Inserting
<1>4. ASSUME NEW id \in q.gone PROVE CompetitionOf(rows[id]) = b.competition
  <2>1. b.kind \in Deleting /\ b.kind \in Climbing /\ id = b.id
    BY <1>1, <1>4 DEF RequestOK, Placing, Filling, Deleting, Climbing, Body
  <2>2. id \in DOMAIN rows /\ rows[id].table = Entity[b.kind]
    BY <1>1, <1>4, <2>1 DEF LocksInv, Locked, DeletedInv
  <2>3. Resolved(rows[id])
    BY <1>1, <2>2 DEF NoOrphans
  <2>4. Foot(b) = [table |-> Entity[b.kind], id |-> id]
    BY <1>1, <2>1, FootPlace
  <2>5. In(Foot(b), b.competition)
    BY <1>2, <2>1
  <2>6. \/ rows[id].table = "seasons" /\ rows[id].competition = b.competition
        \/ rows[id].table = "stages" /\ SeasonIn(rows[id].season, b.competition)
        \/ rows[id].table = "groups" /\ StageIn(rows[id].stage, b.competition)
    BY <2>2, <2>4, <2>5 DEF In, SeasonIn, StageIn, GroupIn
  <2> QED
    BY <1>1, <2>3, <2>6, RowIn
<1> QED
  BY <1>3, <1>4

\* Whatever season, stage or group a request creates or deletes belongs to the
\* competition of its URL when that takes effect.
THEOREM EntriesAreInPlace == Spec => InItsCompetition
<1> DEFINE A ==
      \A r \in Req : Accepted(r) /\ "competition" \in DOMAIN Body(r) =>
        \A x \in {req[r].new[id] : id \in DOMAIN req[r].new} \cup {rows[id] : id \in req[r].gone} :
          CompetitionOf(x) = Body(r).competition
    I == /\ TypeInv /\ LocksInv /\ TargetsInv /\ RefsInv /\ InsertionInv /\ NamesInv /\ ClimbInv
         /\ DeletedInv /\ SeasonInv
<1>1. ASSUME I, [Next]_vars PROVE A
  <2> SUFFICES ASSUME NEW r \in Req, Accepted(r), "competition" \in DOMAIN Body(r)
               PROVE  /\ \A id \in DOMAIN req[r].new :
                           CompetitionOf(req[r].new[id]) = Body(r).competition
                      /\ \A id \in req[r].gone : CompetitionOf(rows[id]) = Body(r).competition
    OBVIOUS
  <2>0. RequestOK(r) /\ req[r].body # None /\ Kind(r) \in Placing
    BY <1>1 DEF TypeInv, RequestOK, IsRequest, Accepted, Running, Idle, Kind, Body
  <2>1. CASE Commits(r)
    BY <1>1, <2>0, <2>1, PlacesCommit
  <2>2. CASE Kind(r) = "get_standings"
    BY <2>0, <2>2 DEF RequestOK, Kind, Inserting, Filling, Deleting
  <2> QED
    BY <1>1, <2>1, <2>2, AcceptedCommits
<1>2. I /\ [Next]_vars => [A]_vars
  BY <1>1
<1>3. Init => I
  BY TypeInit, LocksInit, TargetsInit, RefsInit, InsertionInit, NamesHold, ClimbInit, DeletedInit
<1>4. I /\ [Next]_vars => I'
  BY TypeNext, LocksNext, TargetsNext, RefsNext, InsertionNext, NamesHold, ClimbNext, DeletedNext,
     SeasonNext
<1> QED
  BY <1>2, <1>3, <1>4, PTL DEF Spec, InItsCompetition

-----------------------------------------------------------------------------
(* Standings.  Every season is one that was there at the start or one that an      *)
(* accepted request has created, so two active ones of a competition, or one that   *)
(* has gone, are somebody's doing.                                                  *)

Original(s) ==
  /\ s \in DOMAIN Rows0 /\ Rows0[s].table = "seasons"
  /\ rows[s].active = Rows0[s].active /\ rows[s].competition = Rows0[s].competition
Created(s) ==
  /\ s \in Req /\ req[s].status = 200 /\ Kind(s) = "create_season"
  /\ Body(s).row.active = rows[s].active /\ Body(s).competition = rows[s].competition
OriginInv == \A s \in Table("seasons") : Original(s) \/ Created(s)

\* What get_standings has found for b: the season asked for, or one of the competition.
Served(b, s) ==
  /\ s \in Table("seasons")
  /\ IF b.season # None THEN s = b.season ELSE rows[s].competition = b.competition
TablesOK(r) ==
  \/ req[r].todo = <<"season", "tables">>
  \/ /\ req[r].todo = <<"tables">>
     /\ \A s \in req[r].found : Served(Body(r), s) \/ Unsettled(Body(r))
TablesInv == \A r \in Req : Running(r) /\ Kind(r) = "get_standings" => TablesOK(r)

\* A request that has ended does nothing more.
LEMMA EndedStays ==
  ASSUME TypeInv, [Next]_vars, NEW q \in Req, req[q].status # 0
  PROVE  req'[q] = req[q]
<1>1. ~Running(q) /\ ~\E b : Starts(q, b)
  BY DEF Running, Starts, TypeInv, RequestOK
<1>2. ~Outcome(q) /\ ~Commits(q)
  BY <1>1 DEF Outcome, Ends, Goes, Commits
<1> QED
  BY <1>1, <1>2, Steps DEF vars, Alone, Outcome, Commits

\* What somebody has done to the seasons of a competition stays done.
LEMMA UnsettledStays ==
  ASSUME TypeInv, [Next]_vars, NEW b, Unsettled(b)
  PROVE  Unsettled(b)'
<1>1. PICK q \in Req :
        /\ req[q].status = 200
        /\ \/ /\ Kind(q) = "create_season" /\ Body(q).row.active
              /\ Body(q).competition = b.competition
           \/ /\ Kind(q) = "delete_season"
              /\ Body(q).competition = b.competition \/ Body(q).id = b.season
  BY DEF Unsettled
<1>2. req'[q] = req[q]
  BY <1>1, EndedStays
<1> QED
  BY <1>1, <1>2 DEF Unsettled, Kind, Body

\* Every step keeps where the seasons come from.
LEMMA OriginNext ==
  ASSUME TypeInv, InsertionInv, SeasonInv, OriginInv, [Next]_vars
  PROVE  OriginInv'
<1> SUFFICES ASSUME NEW s \in DOMAIN rows', rows'[s].table = "seasons"
             PROVE  Original(s)' \/ Created(s)'
  BY DEF OriginInv, Table, Original, Created
<1>1. CASE s \in DOMAIN rows
  <2>1. rows[s].table = "seasons" /\ rows'[s].competition = rows[s].competition
    BY <1>1, RowsKept, TreeColumns
  <2>2. rows'[s].active = rows[s].active
    <3>1. "active" \in Fixed \cap DOMAIN rows[s]
      BY <1>1, <2>1, FixedColumns DEF TypeInv, RowsOK, Whole
    <3> QED
      BY <1>1, <3>1, FixedKept
  <2>3. CASE Original(s)
    BY <2>1, <2>2, <2>3 DEF Original
  <2>4. CASE Created(s)
    <3>1. req'[s] = req[s]
      BY <2>4, EndedStays DEF Created
    <3> QED
      BY <2>1, <2>2, <2>4, <3>1 DEF Created, Kind, Body
  <2> QED
    BY <1>1, <2>1, <2>3, <2>4 DEF OriginInv, Table
<1>2. ASSUME NEW r \in Req, Commits(r), s \in DOMAIN req[r].new
      PROVE  Created(s)'
  <2>1. rows'[s] = req[r].new[s]
    BY <1>2 DEF Commits, Committed
  <2>2. /\ Running(r) /\ Kind(r) = "create_season" /\ s = r /\ rows'[s] = req[r].row
        /\ InsertionOK(r) /\ req[r].todo = <<>>
    BY <1>2, <2>1, NewRows, EntityTables
  <2>3. req[r].row = Body(r).row
    BY <2>2 DEF InsertionOK
  <2>4. Body(r).row.competition = Body(r).competition
    BY <2>2, Tails DEF SeasonInv
  <2>5. req'[r].status = 200 /\ req'[r].body = req[r].body
    BY <1>2 DEF Commits, Ends
  <2> QED
    BY <2>2, <2>3, <2>4, <2>5 DEF Created, Kind, Body
<1> QED
  BY <1>1, <1>2, Steps DEF Commits, Committed, vars, Alone, Outcome

\* A season that was found stays, or somebody deletes it.
LEMMA ServedStays ==
  ASSUME TypeInv, LocksInv, RefsInv, InsertionInv, ClimbInv, DeletedInv, SeasonInv,
         [Next]_vars, NEW b, NEW s, Served(b, s)
  PROVE  Served(b, s)' \/ Unsettled(b)'
<1>1. s \in DOMAIN rows /\ rows[s].table = "seasons"
  BY DEF Served, Table
<1>2. CASE s \in DOMAIN rows'
  BY <1>1, <1>2, RowsKept, TreeColumns DEF Served, Table
<1>3. ASSUME NEW p \in Req, Commits(p), s \notin DOMAIN rows' PROVE Unsettled(b)'
  <2>1. s \in req[p].gone /\ Running(p) /\ RequestOK(p)
    BY <1>1, <1>3 DEF Commits, Committed, TypeInv
  <2>2. Kind(p) \in Deleting
    BY <1>1, <2>1 DEF RefsInv, Parents
  <2>3. Kind(p) = "delete_season"
    BY <1>1, <2>1, <2>2, EntityTables DEF DeletedInv
  <2>4. Body(p).id = s
    BY <2>1, <2>3 DEF RequestOK, Kind, Body, Filling
  <2>5. Body(p).competition = rows[s].competition
    <3>1. CompetitionOf(rows[s]) = Body(p).competition
      BY <1>3, <2>1, <2>3, PlacesCommit DEF Placing
    <3> QED
      BY <1>1, <3>1 DEF CompetitionOf
  <2>6. Body(p).competition = b.competition \/ Body(p).id = b.season
    BY <2>4, <2>5 DEF Served
  <2>7. req'[p].status = 200 /\ req'[p].body = req[p].body
    BY <1>3 DEF Commits, Ends
  <2> QED
    BY <2>3, <2>6, <2>7 DEF Unsettled, Kind, Body
<1> QED
  BY <1>1, <1>2, <1>3, Steps DEF vars, Alone, Outcome

\* The steps of others.
LEMMA TablesStays ==
  ASSUME TypeInv, LocksInv, RefsInv, InsertionInv, ClimbInv, DeletedInv, SeasonInv,
         [Next]_vars, NEW r \in Req, TablesOK(r), req'[r] = req[r]
  PROVE  TablesOK(r)'
<1>1. CASE req[r].todo = <<"season", "tables">>
  BY <1>1 DEF TablesOK
<1>2. CASE /\ req[r].todo = <<"tables">>
           /\ \A s \in req[r].found : Served(Body(r), s) \/ Unsettled(Body(r))
  <2>1. PICK b : b = Body(r)
    OBVIOUS
  <2>2. Body(r)' = b
    BY <2>1 DEF Body
  <2>3. \A s \in req[r].found : Served(b, s)' \/ Unsettled(b)'
    BY <1>2, <2>1, ServedStays, UnsettledStays
  <2>4. \A s \in req'[r].found : (Served(Body(r), s))' \/ (Unsettled(Body(r)))'
    BY <2>2, <2>3 DEF Served, Unsettled
  <2> QED
    BY <1>2, <2>4 DEF TablesOK
<1> QED
  BY <1>1, <1>2 DEF TablesOK

\* The query for the season finds what it is asked for.
LEMMA TablesWorks ==
  ASSUME TypeInv, NEW r \in Req, Works(r), TablesOK(r), Body(r)' = Body(r)
  PROVE  TablesOK(r)'
<1> DEFINE q == req[r]
           s == req'[r]
<1>1. /\ DOMAIN req = Req /\ DOMAIN q = Fields /\ Running(r) /\ rows' = rows /\ s.status = 0
      /\ Handle(r) /\ ~Commit(r)
  BY DEF TypeInv, RowsOK, RequestOK, Works, Goes, Alone
<1>2. \A code \in {200, 404, InternalError} : ~Answer(r, code)
  <2>1. \A code \in {200, 404, InternalError} : code \in Codes \ {0}
    BY DEF Codes, InternalError
  <2> QED
    BY <1>1, <2>1, AnswerEnds DEF Ends
<1>3. CASE q.todo = <<"season", "tables">>
  <2>1. FindSeason(r)
    BY <1>1, <1>3, AtStatement, Tails
  <2>2. PICK seasons :
          /\ seasons = IF Body(r).season # None THEN {Body(r).season} \cap Table("seasons")
                       ELSE ActiveSeasons(Body(r))
          /\ req' = [req EXCEPT ![r].todo = Tail(@), ![r].found = seasons]
    BY <1>2, <2>1 DEF FindSeason
  <2>3. s.todo = <<"tables">> /\ s.found = seasons
    BY <1>1, <1>3, <2>2, Tails DEF Fields
  <2>4. \A x \in seasons : Served(Body(r), x)
    BY <2>2 DEF ActiveSeasons, Served
  <2>5. \A x \in s.found : (Served(Body(r), x))'
    BY <1>1, <2>3, <2>4 DEF Served, Table
  <2> QED
    BY <2>3, <2>5 DEF TablesOK
<1>4. CASE q.todo = <<"tables">>
  <2>1. FindTables(r)
    BY <1>1, <1>4, AtStatement, Tails
  <2> QED
    BY <1>2, <2>1 DEF FindTables
<1> QED
  BY <1>3, <1>4 DEF TablesOK

\* Nobody reads standings at the start.
LEMMA TablesInit == Init => OriginInv /\ TablesInv
BY DEF Init, Blank, OriginInv, Original, Table, TablesInv, Running, Idle, Body

\* Every step keeps what the readers have found.
LEMMA TablesNext ==
  ASSUME TypeInv, LocksInv, RefsInv, InsertionInv, ClimbInv, DeletedInv, SeasonInv, TablesInv,
         [Next]_vars
  PROVE  TablesInv'
<1> SUFFICES ASSUME NEW q \in Req, Running(q)', Kind(q)' = "get_standings" PROVE TablesOK(q)'
  BY DEF TablesInv
<1>1. CASE Running(q) /\ req'[q] = req[q]
  BY <1>1, OthersKeep, TablesStays DEF TablesInv
<1>2. CASE Alone(q) /\ \E b : Starts(q, b) /\ Body(q)' = b
  <2>1. PICK b : Starts(q, b) /\ Body(q)' = b
    BY <1>2
  <2>2. b.kind = "get_standings"
    BY <2>1 DEF Kind, Body
  <2> QED
    BY <2>1, <2>2 DEF Starts, Handlers, get_standings, TablesOK
<1>3. CASE Works(q) /\ Running(q) /\ Body(q)' = Body(q)
  <2>1. TablesOK(q)
    BY <1>3 DEF TablesInv, Kind, Body
  <2> QED
    BY <1>3, <2>1, TablesWorks
<1> QED
  BY <1>1, <1>2, <1>3, Frame

\* A competition that has two active seasons has got one of them from a request.
LEMMA TwoSeasons ==
  ASSUME OriginInv, NEW b, Cardinality(ActiveSeasons(b)) > 1
  PROVE  Unsettled(b)
<1>1. PICK s, t : s \in ActiveSeasons(b) /\ t \in ActiveSeasons(b) /\ s # t
  <2>1. ActiveSeasons(b) # {}
    BY FS_EmptySet
  <2>2. PICK s : s \in ActiveSeasons(b)
    BY <2>1
  <2>3. ActiveSeasons(b) # {s}
    BY FS_Singleton
  <2> QED
    BY <2>2, <2>3
<1>2. \A x \in {s, t} : /\ x \in Table("seasons") /\ rows[x].active
                        /\ rows[x].competition = b.competition
  BY <1>1 DEF ActiveSeasons
<1>3. ASSUME NEW x \in {s, t}, Created(x) PROVE Unsettled(b)
  BY <1>2, <1>3 DEF Created, Unsettled
<1>4. CASE Original(s) /\ Original(t)
  BY <1>1, <1>2, <1>4, SeasonsAreSingle DEF Original
<1> QED
  BY <1>2, <1>3, <1>4 DEF OriginInv

\* What makes a reading of the standings fail.
LEMMA TablesFail ==
  ASSUME TypeInv, OriginInv, TablesInv, [Next]_vars, NEW r \in Req, Running(r),
         Kind(r) = "get_standings", req'[r].status = InternalError
  PROVE  Unsettled(Body(r))
<1> DEFINE q == req[r]
           b == Body(r)
<1>1. /\ Handle(r) /\ ~Commit(r) /\ DOMAIN req = Req /\ DOMAIN q = Fields /\ q.status = 0
      /\ rows' = rows
  BY RefusedByStatement DEF InternalError, Lost, TypeInv, RowsOK, RequestOK, Running
<1>2. CASE q.todo = <<"season", "tables">>
  <2>1. FindSeason(r)
    BY <1>1, <1>2, AtStatement, Tails
  <2>2. PICK seasons :
          /\ seasons = IF b.season # None THEN {b.season} \cap Table("seasons")
                       ELSE ActiveSeasons(b)
          /\ \/ Cardinality(seasons) > 1
             \/ req' = [req EXCEPT ![r].todo = Tail(@), ![r].found = seasons]
    BY <2>1 DEF FindSeason
  <2>3. Cardinality(seasons) > 1
    <3>1. ASSUME req' = [req EXCEPT ![r].todo = Tail(@), ![r].found = seasons] PROVE FALSE
      <4>1. req'[r].status = q.status
        BY <1>1, <3>1 DEF Fields
      <4> QED
        BY <1>1, <4>1 DEF InternalError
    <3> QED
      BY <2>2, <3>1
  <2>4. b.season = None
    <3>1. ASSUME b.season # None PROVE FALSE
      <4>1. PICK x : x = b.season
        OBVIOUS
      <4>2. seasons = {} \/ seasons = {x}
        BY <2>2, <3>1, <4>1
      <4>3. Cardinality({}) = 0 /\ Cardinality({x}) = 1
        BY FS_EmptySet, FS_Singleton
      <4> QED
        BY <2>3, <4>2, <4>3
    <3> QED
      BY <3>1
  <2> QED
    BY <2>2, <2>3, <2>4, TwoSeasons
<1>3. CASE /\ q.todo = <<"tables">>
           /\ \A s \in q.found : Served(b, s) \/ Unsettled(b)
  <2>1. FindTables(r)
    BY <1>1, <1>3, AtStatement, Tails
  <2>2. \A code : Answer(r, code) => code = InternalError
    BY <1>1 DEF Answer, Blank
  <2>3. ~(q.found \subseteq Table("seasons"))
    BY <2>1, <2>2 DEF FindTables, InternalError
  <2> QED
    BY <1>3, <2>3 DEF Served
<1> QED
  BY <1>2, <1>3 DEF TablesInv, TablesOK

\* The standings of a competition fail only when somebody has started a second active
\* season of it, or deleted one.
THEOREM TablesFailOnlyIfUnsettled == Spec => TablesFailOnlyUnsettled
<1> DEFINE A ==
      \A r \in Req :
        Running(r) /\ Kind(r) = "get_standings" /\ req'[r].status = InternalError =>
          Unsettled(Body(r))
    I == /\ TypeInv /\ LocksInv /\ TargetsInv /\ RefsInv /\ InsertionInv /\ NamesInv /\ ClimbInv
         /\ DeletedInv /\ SeasonInv /\ OriginInv /\ TablesInv
<1>1. ASSUME I, [Next]_vars PROVE A
  BY <1>1, TablesFail
<1>2. I /\ [Next]_vars => [A]_vars
  BY <1>1
<1>3. Init => I
  BY TypeInit, LocksInit, TargetsInit, RefsInit, InsertionInit, NamesHold, ClimbInit, DeletedInit,
     TablesInit
<1>4. I /\ [Next]_vars => I'
  BY TypeNext, LocksNext, TargetsNext, RefsNext, InsertionNext, NamesHold, ClimbNext, DeletedNext,
     SeasonNext, OriginNext, TablesNext
<1> QED
  BY <1>2, <1>3, <1>4, PTL DEF Spec, TablesFailOnlyUnsettled

-----------------------------------------------------------------------------
(* What is asked is what is written: the columns of an update, the row of a      *)
(* deletion, the items of a sheet.                                               *)

\* The columns that an update or a review assigns, by its kind.
Assigns(r) ==
  IF Kind(r) = "review_item" THEN Decision(r)
  ELSE IF Kind(r) = "update_article" THEN Edits(r) ELSE Body(r).columns
\* r is past its last write of a column, of a deletion.
UpdateOK(r) ==
  req[r].todo = <<>> \/ Head(req[r].todo) = "unique" =>
    \/ Updated(r) = {} /\ DOMAIN Dirty(r, Assigns(r)) = {}
    \/ Updated(r) = {Body(r).id} /\ req[r].set[Body(r).id] = Dirty(r, Assigns(r))
DeleteOK(r) ==
  req[r].todo = <<>> \/ Head(req[r].todo) = "referenced" => req[r].gone = {Body(r).id}
InsertOK(r) == req[r].todo = <<>> => r \in DOMAIN req[r].new
ItemsOK(r) == \A id \in DOMAIN req[r].new : req[r].new[id] = Item(Body(r), id[2])
AskedOK(r) ==
  /\ Kind(r) \in Loaders => UpdateOK(r)
  /\ Kind(r) \in Deleting => DeleteOK(r)
  /\ Kind(r) \in Inserting => InsertOK(r)
  /\ Kind(r) \in Filling => ItemsOK(r)
  /\ Kind(r) = "get_standings" => req[r].todo # <<>>
AskedInv == \A r \in Req : Running(r) => AskedOK(r)

\* Nothing is written when a request arrives.
LEMMA AskedStarts ==
  ASSUME NEW r \in Req, NEW b, Starts(r, b)
  PROVE  AskedOK(r)'
<1>1. /\ req'[r].todo = Handlers[b.kind] /\ b.kind \in DOMAIN Handlers /\ Kind(r)' = b.kind
      /\ DOMAIN req'[r].new = {}
  BY DEF Starts, IsRequest, Kind
<1>2. Handlers[b.kind] # <<>> /\ Head(Handlers[b.kind]) \notin {"unique", "referenced"}
  BY <1>1, HandlerTable DEF HandlerOf
<1> QED
  BY <1>1, <1>2 DEF AskedOK, UpdateOK, DeleteOK, InsertOK, ItemsOK

\* The steps of others.
LEMMA AskedStays ==
  ASSUME NEW r \in Req, AskedOK(r), req'[r] = req[r]
  PROVE  AskedOK(r)'
BY DEF AskedOK, UpdateOK, DeleteOK, InsertOK, ItemsOK, Assigns, Dirty, Decision, Edits, Updated,
       Kind, Body

\* An update writes the columns that differ, in one statement.
LEMMA UpdateWorks ==
  ASSUME TypeInv, NEW r \in Req, Works(r), Kind(r) \in Loaders, UpdateOK(r)
  PROVE  UpdateOK(r)'
<1> DEFINE q == req[r]
           s == req'[r]
           t == req[r].todo
           id == Body(r).id
<1>1. /\ DOMAIN req = Req /\ DOMAIN q = Fields /\ Running(r) /\ t # <<>> /\ rows' = rows
      /\ s.status = 0 /\ s.body = q.body /\ Placed(Kind(r), t) /\ RequestOK(r)
      /\ s.todo = Tail(t) \/ (s.todo = t /\ Head(t) \in {"climb", "fill"})
  <2>1. Placed(Kind(r), t) /\ RequestOK(r) /\ DOMAIN req = Req
    BY GoesOn DEF TypeInv, RowsOK, Works, Kind, Body
  <2>2. DOMAIN q = Fields
    BY DEF TypeInv, RequestOK
  <2> QED
    BY <2>1, <2>2 DEF Works, Goes, Alone
<1>2. Kind(r)' = Kind(r) /\ Body(r)' = Body(r)
  BY <1>1 DEF Kind, Body
<1>3. s.row = q.row => Assigns(r)' = Assigns(r) /\ Dirty(r, Assigns(r))' = Dirty(r, Assigns(r))
  BY <1>2 DEF Assigns, Decision, Edits, Dirty
<1>4. CASE Head(t) \in {"update", "edit", "review", "update_player"}
  <2>1. UpdateEntry(r) \/ EditArticle(r) \/ Review(r) \/ UpdatePlayer(r)
    BY <1>4, AtStatement DEF Works
  <2>2. Change(r, Assigns(r))
    <3>1. CASE UpdateEntry(r)
      BY <1>1, <3>1, Kinds DEF UpdateEntry, At, Placed, Assigns, Kind, Updating
    <3>2. CASE EditArticle(r)
      BY <1>1, <3>2 DEF EditArticle, At, Placed, Assigns, Kind
    <3>3. CASE Review(r)
      BY <1>1, <3>3 DEF Review, At, Placed, Assigns, Kind
    <3>4. CASE UpdatePlayer(r)
      BY <1>1, <3>4 DEF UpdatePlayer, At, Placed, Assigns, Kind
    <3> QED
      BY <2>1, <3>1, <3>2, <3>3, <3>4
  <2>3. ~Answer(r, InternalError)
    BY <1>1, AnswerEnds DEF Ends, Codes, InternalError
  <2>4. Updated(r) = {}
    BY <1>1, <1>4 DEF RequestOK, Updated, Body
  <2>5. \/ DOMAIN Dirty(r, Assigns(r)) = {} /\ Proceed(r)
        \/ req' = [req EXCEPT ![r].todo = Tail(@),
                              ![r].set = [x \in {id} |-> Dirty(r, Assigns(r))]]
    BY <2>2, <2>3 DEF Change
  <2>6. s.row = q.row
    BY <1>4, RowKept
  <2>7. \/ DOMAIN Dirty(r, Assigns(r)) = {} /\ s.set = q.set
        \/ s.set = [x \in {id} |-> Dirty(r, Assigns(r))]
    BY <1>1, <2>5 DEF Proceed, Fields
  <2>8. \/ DOMAIN Dirty(r, Assigns(r))' = {} /\ Updated(r)' = {}
        \/ /\ Updated(r)' = {Body(r)'.id}
           /\ s.set[Body(r)'.id] = Dirty(r, Assigns(r))'
    BY <1>2, <1>3, <2>4, <2>6, <2>7 DEF Updated
  <2> QED
    BY <2>8 DEF UpdateOK
<1>5. CASE Head(t) = "unique"
  <2>1. EnterKey(r)
    BY <1>5, AtStatement DEF Works
  <2>2. ~Answer(r, IntegrityViolation)
    BY <1>1, AnswerEnds DEF Ends, Codes, IntegrityViolation
  <2>3. s.set = q.set /\ s.row = q.row
    BY <1>1, <2>1, <2>2 DEF EnterKey, Proceed, Fields
  <2>4. Updated(r)' = Updated(r)
    BY <2>3 DEF Updated
  <2> QED
    BY <1>2, <1>3, <1>5, <2>3, <2>4 DEF UpdateOK
<1>6. CASE Head(t) \notin {"update", "edit", "review", "update_player", "unique"}
  <2>1. Head(t) \notin {"climb", "fill"}
    BY <1>1 DEF Placed, Loaders, Updating, Climbing, Filling
  <2>2. Tail(t) # <<>> /\ Head(Tail(t)) # "unique"
    BY <1>1, <1>6 DEF Placed, Follows, Loaders
  <2> QED
    BY <1>1, <2>1, <2>2 DEF UpdateOK
<1> QED
  BY <1>4, <1>5, <1>6

\* A deletion takes its row, before it looks for rows that refer to it.
LEMMA DeleteWorks ==
  ASSUME TypeInv, NEW r \in Req, Works(r), Kind(r) \in Deleting, DeleteOK(r)
  PROVE  DeleteOK(r)'
<1> DEFINE q == req[r]
           s == req'[r]
           t == req[r].todo
<1>1. /\ DOMAIN req = Req /\ DOMAIN q = Fields /\ Running(r) /\ t # <<>> /\ rows' = rows
      /\ s.status = 0 /\ Body(r)' = Body(r) /\ Placed(Kind(r), t)
      /\ s.todo = Tail(t) \/ (s.todo = t /\ Head(t) \in {"climb", "fill"})
  <2>1. Placed(Kind(r), t) /\ DOMAIN req = Req
    BY GoesOn DEF TypeInv, RowsOK, Works, Kind, Body
  <2>2. DOMAIN q = Fields
    BY DEF TypeInv, RequestOK
  <2> QED
    BY <2>1, <2>2 DEF Works, Goes, Alone, Body
<1>2. CASE Head(t) = "delete"
  <2>1. Delete(r)
    BY <1>2, AtStatement DEF Works
  <2>2. ~Answer(r, 404)
    BY <1>1, AnswerEnds DEF Ends, Codes
  <2>3. s.gone = {Body(r).id}
    BY <1>1, <2>1, <2>2 DEF Delete, Fields
  <2> QED
    BY <1>1, <2>3 DEF DeleteOK
<1>3. CASE Head(t) = "referenced"
  <2>1. LetGo(r)
    BY <1>3, AtStatement DEF Works
  <2>2. ~Answer(r, IntegrityViolation)
    BY <1>1, AnswerEnds DEF Ends, Codes, IntegrityViolation
  <2>3. s.gone = q.gone
    BY <1>1, <2>1, <2>2 DEF LetGo, Proceed, Fields
  <2> QED
    BY <1>1, <1>3, <2>3 DEF DeleteOK
<1>4. CASE Head(t) \notin {"delete", "referenced"}
  <2>1. Tail(t) # <<>> /\ Head(Tail(t)) # "referenced"
    BY <1>1, <1>4 DEF Placed, Follows
  <2> QED
    BY <1>1, <1>4, <2>1 DEF DeleteOK
<1> QED
  BY <1>2, <1>3, <1>4

\* What a request runs last: an insertion inserts, and the tables are the answer.
LEMMA LastWorks ==
  ASSUME TypeInv, NEW r \in Req, Works(r)
  PROVE  /\ Kind(r) \in Inserting /\ InsertOK(r) => InsertOK(r)'
         /\ Kind(r) = "get_standings" => req'[r].todo # <<>>
<1> DEFINE q == req[r]
           s == req'[r]
           t == req[r].todo
<1>1. /\ DOMAIN req = Req /\ DOMAIN q = Fields /\ Running(r) /\ t # <<>> /\ rows' = rows
      /\ s.status = 0 /\ Placed(Kind(r), t) /\ (s.todo = Tail(t) \/ s.todo = t)
  <2>1. Placed(Kind(r), t) /\ DOMAIN req = Req
    BY GoesOn DEF TypeInv, RowsOK, Works, Kind, Body
  <2>2. DOMAIN q = Fields
    BY DEF TypeInv, RequestOK
  <2> QED
    BY <2>1, <2>2 DEF Works, Goes, Alone
<1>2. \A code \in Codes \ {0} : ~Answer(r, code)
  BY <1>1, AnswerEnds DEF Ends
<1>3. Head(t) = "insert" => r \in DOMAIN s.new
  <2> SUFFICES ASSUME Head(t) = "insert" PROVE r \in DOMAIN s.new
    OBVIOUS
  <2>1. Insert(r)
    BY AtStatement DEF Works
  <2>2. ~Answer(r, IntegrityViolation)
    BY <1>2 DEF Codes, IntegrityViolation
  <2>3. req' = [req EXCEPT ![r].todo = Tail(@), ![r].new = [id \in {r} |-> q.row]]
    BY <2>1, <2>2 DEF Insert
  <2> QED
    BY <1>1, <2>3 DEF Fields
<1>4. Head(t) # "tables"
  <2> SUFFICES ASSUME Head(t) = "tables" PROVE FALSE
    OBVIOUS
  <2>1. FindTables(r)
    BY AtStatement DEF Works
  <2> QED
    BY <1>2, <2>1 DEF FindTables, Codes, InternalError
<1> QED
  BY <1>1, <1>3, <1>4 DEF Placed, InsertOK

\* A submission inserts its items.
LEMMA ItemsWork ==
  ASSUME TypeInv, NEW r \in Req, Works(r), Kind(r) \in Filling, ItemsOK(r)
  PROVE  ItemsOK(r)'
<1>1. Body(r)' = Body(r) /\ Placed(Kind(r), req[r].todo)
  BY GoesOn DEF TypeInv, Works, Goes, Kind, Body
<1>2. CASE Fills(r)
  <2>1. req'[r].new = Over(NextRows(r), req[r].new)
    BY <1>2 DEF Fills
  <2>2. \A id \in DOMAIN NextRows(r) : NextRows(r)[id] = Item(Body(r), id[2])
    BY DEF NextRows
  <2>3. \A id \in DOMAIN req'[r].new : req'[r].new[id] = Item(Body(r), id[2])
    BY <2>1, <2>2 DEF Over, ItemsOK
  <2> QED
    BY <1>1, <2>3 DEF ItemsOK, Item
<1>3. CASE ~Fills(r)
  <2>1. ~Inserts(r)
    BY <1>1, Kinds DEF Inserts, Insert, At, Placed
  <2>2. req'[r].new = req[r].new
    BY <1>3, <2>1 DEF Works, Outcome, Goes, Ends, Keeps, Holds, Writes, Changes, Removes
  <2> QED
    BY <1>1, <2>2 DEF ItemsOK, Item
<1> QED
  BY <1>2, <1>3

\* Nothing is asked at the start.
LEMMA AskedInit == Init => AskedInv
BY DEF Init, Blank, AskedInv, Running, Idle, Body
\* Every step keeps what is written as it was asked.
LEMMA AskedNext ==
  ASSUME TypeInv, AskedInv, [Next]_vars
  PROVE  AskedInv'
<1> SUFFICES ASSUME NEW q \in Req, Running(q)' PROVE AskedOK(q)'
  BY DEF AskedInv
<1>1. CASE Running(q) /\ req'[q] = req[q]
  BY <1>1, AskedStays DEF AskedInv
<1>2. CASE Alone(q) /\ \E b : Starts(q, b) /\ Body(q)' = b
  BY <1>2, AskedStarts
<1>3. CASE Works(q) /\ Running(q) /\ Body(q)' = Body(q)
  <2>1. Kind(q)' = Kind(q) /\ AskedOK(q)
    BY <1>3 DEF AskedInv, Kind, Body
  <2> QED
    BY <1>3, <2>1, UpdateWorks, DeleteWorks, LastWorks, ItemsWork DEF AskedOK
<1> QED
  BY <1>1, <1>2, <1>3, Frame

-----------------------------------------------------------------------------
(* Favourites.  Nobody changes one, so it is still its user's when it goes. *)

\* What r was to remove, if it is there.
Owned(r) ==
  LET id == Body(r).id IN
  /\ Settled(id)
  /\ id \in DOMAIN rows => rows[id].table = "favorites" /\ rows[id].user = Body(r).user
DiscardOK(r) ==
  \/ req[r].todo = <<"own", "discard">>
  \/ req[r].todo = <<"discard">> /\ Owned(r)
  \/ req[r].todo = <<>> /\ Owned(r) /\ req[r].gone = {Body(r).id} \cap DOMAIN rows
DiscardInv == \A r \in Req : Running(r) /\ Kind(r) = "remove_favorite" => DiscardOK(r)

\* Favourites stay as they are.
LEMMA FavouritesKept ==
  ASSUME TypeInv, ReportInv, [Next]_vars, NEW x \in DOMAIN rows, x \in DOMAIN rows',
         rows[x].table = "favorites"
  PROVE  rows'[x] = rows[x]
<1>1. ASSUME NEW r \in Req, Commits(r) PROVE rows'[x] = rows[x]
  <2>1. x \notin Updated(r)
    <3> SUFFICES ASSUME x \in Updated(r) PROVE FALSE
      OBVIOUS
    <3>1. x = Body(r).id /\ Kind(r) \in Loaders /\ Running(r) /\ req[r].todo = <<>>
      BY <1>1 DEF Commits, TypeInv, RequestOK, Updated, Loaders, Kind, Body
    <3>2. Loaded(r)
      BY <3>1 DEF ReportInv, LoadedOK
    <3>3. Entity[Kind(r)] = "favorites"
      BY <3>1, <3>2 DEF Loaded
    <3>4. \A k \in Loaders : Entity[k] # "favorites"
      BY DEF Loaders, Updating, Entity
    <3> QED
      BY <3>1, <3>3, <3>4
  <2>2. x \notin DOMAIN req[r].new
    BY <1>1 DEF Commits, Committed
  <2> QED
    BY <1>1, <2>1, <2>2 DEF Commits, Committed
<1> QED
  BY <1>1, Steps DEF vars, Alone, Outcome

\* It stays its user's.
LEMMA OwnedStays ==
  ASSUME TypeInv, ReportInv, [Next]_vars, NEW r \in Req, Body(r)' = Body(r), Owned(r)
  PROVE  Owned(r)'
<1>1. Settled(Body(r).id)' /\ (Body(r).id \in DOMAIN rows' => Body(r).id \in DOMAIN rows)
  BY SettledRows DEF Owned
<1>2. Body(r).id \in DOMAIN rows' =>
        rows'[Body(r).id].table = "favorites" /\ rows'[Body(r).id].user = Body(r).user
  BY <1>1, FavouritesKept DEF Owned
<1> QED
  BY <1>1, <1>2 DEF Owned, Settled

\* The steps of others.
LEMMA DiscardStays ==
  ASSUME TypeInv, LocksInv', ReportInv, [Next]_vars, NEW r \in Req, DiscardOK(r),
         req'[r] = req[r]
  PROVE  DiscardOK(r)'
<1>1. Body(r)' = Body(r)
  BY DEF Body
<1>2. Owned(r) => Owned(r)'
  BY <1>1, OwnedStays
<1>3. ASSUME Owned(r), req[r].gone = {Body(r).id} \cap DOMAIN rows
      PROVE  req[r].gone = {Body(r).id} \cap DOMAIN rows'
  <2>1. Body(r).id \in DOMAIN rows' => Body(r).id \in DOMAIN rows
    BY <1>3, SettledRows DEF Owned
  <2>2. req[r].gone \subseteq DOMAIN rows'
    BY DEF LocksInv, Locked
  <2> QED
    BY <1>3, <2>1, <2>2
<1> QED
  BY <1>1, <1>2, <1>3 DEF DiscardOK

\* It is looked for among the user's own, and removed.
LEMMA DiscardWorks ==
  ASSUME TypeInv, ReportInv, [Next]_vars, NEW r \in Req, Works(r),
         Kind(r) = "remove_favorite", DiscardOK(r), Body(r)' = Body(r)
  PROVE  DiscardOK(r)'
<1> DEFINE q == req[r]
           s == req'[r]
           id == Body(r).id
<1>1. /\ DOMAIN req = Req /\ DOMAIN q = Fields /\ Running(r) /\ q.todo # <<>> /\ rows' = rows
      /\ s.status = 0
  <2>1. DOMAIN req = Req /\ DOMAIN q = Fields
    BY DEF TypeInv, RowsOK, RequestOK
  <2> QED
    BY <2>1 DEF Works, Goes, Alone
<1>2. CASE q.todo = <<"own", "discard">>
  <2>1. FindOwn(r)
    BY <1>2, AtStatement, Tails DEF Works
  <2>2. ~Answer(r, 404)
    BY <1>1, AnswerEnds DEF Ends, Codes
  <2>3. id \in Table("favorites") /\ rows[id].user = Body(r).user /\ Proceed(r)
    BY <2>1, <2>2 DEF FindOwn
  <2>4. Owned(r)
    BY <2>3, RowsSettled DEF Owned, Table, TypeInv
  <2>5. s.todo = <<"discard">>
    BY <1>1, <1>2, <2>3, Tails DEF Proceed, Fields
  <2> QED
    BY <2>4, <2>5, OwnedStays DEF DiscardOK
<1>3. CASE q.todo = <<"discard">> /\ Owned(r)
  <2>1. Discard(r)
    BY <1>3, AtStatement, Tails DEF Works
  <2>2. s.todo = <<>> /\ s.gone = {id} \cap DOMAIN rows'
    BY <1>1, <1>3, <2>1, Tails DEF Discard, Fields
  <2> QED
    BY <1>3, <2>2, OwnedStays DEF DiscardOK
<1> QED
  BY <1>1, <1>2, <1>3 DEF DiscardOK

\* No favourite is asked for at the start.
LEMMA DiscardInit == Init => DiscardInv
BY DEF Init, Blank, DiscardInv, Running, Idle, Body
\* Every step keeps this.
LEMMA DiscardNext ==
  ASSUME TypeInv, LocksInv', ReportInv, DiscardInv, [Next]_vars
  PROVE  DiscardInv'
<1> SUFFICES ASSUME NEW q \in Req, Running(q)', Kind(q)' = "remove_favorite"
             PROVE  DiscardOK(q)'
  BY DEF DiscardInv
<1>1. CASE Running(q) /\ req'[q] = req[q]
  BY <1>1, OthersKeep, DiscardStays DEF DiscardInv
<1>2. CASE Alone(q) /\ \E b : Starts(q, b) /\ Body(q)' = b
  <2>1. req'[q].todo = Handlers[Kind(q)']
    BY <1>2 DEF Starts, Kind, Body
  <2>2. Handlers["remove_favorite"] = <<"own", "discard">>
    BY DEF Handlers, remove_favorite
  <2> QED
    BY <2>1, <2>2 DEF DiscardOK
<1>3. CASE Works(q) /\ Running(q) /\ Body(q)' = Body(q)
  <2>1. Kind(q) = "remove_favorite" /\ DiscardOK(q)
    BY <1>3 DEF DiscardInv, Kind, Body
  <2> QED
    BY <1>3, <2>1, DiscardWorks
<1> QED
  BY <1>1, <1>2, <1>3, Frame

-----------------------------------------------------------------------------
(* The abstract store.  Every commit is the effect that the store promises for     *)
(* what was asked; the arrivals, the loading of a row and the refusals are steps of *)
(* the store too, and whatever else a statement does it does not show.              *)

\* What a commit leaves alone.
LEMMA CommitOnly ==
  ASSUME NEW r \in Req, TypeInv, Commits(r), NEW ids,
         DOMAIN req[r].new \cup Updated(r) \cup req[r].gone \subseteq ids
  PROVE  Store!Only(ids)
<1> SUFFICES ASSUME NEW x \in DOMAIN rows \cup DOMAIN rows', x \notin ids
             PROVE  x \in DOMAIN rows \cap DOMAIN rows' /\ rows'[x] = rows[x]
  BY DEF Store!Only
<1>1. x \notin DOMAIN req[r].new /\ x \notin Updated(r) /\ x \notin req[r].gone
  OBVIOUS
<1> QED
  BY <1>1 DEF Commits, Committed

\* What the request of a commit was.
LEMMA CommitAsked ==
  ASSUME NEW r \in Req, TypeInv, Commits(r)
  PROVE  /\ Committed(r) /\ Running(r) /\ RequestOK(r) /\ req[r].todo = <<>> /\ req[r].status = 0
         /\ Body(r) # None /\ IsRequest(Body(r)) /\ Kind(r) = Body(r).kind
         /\ [q \in Req |-> Body(q)][r] = Body(r)
BY DEF Commits, TypeInv, RequestOK, Running, Idle, Body, Kind

\* A request that inserts one row.
LEMMA CreateEffect ==
  ASSUME NEW r \in Req, TypeInv, InsertionInv, ArticleInv, AskedInv, Commits(r),
         Kind(r) \in Inserting
  PROVE  Store!Create(r)
<1> DEFINE q == req[r]
           b == Body(r)
<1>1. /\ Committed(r) /\ Running(r) /\ RequestOK(r) /\ q.todo = <<>> /\ IsRequest(b)
      /\ Kind(r) = b.kind
  BY CommitAsked
<1>2. InsertionOK(r)
  BY <1>1 DEF InsertionInv
<1>3. q.gone = {} /\ Updated(r) = {} /\ DOMAIN q.new \subseteq {r}
  BY <1>1, <1>2, Kinds DEF RequestOK, InsertionOK, Updated, Kind, Body
<1>4. r \in DOMAIN q.new
  BY <1>1 DEF AskedInv, AskedOK, InsertOK
<1>5. r \in DOMAIN rows' \ DOMAIN rows /\ rows'[r] = q.row
  BY <1>1, <1>2, <1>4 DEF Committed, InsertionOK
<1>6. Store!Only({r})
  BY <1>3, CommitOnly
<1>7. CASE Kind(r) = "create_article"
  <2>1. ArticleOK(r)
    BY <1>1, <1>7 DEF ArticleInv
  <2>2. \E slug \in {b.row.slug, Append(b.row.slug, r)} : q.row = [b.row EXCEPT !.slug = slug]
    BY <1>1, <2>1, Tails DEF ArticleOK
  <2> QED
    BY <1>1, <1>5, <1>6, <1>7, <2>2 DEF Store!Create
<1>8. CASE Kind(r) # "create_article"
  <2>1. q.row = b.row
    BY <1>1, <1>2, <1>8 DEF InsertionOK
  <2> QED
    BY <1>1, <1>5, <1>6, <1>8, <2>1 DEF Store!Create
<1> QED
  BY <1>7, <1>8

\* One that updates a row.
LEMMA SetEffect ==
  ASSUME NEW r \in Req, TypeInv, AskedInv, Commits(r), Kind(r) \in Loaders
  PROVE  Store!Set(r)
<1> DEFINE q == req[r]
           b == Body(r)
           id == Body(r).id
           S == Store!Assigned(r)
<1>1. /\ Committed(r) /\ Running(r) /\ RequestOK(r) /\ q.todo = <<>> /\ IsRequest(b)
      /\ Kind(r) = b.kind
  BY CommitAsked
<1>2. q.gone = {} /\ DOMAIN q.new = {}
  BY <1>1, Kinds DEF RequestOK, Loaders, Kind, Body
<1>3. \/ Updated(r) = {} /\ DOMAIN Dirty(r, Assigns(r)) = {}
      \/ Updated(r) = {id} /\ q.set[id] = Dirty(r, Assigns(r))
  BY <1>1 DEF AskedInv, AskedOK, UpdateOK
<1>4. Store!Only({id})
  BY <1>2, <1>3, CommitOnly
<1>5. DOMAIN rows' = DOMAIN rows
  BY <1>1, <1>2 DEF Committed
<1>6. DOMAIN S = DOMAIN Assigns(r) /\ \A c \in DOMAIN S : S[c] = Assigns(r)[c]
  <2>1. CASE b.kind = "review_item"
    <3>1. S = Decision(r)
      BY <1>1, <2>1 DEF Store!Assigned, Decision
    <3>2. Assigns(r) = Decision(r)
      BY <1>1, <2>1 DEF Assigns
    <3> HIDE DEF S
    <3> QED
      BY <3>1, <3>2
  <2>2. CASE b.kind = "update_article"
    <3> DEFINE published == Store!Publishes(b)
               one == [published_at |-> r]
    <3>1. Assigns(r) = IF published THEN Over(one, b.columns) ELSE b.columns
      BY <1>1, <2>2 DEF Assigns, Edits, Store!Publishes
    <3>2. S = IF published
              THEN [c \in DOMAIN b.columns \cup {"published_at"} |->
                      IF c = "published_at" THEN r ELSE b.columns[c]]
              ELSE b.columns
      BY <1>1, <2>2 DEF Store!Assigned
    <3>3. DOMAIN one = {"published_at"} /\ one["published_at"] = r
      OBVIOUS
    <3>4. /\ DOMAIN Over(one, b.columns) = DOMAIN b.columns \cup {"published_at"}
          /\ \A c \in DOMAIN b.columns \cup {"published_at"} :
               Over(one, b.columns)[c] = IF c = "published_at" THEN r ELSE b.columns[c]
      BY <3>3 DEF Over
    <3> HIDE DEF S, published, one
    <3> QED
      BY <3>1, <3>2, <3>4
  <2>3. CASE b.kind \notin {"review_item", "update_article"}
    BY <1>1, <2>3 DEF Store!Assigned, Store!Publishes, Assigns
  <2> QED
    BY <2>1, <2>2, <2>3
<1>7. ASSUME id \in DOMAIN rows
      PROVE  /\ DOMAIN rows'[id] = DOMAIN rows[id]
             /\ \A c \in DOMAIN rows[id] :
                  rows'[id][c] = IF c \in DOMAIN S /\ S[c] # q.row[c] THEN S[c] ELSE rows[id][c]
  <2> HIDE DEF S
  <2>1. CASE Updated(r) = {} /\ DOMAIN Dirty(r, Assigns(r)) = {}
    <3>1. rows'[id] = rows[id]
      BY <1>1, <1>2, <1>7, <2>1 DEF Committed
    <3>2. \A c \in DOMAIN S : S[c] = q.row[c]
      BY <1>6, <2>1 DEF Dirty
    <3> QED
      BY <3>1, <3>2
  <2>2. CASE Updated(r) = {id} /\ q.set[id] = Dirty(r, Assigns(r))
    <3>1. rows'[id] = With(rows[id], Dirty(r, Assigns(r)))
      BY <1>1, <1>2, <1>7, <2>2 DEF Committed
    <3>2. \A c : c \in DOMAIN Dirty(r, Assigns(r)) <=> c \in DOMAIN S /\ S[c] # q.row[c]
      BY <1>6 DEF Dirty
    <3>3. \A c \in DOMAIN Dirty(r, Assigns(r)) : Dirty(r, Assigns(r))[c] = S[c]
      BY <1>6 DEF Dirty
    <3> QED
      BY <3>1, <3>2, <3>3 DEF With
  <2> QED
    BY <1>3, <2>1, <2>2
<1>8. [p \in Req |-> SeenBy(p)][r] = {q.row}
  <2>1. Kind(r) \notin Filling
    BY Kinds DEF Loaders
  <2>2. ~At(r, "get")
    BY <1>1 DEF At
  <2> QED
    BY <1>1, <2>1, <2>2 DEF SeenBy, Loaders
<1>9. [p \in Req |-> Body(p)][r] = b /\ Kind(r) \in Updating \cup {"review_item"}
  BY DEF Loaders
<1> DEFINE Effect(loaded) ==
             id \in DOMAIN rows =>
               /\ DOMAIN rows'[id] = DOMAIN rows[id]
               /\ \A c \in DOMAIN rows[id] :
                    rows'[id][c] = IF c \in DOMAIN S /\ S[c] # loaded[c] THEN S[c] ELSE rows[id][c]
<1>10. \E loaded \in [p \in Req |-> SeenBy(p)][r] : Effect(loaded)
  <2>1. Effect(q.row)
    BY <1>7
  <2> HIDE DEF Effect
  <2> QED
    BY <1>8, <2>1
<1>11. b.kind \in Updating \cup {"review_item"}
  BY <1>1, <1>9
<1>12. id \in DOMAIN rows' <=> id \in DOMAIN rows
  BY <1>5
<1> QED
  BY <1>4, <1>9, <1>10, <1>11, <1>12 DEF Store!Set

\* One that deletes a row.
LEMMA DeleteEffect ==
  ASSUME NEW r \in Req, TypeInv, LocksInv, AskedInv, DeletedInv, Commits(r),
         Kind(r) \in Deleting
  PROVE  Store!Delete(r)
<1> DEFINE q == req[r]
           b == Body(r)
<1>1. /\ Committed(r) /\ Running(r) /\ RequestOK(r) /\ q.todo = <<>> /\ IsRequest(b)
      /\ Kind(r) = b.kind
  BY CommitAsked
<1>2. Updated(r) = {} /\ DOMAIN q.new = {}
  BY <1>1, Kinds DEF RequestOK, Updated, Kind, Body
<1>3. q.gone = {b.id}
  BY <1>1 DEF AskedInv, AskedOK, DeleteOK
<1>4. b.id \in DOMAIN rows /\ b.id \notin DOMAIN rows'
  BY <1>1, <1>2, <1>3 DEF LocksInv, Locked, Committed
<1>5. rows[b.id].table = b.table
  <2>1. rows[b.id].table = Entity[Kind(r)]
    BY <1>1, <1>3 DEF DeletedInv
  <2> QED
    BY <1>1, <2>1, DeletingRuns DEF IsRequest
<1>6. Store!Only({b.id})
  BY <1>2, <1>3, CommitOnly
<1> QED
  BY <1>1, <1>4, <1>5, <1>6 DEF Store!Delete

\* One that removes a favourite.
LEMMA DiscardEffect ==
  ASSUME NEW r \in Req, TypeInv, DiscardInv, Commits(r), Kind(r) = "remove_favorite"
  PROVE  Store!Discard(r)
<1> DEFINE q == req[r]
           b == Body(r)
<1>1. /\ Committed(r) /\ Running(r) /\ RequestOK(r) /\ q.todo = <<>> /\ Kind(r) = b.kind
  BY CommitAsked
<1>2. Updated(r) = {} /\ DOMAIN q.new = {}
  BY <1>1, Kinds DEF RequestOK, Updated, Kind, Body
<1>3. Owned(r) /\ q.gone = {b.id} \cap DOMAIN rows
  BY <1>1, Tails DEF DiscardInv, DiscardOK
<1>4. b.id \notin DOMAIN rows'
  BY <1>1, <1>2, <1>3 DEF Committed
<1>5. Store!Only({b.id})
  BY <1>2, <1>3, CommitOnly
<1> QED
  BY <1>1, <1>3, <1>4, <1>5 DEF Store!Discard, Owned

\* One that replaces a sheet.
LEMMA ReplaceEffect ==
  ASSUME NEW r \in Req, TypeInv, LocksInv, SheetInv, AskedInv, Commits(r), Kind(r) \in Filling
  PROVE  Store!Replace(r)
<1> DEFINE q == req[r]
           b == Body(r)
<1>1. /\ Committed(r) /\ Running(r) /\ RequestOK(r) /\ q.todo = <<>> /\ IsRequest(b)
      /\ Kind(r) = b.kind
  BY CommitAsked
<1>2. SheetOK(r) /\ ItemsOK(r) /\ Updated(r) = {}
  BY <1>1, Kinds DEF SheetInv, AskedInv, AskedOK, RequestOK, Updated, Kind, Body
<1>3. PICK size \in Nat : size = Len(b.items)
  BY <1>1, SheetKind
<1>4. DOMAIN q.new = {r} \X (1 .. size)
  BY <1>1, <1>2, <1>3 DEF SheetOK
<1>5. {r} \X (1 .. size) \subseteq DOMAIN rows' \ DOMAIN rows
  BY <1>1, <1>4 DEF Committed
<1>6. ASSUME NEW i \in 1 .. size
      PROVE  LET x == rows'[<<r, i>>] IN
             /\ x.table = b.sheet /\ x.match = b.id /\ x.team = b.team
             /\ b.items[i] \in {x[c] : c \in DOMAIN x}
  <2>1. rows'[<<r, i>>] = Item(b, i)
    <3>1. <<r, i>> \in DOMAIN q.new /\ <<r, i>>[2] = i
      BY <1>4
    <3> QED
      BY <1>1, <1>2, <3>1 DEF Committed, ItemsOK
  <2>2. CASE b.sheet = "lineup_entries"
    <3>1. /\ Item(b, i) = [table |-> b.sheet, match |-> b.id, team |-> b.team,
                           player |-> b.items[i]]
      BY <2>2 DEF Item
    <3> QED
      BY <2>1, <3>1
  <2>3. CASE b.sheet # "lineup_entries"
    <3>1. /\ Item(b, i) = [table |-> b.sheet, match |-> b.id, team |-> b.team,
                           stat_name |-> b.items[i]]
      BY <2>3 DEF Item
    <3> QED
      BY <2>1, <3>1
  <2> QED
    BY <2>2, <2>3
<1>7. q.gone \subseteq {x \in DOMAIN rows : InSheet(rows[x], b)}
  BY <1>2 DEF SheetOK, OfSheet, LocksInv, Locked
<1>8. q.before \cap DOMAIN rows \subseteq q.gone
  BY <1>1, <1>2 DEF SheetOK
<1>9. q.gone \cap DOMAIN rows' = {}
  BY <1>1, <1>7 DEF Committed
<1>10. Store!Only(q.gone \cup {r} \X (1 .. size))
  BY <1>2, <1>4, CommitOnly
<1>11. [p \in Req |-> SeenBy(p)][r] = q.before
  <2>1. SeenBy(r) = q.before
    BY <1>1, Kinds DEF SeenBy
  <2> QED
    BY <2>1
<1>12. q.gone \subseteq Store!Sheet(b)
  BY <1>7 DEF Store!Sheet, Store!OfSheet, InSheet
<1> QED
  BY <1>1, <1>3, <1>5, <1>6, <1>8, <1>9, <1>10, <1>11, <1>12 DEF Store!Replace, Store!OfSheet

\* What the store sees of a request that a step leaves alone.
LEMMA SeenStays ==
  ASSUME NEW q \in Req, req'[q] = req[q]
  PROVE  SeenBy(q)' = SeenBy(q) /\ Body(q)' = Body(q) /\ req'[q].status = req[q].status
BY DEF SeenBy, Running, Idle, At, Kind, Body

\* A request that ends is answered.
LEMMA StoreReplies ==
  ASSUME NEW r \in Req, TypeInv, Ends(r), \A q \in Req \ {r} : req'[q] = req[q],
         NEW code, req'[r].status = code
  PROVE  Store!Reply(r, code)
<1>1. /\ Body(r)' = Body(r) /\ Body(r) # None /\ req[r].status = 0 /\ ~Running(r)'
  BY DEF Ends, Running, Idle, Body
<1>2. \A q \in Req \ {r} :
        SeenBy(q)' = SeenBy(q) /\ Body(q)' = Body(q) /\ req'[q].status = req[q].status
  BY SeenStays
<1>3. SeenBy(r)' = {}
  BY <1>1 DEF SeenBy
<1>4. [q \in Req |-> Body(q)]' = [q \in Req |-> Body(q)]
  BY <1>1, <1>2
<1>5. [q \in Req |-> SeenBy(q)]' = [[q \in Req |-> SeenBy(q)] EXCEPT ![r] = {}]
  BY <1>2, <1>3
<1>6. [q \in Req |-> req[q].status]'
      = [[q \in Req |-> req[q].status] EXCEPT ![r] = code]
  BY <1>2
<1>7. Store!Open(r)
  BY <1>1 DEF Store!Open
<1> QED
  BY <1>4, <1>5, <1>6, <1>7 DEF Store!Reply

\* A request that arrives is asked.
LEMMA StoreAsks ==
  ASSUME NEW r \in Req, TypeInv, Alone(r), NEW b, Starts(r, b)
  PROVE  Store!Ask(r)
<1>1. /\ Body(r) = None /\ Body(r)' = b /\ Kind(r)' = b.kind /\ Running(r)'
      /\ req[r].status = 0 /\ req'[r].status = 0 /\ IsRequest(b) /\ rows' = rows
  BY DEF Starts, Alone, TypeInv, RequestOK, Running, Idle, Body, Kind
<1>2. \A q \in Req \ {r} :
        SeenBy(q)' = SeenBy(q) /\ Body(q)' = Body(q) /\ req'[q].status = req[q].status
  BY SeenStays DEF Alone
<1>3. SeenBy(r)' = IF b.kind \in Filling THEN Store!Sheet(b) ELSE {}
  <2>1. CASE b.kind \in Filling
    <3>1. SeenBy(r)' = Sheet(b)
      BY <1>1, <2>1, Kinds DEF SeenBy, Starts, Seen, Filling
    <3>2. b.sheet \in {"lineup_entries", "match_statistics"}
      BY <1>1, <2>1, SheetKind
    <3>3. Sheet(b) = Store!Sheet(b)
      BY <3>2 DEF Sheet, InSheet, Store!Sheet, Store!OfSheet
    <3> QED
      BY <2>1, <3>1, <3>3
  <2>2. CASE b.kind \in Loaders
    <3>1. Head(Handlers[b.kind]) = "get" /\ Handlers[b.kind] # <<>>
      BY <1>1, <2>2, HandlerTable DEF HandlerOf, IsRequest, Loaders, Updating
    <3>2. At(r, "get")'
      BY <1>1, <3>1 DEF Starts, At
    <3> QED
      BY <1>1, <2>2, <3>2, Kinds DEF SeenBy, Loaders
  <2>3. CASE b.kind \notin Filling \cup Loaders
    BY <1>1, <2>3 DEF SeenBy, Loaders
  <2> QED
    BY <2>1, <2>2, <2>3
<1>4. [q \in Req |-> Body(q)]' = [[q \in Req |-> Body(q)] EXCEPT ![r] = b]
  BY <1>1, <1>2
<1>5. [q \in Req |-> SeenBy(q)]' = [[q \in Req |-> SeenBy(q)] EXCEPT ![r] =
         IF b.kind \in Filling THEN Store!Sheet(b) ELSE {}]
  BY <1>2, <1>3
<1>6. [q \in Req |-> req[q].status]' = [q \in Req |-> req[q].status]
  BY <1>1, <1>2
<1>7. [q \in Req |-> Body(q)]'[r] = b /\ [q \in Req |-> Body(q)][r] = None
  BY <1>1, <1>4
<1>8. b \in UNION {mix.bodies : mix \in Mixes}
  BY DEF Starts
<1> QED
  BY <1>1, <1>4, <1>5, <1>6, <1>7, <1>8 DEF Store!Ask

\* A statement that is no commit shows the store at most the row that it loads.
LEMMA StoreWorks ==
  ASSUME NEW r \in Req, TypeInv, Works(r)
  PROVE  Store!Look(r) \/ UNCHANGED Store!vars
<1> DEFINE q == req[r]
           s == req'[r]
           t == req[r].todo
           b == Body(r)
<1>1. /\ DOMAIN req = Req /\ DOMAIN q = Fields /\ Running(r) /\ t # <<>> /\ rows' = rows
      /\ q.status = 0 /\ s.status = 0 /\ Placed(Kind(r), t) /\ IsRequest(b) /\ Kind(r) = b.kind
      /\ s.todo = Tail(t) \/ (s.todo = t /\ Head(t) \in {"climb", "fill"})
      /\ Body(r)' = b /\ Kind(r)' = Kind(r) /\ Running(r)' /\ s.before = q.before /\ b # None
  <2>1. /\ Placed(Kind(r), t) /\ DOMAIN req = Req /\ Running(r) /\ Running(r)'
        /\ IsRequest(b) /\ b # None
    BY GoesOn DEF TypeInv, RowsOK, Works, Kind, Body
  <2>2. DOMAIN q = Fields
    BY DEF TypeInv, RequestOK
  <2> QED
    BY <2>1, <2>2 DEF Works, Goes, Alone, Running, Kind, Body
<1>2. \A p \in Req \ {r} :
        SeenBy(p)' = SeenBy(p) /\ Body(p)' = Body(p) /\ req'[p].status = req[p].status
  BY SeenStays DEF Works, Alone
<1>3. [p \in Req |-> Body(p)]' = [p \in Req |-> Body(p)]
  BY <1>1, <1>2
<1>4. [p \in Req |-> req[p].status]' = [p \in Req |-> req[p].status]
  BY <1>1, <1>2
<1>5. ASSUME SeenBy(r)' = SeenBy(r) PROVE UNCHANGED Store!vars
  <2>1. [p \in Req |-> SeenBy(p)]' = [p \in Req |-> SeenBy(p)]
    BY <1>2, <1>5
  <2> QED
    BY <1>1, <1>3, <1>4, <2>1 DEF Store!vars
<1>6. ~At(r, "get")'
  <2>1. (s.todo = t /\ Head(t) \in {"climb", "fill"}) => Head(s.todo) # "get"
    OBVIOUS
  <2>2. s.todo = Tail(t) => s.todo = <<>> \/ Head(s.todo) # "get"
    BY <1>1 DEF Placed, Follows
  <2> QED
    BY <1>1, <2>1, <2>2 DEF At
<1>7. CASE Kind(r) \in Loaders /\ Head(t) = "get"
  <2>1. Get(r) /\ At(r, "get")
    BY <1>7, AtStatement DEF Works, Get
  <2>2. ~Answer(r, 404)
    BY <1>1, AnswerEnds DEF Ends, Codes
  <2>3. b.id \in Table(b.table) /\ req' = [req EXCEPT ![r].todo = Tail(@), ![r].row = rows[b.id]]
    BY <2>1, <2>2 DEF Get
  <2>4. b.id \in DOMAIN rows /\ rows[b.id].table = b.table /\ s.row = rows[b.id]
    BY <1>1, <2>3 DEF Table, Fields
  <2>5. SeenBy(r) = {}
    BY <1>1, <1>7, <2>1, Kinds DEF SeenBy, Loaders
  <2>6. SeenBy(r)' = {rows[b.id]}
    BY <1>1, <1>6, <1>7, <2>4, Kinds DEF SeenBy, Loaders
  <2>7. [p \in Req |-> SeenBy(p)]' = [[p \in Req |-> SeenBy(p)] EXCEPT ![r] = {rows[b.id]}]
    BY <1>2, <2>6
  <2>8. /\ [p \in Req |-> Body(p)][r] = b /\ [p \in Req |-> SeenBy(p)][r] = {}
        /\ Store!Open(r) /\ b.kind \in Updating \cup {"review_item"}
    BY <1>1, <1>7, <2>5 DEF Store!Open, Loaders
  <2> QED
    BY <1>1, <1>3, <1>4, <2>4, <2>7, <2>8 DEF Store!Look
<1>8. CASE Kind(r) \in Loaders /\ Head(t) # "get"
  <2>1. Head(t) \notin {"get", "member", "slug"}
    BY <1>1, <1>8, Kinds DEF Placed, Loaders, Updating
  <2>2. s.row = q.row
    BY <2>1, RowKept
  <2>3. ~At(r, "get")
    BY <1>8 DEF At
  <2>4. SeenBy(r) = {q.row} /\ SeenBy(r)' = {q.row}
    BY <1>1, <1>6, <1>8, <2>2, <2>3, Kinds DEF SeenBy, Loaders
  <2> QED
    BY <1>5, <2>4
<1>9. CASE Kind(r) \in Filling
  <2>1. SeenBy(r)' = SeenBy(r)
    BY <1>1, <1>9, Kinds DEF SeenBy
  <2> QED
    BY <1>5, <2>1
<1>10. CASE Kind(r) \notin Filling \cup Loaders
  <2>1. SeenBy(r)' = SeenBy(r)
    BY <1>1, <1>10 DEF SeenBy, Loaders
  <2> QED
    BY <1>5, <2>1
<1> QED
  BY <1>7, <1>8, <1>9, <1>10

\* The kinds of requests.
LEMMA EveryKind ==
  ASSUME NEW k \in DOMAIN Handlers
  PROVE  k \in Inserting \cup Loaders \cup Deleting \cup Filling
                \cup {"remove_favorite", "get_standings"}
BY DEF Handlers, Inserting, Loaders, Updating, Deleting, Filling

\* What every step needs to know of the state.
StoreInv ==
  /\ TypeInv /\ LocksInv /\ SheetInv /\ InsertionInv /\ ArticleInv /\ ReportInv /\ DeletedInv
  /\ AskedInv /\ DiscardInv
\* A commit is the effect of its request, and an answer.
LEMMA StoreCommits ==
  ASSUME NEW r \in Req, StoreInv, Commits(r)
  PROVE  Store!Accept(r)
<1>1. Store!Reply(r, 200)
  BY StoreReplies DEF StoreInv, Commits
<1>2. Kind(r) \in DOMAIN Handlers /\ Kind(r) # "get_standings"
  BY CommitAsked DEF StoreInv, AskedInv, AskedOK, IsRequest
<1>3. Store!Create(r) \/ Store!Set(r) \/ Store!Delete(r) \/ Store!Discard(r) \/ Store!Replace(r)
  BY <1>2, EveryKind, CreateEffect, SetEffect, DeleteEffect, DiscardEffect, ReplaceEffect
  DEF StoreInv
<1> QED
  BY <1>1, <1>3 DEF Store!Accept

\* A request that ends without a commit is refused, unless it only reads.
LEMMA StoreEnds ==
  ASSUME NEW r \in Req, StoreInv, [Next]_vars, Alone(r), Ends(r)
  PROVE  Store!Refuse(r) \/ Store!Accept(r)
<1>1. rows' = rows /\ \A code : req'[r].status = code => Store!Reply(r, code)
  BY StoreReplies DEF StoreInv, Alone
<1>2. CASE req'[r].status = 200
  <2>1. Commits(r) \/ Kind(r) = "get_standings"
    BY <1>2, AcceptedCommits DEF StoreInv, Ends, Accepted
  <2>2. ASSUME Kind(r) = "get_standings" PROVE Store!Read(r)
    <3>1. [p \in Req |-> Body(p)][r] = Body(r) /\ Body(r).kind = "get_standings"
      BY <2>2 DEF Kind, Body
    <3> QED
      BY <1>1, <3>1 DEF Store!Read
  <2> QED
    BY <1>1, <1>2, <2>1, <2>2, StoreCommits DEF Store!Accept
<1>3. CASE req'[r].status # 200
  <2>1. \E code \in {400, 404, 409, 499, 500} : req'[r].status = code
    BY <1>3 DEF Ends, Codes
  <2> QED
    BY <1>1, <2>1 DEF Store!Refuse
<1> QED
  BY <1>2, <1>3

\* Every step is a step of the store, or nothing to it.
LEMMA StoreStep ==
  ASSUME StoreInv, [Next]_vars
  PROVE  [Store!Next]_(Store!vars)
<1>1. ASSUME NEW r \in Req, Alone(r), Ends(r)
      PROVE  Store!Next
  BY <1>1, StoreEnds DEF Store!Next
<1>2. ASSUME NEW r \in Req, Alone(r), NEW b, Starts(r, b)
      PROVE  Store!Next
  BY <1>2, StoreAsks DEF Store!Next, StoreInv
<1>3. ASSUME NEW r \in Req, Works(r)
      PROVE  Store!Next \/ UNCHANGED Store!vars
  BY <1>3, StoreWorks DEF Store!Next, StoreInv
<1>4. ASSUME NEW r \in Req, Commits(r)
      PROVE  Store!Next
  BY <1>4, StoreCommits DEF Store!Next
<1>5. CASE UNCHANGED vars
  <2>1. \A q \in Req : SeenBy(q)' = SeenBy(q) /\ Body(q)' = Body(q)
    BY <1>5, SeenStays DEF vars
  <2> QED
    BY <1>5, <2>1 DEF vars, Store!vars
<1> QED
  BY <1>1, <1>2, <1>3, <1>4, <1>5, Paths DEF StoreInv

\* Nothing is asked of the store at the start.
LEMMA StoreInit == Init => Store!Init
<1> SUFFICES ASSUME Init PROVE Store!Init
  OBVIOUS
<1>1. \A r \in Req : Body(r) = None /\ SeenBy(r) = {} /\ req[r].status = 0
  BY DEF Init, Blank, Body, SeenBy, Running, Idle
<1> QED
  BY <1>1 DEF Init, Store!Init

\* The statements of the requests, their locks and their transactions implement the
\* atomic store: whatever they do amounts to one whole effect for each request that is
\* accepted, and to none for the others.
THEOREM RequestsAreAtomic == Spec => ImplementsStore
<1>1. Init => StoreInv
  BY TypeInit, LocksInit, SheetInit, InsertionInit, ArticleInit, ReportInit, DeletedInit,
     AskedInit, DiscardInit DEF StoreInv
<1>2. StoreInv /\ [Next]_vars => StoreInv'
  BY TypeNext, LocksNext, SheetNext, InsertionNext, ArticleNext, ReportNext, DeletedNext,
     AskedNext, DiscardNext DEF StoreInv
<1>3. StoreInv /\ [Next]_vars => [Store!Next]_(Store!vars)
  BY StoreStep
<1> QED
  BY <1>1, <1>2, <1>3, StoreInit, PTL DEF Spec, ImplementsStore, Store!Spec
=============================================================================
