------------------------- MODULE BackofficeStepsProofs -------------------------
(***************************************************************************)
(* What an accepted request of Backoffice has done, whatever the others    *)
(* did while it ran: the action properties of the run fixtures, proved     *)
(* for every set of requests, bodies and earlier rows.                     *)
(***************************************************************************)
EXTENDS BackofficeProofs

-----------------------------------------------------------------------------
(* Which statement a request is at. *)

\* Every statement but the commit is the first of those that its request has left.
LEMMA StatementNames ==
  ASSUME NEW r \in Req
  PROVE  /\ Get(r) => At(r, "get")
         /\ Insert(r) => At(r, "insert")
         /\ EnterKey(r) => At(r, "unique")
         /\ Delete(r) => At(r, "delete")
         /\ LetGo(r) => At(r, "referenced")
         /\ FindDuplicate(r) => At(r, "find_duplicate")
         /\ Aim(r) => At(r, "aim")
         /\ Clear(r) => At(r, "clear")
         /\ Fill(r) => At(r, "fill")
         /\ Filled(r) => At(r, "fill")
         /\ FindMember(r) => At(r, "member")
         /\ FindTeam(r) => At(r, "team")
         /\ CheckJersey(r) => At(r, "jersey")
         /\ UpdatePlayer(r) => At(r, "update_player")
         /\ FindCompetition(r) => At(r, "competition")
         /\ Climb(r) => At(r, "climb")
         /\ UpdateEntry(r) => At(r, "update")
         /\ FindSeason(r) => At(r, "season")
         /\ FindTables(r) => At(r, "tables")
         /\ Review(r) => At(r, "review")
         /\ ChooseSlug(r) => At(r, "slug")
         /\ EditArticle(r) => At(r, "edit")
         /\ FindOwn(r) => At(r, "own")
         /\ Discard(r) => At(r, "discard")
<1>1. Get(r) => At(r, "get")
  BY DEF Get
<1>2. Insert(r) => At(r, "insert")
  BY DEF Insert
<1>3. EnterKey(r) => At(r, "unique")
  BY DEF EnterKey
<1>4. Delete(r) => At(r, "delete")
  BY DEF Delete
<1>5. LetGo(r) => At(r, "referenced")
  BY DEF LetGo
<1>6. FindDuplicate(r) => At(r, "find_duplicate")
  BY DEF FindDuplicate
<1>7. Aim(r) => At(r, "aim")
  BY DEF Aim
<1>8. Clear(r) => At(r, "clear")
  BY DEF Clear
<1>9. Fill(r) => At(r, "fill")
  BY DEF Fill
<1>10. Filled(r) => At(r, "fill")
  BY DEF Filled
<1>11. FindMember(r) => At(r, "member")
  BY DEF FindMember
<1>12. FindTeam(r) => At(r, "team")
  BY DEF FindTeam
<1>13. CheckJersey(r) => At(r, "jersey")
  BY DEF CheckJersey
<1>14. UpdatePlayer(r) => At(r, "update_player")
  BY DEF UpdatePlayer
<1>15. FindCompetition(r) => At(r, "competition")
  BY DEF FindCompetition
<1>16. Climb(r) => At(r, "climb")
  BY DEF Climb
<1>17. UpdateEntry(r) => At(r, "update")
  BY DEF UpdateEntry
<1>18. FindSeason(r) => At(r, "season")
  BY DEF FindSeason
<1>19. FindTables(r) => At(r, "tables")
  BY DEF FindTables
<1>20. Review(r) => At(r, "review")
  BY DEF Review
<1>21. ChooseSlug(r) => At(r, "slug")
  BY DEF ChooseSlug
<1>22. EditArticle(r) => At(r, "edit")
  BY DEF EditArticle
<1>23. FindOwn(r) => At(r, "own")
  BY DEF FindOwn
<1>24. Discard(r) => At(r, "discard")
  BY DEF Discard
<1> QED
  BY <1>1, <1>2, <1>3, <1>4, <1>5, <1>6, <1>7, <1>8, <1>9, <1>10, <1>11, <1>12, <1>13, <1>14,
     <1>15, <1>16, <1>17, <1>18, <1>19, <1>20, <1>21, <1>22, <1>23, <1>24

\* A statement that is no commit is the one its request has come to.
LEMMA AtStatement ==
  ASSUME NEW r \in Req, Handle(r), ~Commit(r)
  PROVE  /\ Running(r) /\ req[r].todo # <<>>
         /\ LET s == Head(req[r].todo) IN
            /\ s = "get" => Get(r)
            /\ s = "insert" => Insert(r)
            /\ s = "find_duplicate" => FindDuplicate(r)
            /\ s = "aim" => Aim(r)
            /\ s = "clear" => Clear(r)
            /\ s = "fill" => Fill(r) \/ Filled(r)
            /\ s = "review" => Review(r)
            /\ s = "slug" => ChooseSlug(r)
            /\ s = "competition" => FindCompetition(r)
            /\ s = "climb" => Climb(r)
            /\ s = "season" => FindSeason(r)
            /\ s = "tables" => FindTables(r)
            /\ s = "delete" => Delete(r)
            /\ s = "member" => FindMember(r)
            /\ s = "referenced" => LetGo(r)
            /\ s = "unique" => EnterKey(r)
            /\ s = "update" => UpdateEntry(r)
            /\ s = "update_player" => UpdatePlayer(r)
            /\ s = "edit" => EditArticle(r)
            /\ s = "own" => FindOwn(r)
            /\ s = "discard" => Discard(r)
<1>1. \A s : At(r, s) => Running(r) /\ req[r].todo # <<>> /\ Head(req[r].todo) = s
  BY DEF At
<1> QED
  BY <1>1, StatementNames DEF Handle, Statement, Fixture, Entry, Errand

-----------------------------------------------------------------------------
(* Acceptance. *)

\* No statement but the last of get_standings answers with success.
LEMMA StatementRefuses ==
  ASSUME NEW r \in Req, DOMAIN req = Req, DOMAIN req[r] = Fields, req[r].status = 0,
         Handle(r), ~Commit(r), req'[r].status = 200
  PROVE  FindTables(r)
<1>1. \A code : code # 200 => ~Answer(r, code)
  <2> SUFFICES ASSUME NEW code, Answer(r, code) PROVE code = 200
    OBVIOUS
  <2>1. req'[r] = [Blank EXCEPT !.body = Body(r), !.status = code]
    BY DEF Answer
  <2>2. req'[r].status = code
    BY <2>1 DEF Blank
  <2> QED
    BY <2>2
<1>2. ~Proceed(r)
  BY DEF Proceed, Fields
<1>3. \A columns : ~Change(r, columns)
  BY <1>1, <1>2 DEF Change, InternalError, Fields
<1>4. ~Get(r)
  BY <1>1, <1>2 DEF Get, Fields
<1>5. ~Insert(r)
  BY <1>1, <1>2 DEF Insert, Fields, IntegrityViolation
<1>6. ~EnterKey(r)
  BY <1>1, <1>2 DEF EnterKey, Fields, IntegrityViolation
<1>7. ~Delete(r)
  BY <1>1, <1>2 DEF Delete, Fields
<1>8. ~LetGo(r)
  BY <1>1, <1>2 DEF LetGo, Fields, IntegrityViolation
<1>9. ~FindDuplicate(r)
  BY <1>1, <1>2 DEF FindDuplicate, Fields, InternalError
<1>10. ~Aim(r)
  BY <1>1, <1>2 DEF Aim, Fields
<1>11. ~Clear(r)
  BY <1>1, <1>2 DEF Clear, Fields
<1>12. ~Fill(r)
  BY <1>1, <1>2 DEF Fill, Fields, IntegrityViolation
<1>13. ~Filled(r)
  BY <1>1, <1>2 DEF Filled, Fields
<1>14. ~FindMember(r)
  BY <1>1, <1>2 DEF FindMember, Fields
<1>15. ~FindTeam(r)
  BY <1>1, <1>2 DEF FindTeam, Fields
<1>16. ~CheckJersey(r)
  BY <1>1, <1>2 DEF CheckJersey, Fields
<1>17. ~UpdatePlayer(r)
  BY <1>3 DEF UpdatePlayer
<1>18. ~FindCompetition(r)
  BY <1>1, <1>2 DEF FindCompetition, Fields
<1>19. ~Climb(r)
  BY <1>1, <1>2 DEF Climb, Fields
<1>20. ~UpdateEntry(r)
  BY <1>3 DEF UpdateEntry
<1>21. ~FindSeason(r)
  BY <1>1, <1>2 DEF FindSeason, Fields, InternalError
<1>22. ~Review(r)
  BY <1>3 DEF Review
<1>23. ~ChooseSlug(r)
  BY <1>1, <1>2 DEF ChooseSlug, Fields
<1>24. ~EditArticle(r)
  BY <1>3 DEF EditArticle
<1>25. ~FindOwn(r)
  BY <1>1, <1>2 DEF FindOwn, Fields
<1>26. ~Discard(r)
  BY <1>1, <1>2 DEF Discard, Fields
<1> QED
  BY <1>4, <1>5, <1>6, <1>7, <1>8, <1>9, <1>10, <1>11, <1>12, <1>13, <1>14, <1>15, <1>16,
     <1>17, <1>18, <1>19, <1>20, <1>21, <1>22, <1>23, <1>24, <1>25, <1>26
  DEF Handle, Statement, Fixture, Entry, Errand

\* A request is accepted by its commit, unless it only reads.
LEMMA AcceptedCommits ==
  ASSUME NEW r \in Req, TypeInv, [Next]_vars, Accepted(r)
  PROVE  Commits(r) \/ Kind(r) = "get_standings"
<1>0. DOMAIN req = Req /\ req[r].status = 0 /\ DOMAIN req[r] = Fields
  BY DEF Accepted, Running, TypeInv, RowsOK, RequestOK
<1>1. PICK q \in Req : Arrive(q) \/ Handle(q) \/ Abort(q)
  BY <1>0 DEF Accepted, Next, vars
<1>2. q = r
  <2>1. ASSUME q # r PROVE FALSE
    <3>1. Alone(q) \/ Commits(q)
      BY <1>1, ArriveStarts, HandleOutcome, CommitEnds, AnswerEnds
      DEF Abort, Lost, Codes, Outcome, TypeInv, Commits, RowsOK
    <3>2. req'[r] = req[r]
      BY <2>1, <3>1 DEF Alone, Commits
    <3> QED
      BY <1>0, <3>2 DEF Accepted
  <2> QED
    BY <2>1
<1>3. CASE Arrive(r)
  BY <1>3 DEF Accepted, Arrive, Running
<1>4. CASE Abort(r)
  BY <1>0, <1>4, AnswerEnds DEF Abort, Lost, Codes, Accepted, TypeInv, RowsOK
<1>5. CASE Commit(r)
  BY <1>5, CommitEnds DEF Commits
<1>6. CASE Handle(r) /\ ~Commit(r)
  <2>1. FindTables(r)
    BY <1>0, <1>6, StatementRefuses DEF Accepted
  <2>2. Started(r, "tables")
    BY <2>1, AtStarted DEF FindTables, TypeInv
  <2> QED
    BY <2>2 DEF Started, Placed
<1> QED
  BY <1>1, <1>2, <1>3, <1>4, <1>5, <1>6

\* What an accepted update leaves of a row: all that it was not asked to change.
LEMMA UpdateKeeps ==
  ASSUME NEW r \in Req, TypeInv, Commits(r), "columns" \in DOMAIN Body(r)
  PROVE  KeepsTheRest(r)
<1> DEFINE id == Body(r).id
<1>1. Committed(r) /\ Body(r) # None /\ IsRequest(Body(r))
  BY DEF Commits, Running, Idle, Body, TypeInv, RequestOK
<1>2. Kind(r) \in Updating
  BY <1>1 DEF IsRequest, Kind, Body
<1>3. DOMAIN req[r].new = {} /\ req[r].gone = {}
  BY <1>2, Kinds DEF TypeInv, RequestOK, Kind
<1>4. DOMAIN rows' = DOMAIN rows
  BY <1>1, <1>3 DEF Committed
<1>5. ASSUME NEW c \in DOMAIN rows[id] \ (DOMAIN Body(r).columns \cup {"published_at"}),
             id \in DOMAIN rows
      PROVE  rows'[id][c] = rows[id][c]
  <2>1. CASE id \in Updated(r)
    <3>1. c \notin DOMAIN req[r].set[id]
      BY <1>2, <1>5, <2>1 DEF TypeInv, RequestOK, Updated, Kind, Body
    <3>2. rows'[id] = With(rows[id], req[r].set[id])
      BY <1>1, <1>3, <1>5, <2>1 DEF Committed
    <3> QED
      BY <1>5, <3>1, <3>2 DEF With
  <2>2. CASE id \notin Updated(r)
    BY <1>1, <1>3, <1>5, <2>2 DEF Committed
  <2> QED
    BY <2>1, <2>2
<1> QED
  BY <1>4, <1>5 DEF KeepsTheRest

\* An accepted update brings no deleted row back, and changes none of the columns that
\* it was not asked to change, whatever others have changed since it loaded its row.
THEOREM UpdatesOverwriteNothing == Spec => UpdatesKeepTheRest
<1> DEFINE A == \A r \in Req : Accepted(r) /\ "columns" \in DOMAIN Body(r) => KeepsTheRest(r)
<1>1. ASSUME TypeInv, [Next]_vars PROVE A
  <2> SUFFICES ASSUME NEW r \in Req, Accepted(r), "columns" \in DOMAIN Body(r)
               PROVE  KeepsTheRest(r)
    OBVIOUS
  <2>1. Kind(r) \in Updating
    BY <1>1 DEF Accepted, Running, Idle, Body, TypeInv, RequestOK, IsRequest, Kind
  <2>2. Commits(r)
    BY <1>1, <2>1, AcceptedCommits DEF Updating
  <2> QED
    BY <1>1, <2>2, UpdateKeeps
<1>2. TypeInv /\ [Next]_vars => [A]_vars
  BY <1>1
<1> QED
  BY <1>2, TypeInit, TypeNext, PTL DEF Spec, UpdatesKeepTheRest

-----------------------------------------------------------------------------
(* The steps, with the statement that each runs. *)

Works(r) == Alone(r) /\ Goes(r) /\ Outcome(r) /\ Handle(r) /\ ~Commit(r)
\* A request arrives, ends without success, goes on, or commits.
LEMMA Paths ==
  ASSUME TypeInv, [Next]_vars
  PROVE  \/ \E r \in Req : Alone(r) /\ (Ends(r) \/ (\E b : Starts(r, b)) \/ Works(r))
         \/ \E r \in Req : Commits(r)
         \/ UNCHANGED vars
<1>1. CASE Next
  <2>1. PICK r \in Req : Arrive(r) \/ Handle(r) \/ Abort(r)
    BY <1>1 DEF Next
  <2>2. CASE Arrive(r)
    BY <2>2, ArriveStarts DEF TypeInv
  <2>3. CASE Commit(r)
    BY <2>3, CommitEnds DEF Commits
  <2>4. CASE Handle(r) /\ ~Commit(r)
    BY <2>4, HandleOutcome DEF TypeInv, Outcome, Works
  <2>5. CASE Abort(r)
    BY <2>5, AnswerEnds DEF Abort, Lost, Codes, TypeInv, RowsOK
  <2> QED
    BY <2>1, <2>2, <2>3, <2>4, <2>5
<1> QED
  BY <1>1

\* What a step makes of a request that runs after it.
LEMMA Frame ==
  ASSUME TypeInv, [Next]_vars, NEW q \in Req, Running(q)'
  PROVE  \/ Running(q) /\ req'[q] = req[q]
         \/ Alone(q) /\ \E b : Starts(q, b) /\ Body(q)' = b
         \/ Works(q) /\ Running(q) /\ Body(q)' = Body(q)
<1>1. ASSUME req'[q] = req[q] PROVE Running(q) /\ req'[q] = req[q]
  BY <1>1, OthersKeep
<1>2. ASSUME NEW r \in Req, Alone(r), Ends(r) \/ (\E b : Starts(r, b)) \/ Works(r), r = q
      PROVE  \/ Alone(q) /\ \E b : Starts(q, b) /\ Body(q)' = b
             \/ Works(q) /\ Running(q) /\ Body(q)' = Body(q)
  <2>1. ~Ends(r)
    BY <1>2 DEF Ends, Running
  <2>2. ASSUME NEW b, Starts(r, b) PROVE Body(r)' = b
    BY <2>2 DEF Starts, Body
  <2>3. Works(r) => Running(r) /\ Body(r)' = Body(r)
    BY DEF Works, Goes, Body
  <2> QED
    BY <1>2, <2>1, <2>2, <2>3
<1>3. ASSUME NEW r \in Req, Commits(r) PROVE r # q /\ req'[q] = req[q]
  BY <1>3 DEF Commits, Ends, Running
<1> QED
  BY <1>1, <1>2, <1>3, Paths DEF vars, Alone

\* What a step leaves of the ids that are settled: none of them comes back.
LEMMA SettledRows ==
  ASSUME TypeInv, [Next]_vars, NEW x, Settled(x)
  PROVE  /\ Settled(x)'
         /\ x \in DOMAIN rows' => x \in DOMAIN rows
<1>1. \A q \in Req : req'[q].status = 0 => req[q].status = 0
  BY Steps, StatusStays DEF vars
<1>2. Settled(x)'
  BY <1>1, SettledStays
<1>3. ASSUME NEW r \in Req, Commits(r), x \in DOMAIN rows' PROVE x \in DOMAIN rows
  <2>1. x \notin DOMAIN req[r].new
    BY <1>3 DEF Settled, Commits, TypeInv, RequestOK, Own
  <2> QED
    BY <1>3, <2>1 DEF Commits, Committed
<1> QED
  BY <1>2, <1>3, Steps DEF vars, Alone, Outcome

\* What it leaves of the rows: their tables and what they refer to.
LEMMA RowsKept ==
  ASSUME TypeInv, [Next]_vars, NEW x \in DOMAIN rows, x \in DOMAIN rows'
  PROVE  /\ rows'[x].table = rows[x].table /\ References(rows'[x]) = References(rows[x])
         /\ \A c \in References(rows[x]) : rows'[x][c] = rows[x][c]
<1>1. ASSUME NEW r \in Req, Commits(r)
      PROVE  /\ rows'[x].table = rows[x].table /\ References(rows'[x]) = References(rows[x])
             /\ \A c \in References(rows[x]) : rows'[x][c] = rows[x][c]
  <2>1. x \notin DOMAIN req[r].new
    BY <1>1 DEF Commits, Committed
  <2>2. x \notin req[r].gone
    BY <1>1, <2>1 DEF Commits, Committed
  <2> QED
    BY <1>1, <2>2, TablesKept
<1>2. CASE rows' = rows
  BY <1>2 DEF References
<1> QED
  BY <1>1, <1>2, Steps DEF vars, Alone, Outcome

-----------------------------------------------------------------------------
(* Sheets.  A submission deletes what it has chosen, which is all that is left of   *)
(* the sheet that it found when it arrived, and then inserts its items in turn.     *)

OfSheet(r, x) == Settled(x) /\ (x \in DOMAIN rows => InSheet(rows[x], Body(r)))
SheetOK(r) ==
  LET q == req[r] IN
  /\ \A x \in q.before \cup Targets(r) \cup q.gone : OfSheet(r, x)
  /\ At(r, "clear") => q.before \cap DOMAIN rows \subseteq q.found
  /\ q.todo = <<>> \/ Head(q.todo) = "fill" => q.before \cap DOMAIN rows \subseteq q.gone
  /\ \E n \in 0 .. Len(Body(r).items) :
       /\ DOMAIN q.new = {r} \X (1 .. n)
       /\ q.todo = <<>> => n = Len(Body(r).items)
SheetInv == \A r \in Req : Running(r) /\ Kind(r) \in Filling => SheetOK(r)

\* A row that belongs to a sheet belongs to it for good.
LEMMA OfSheetStays ==
  ASSUME TypeInv, [Next]_vars, NEW r \in Req, NEW x, OfSheet(r, x), Body(r)' = Body(r)
  PROVE  OfSheet(r, x)'
<1>1. Settled(x)' /\ (x \in DOMAIN rows' => x \in DOMAIN rows)
  BY SettledRows DEF OfSheet
<1>2. ASSUME x \in DOMAIN rows', x \in DOMAIN rows
      PROVE  InSheet(rows'[x], Body(r))
  <2>1. InSheet(rows[x], Body(r))
    BY <1>2 DEF OfSheet
  <2>2. {"match", "team"} \subseteq References(rows[x])
    BY <2>1 DEF InSheet, References, ForeignKeys
  <2> QED
    BY <1>2, <2>1, <2>2, RowsKept DEF InSheet
<1>3. x \in DOMAIN rows' => InSheet(rows'[x], Body(r)')
  BY <1>1, <1>2
<1> QED
  BY <1>1, <1>3 DEF OfSheet, InSheet

\* The steps of others leave a submission its sheet.
LEMMA SheetStays ==
  ASSUME TypeInv, [Next]_vars, NEW r \in Req, SheetOK(r), req'[r] = req[r]
  PROVE  SheetOK(r)'
<1>1. /\ Body(r)' = Body(r) /\ Targets(r)' = Targets(r)
      /\ \A s : At(r, s)' = At(r, s)
  BY OthersKeep DEF Targets
<1>2. \A x \in req[r].before \cup Targets(r) \cup req[r].gone : OfSheet(r, x)'
  BY <1>1, OfSheetStays DEF SheetOK
<1>3. req[r].before \cap DOMAIN rows' \subseteq req[r].before \cap DOMAIN rows
  BY SettledRows DEF SheetOK, OfSheet
<1> QED
  BY <1>1, <1>2, <1>3 DEF SheetOK

\* A submission arrives at a sheet, and has neither chosen nor inserted anything.
LEMMA SheetStarts ==
  ASSUME TypeInv, NEW r \in Req, Alone(r), NEW b, Starts(r, b), b.kind \in Filling
  PROVE  SheetOK(r)'
<1> DEFINE s == req'[r]
<1>1. /\ s.before = Sheet(b) /\ s.gone = {} /\ DOMAIN s.new = {} /\ s.body = b
      /\ s.todo = Handlers[b.kind] /\ IsRequest(b) /\ rows' = rows
  BY DEF Starts, Seen, Filling, Alone
<1>2. Handlers[b.kind] # <<>> /\ Head(Handlers[b.kind]) \notin {"clear", "discard", "fill"}
  BY DEF Filling, Handlers, submit_lineup, set_statistics
<1>3. Targets(r)' = {} /\ ~At(r, "clear")' /\ Body(r)' = b
  BY <1>1, <1>2 DEF Targets, At, Body
<1>4. ASSUME NEW x \in Sheet(b) PROVE OfSheet(r, x)'
  <2>1. Settled(x) /\ InSheet(rows[x], b)
    BY <1>4, RowsSettled DEF TypeInv, Sheet
  <2>2. Settled(x)'
    BY <2>1, StatusStays, SettledStays
  <2> QED
    BY <1>1, <1>3, <2>1, <2>2 DEF OfSheet, InSheet
<1>5. Len(b.items) \in Nat
  BY <1>1, SheetKind
<1>6. {r} \X (1 .. 0) = {} /\ 0 \in 0 .. Len(b.items)
  BY <1>5
<1> QED
  BY <1>1, <1>2, <1>3, <1>4, <1>6 DEF SheetOK

\* The n items that it has inserted are n rows.
LEMMA SheetSize ==
  ASSUME NEW r, NEW n \in Nat
  PROVE  Cardinality({r} \X (1 .. n)) = n
<1>1. IsFiniteSet({r}) /\ Cardinality({r}) = 1
  BY FS_Singleton
<1>2. IsFiniteSet(1 .. n) /\ Cardinality(1 .. n) = n
  BY FS_Interval
<1>3. Cardinality({r} \X (1 .. n)) = Cardinality({r}) * Cardinality(1 .. n)
  BY <1>1, <1>2, FS_Product
<1> QED
  BY <1>1, <1>2, <1>3

\* Until its rows are to be deleted, a submission only reads.
LEMMA SheetReads ==
  ASSUME NEW r \in Req, TypeInv, Works(r), Kind(r) \in Filling,
         Head(req[r].todo) \notin {"clear", "fill"}
  PROVE  /\ req'[r].new = req[r].new /\ req'[r].gone = req[r].gone
         /\ req'[r].todo # <<>> /\ Head(req'[r].todo) # "fill"
         /\ Head(req'[r].todo) = "clear" => Head(req[r].todo) = "aim"
         /\ Head(req[r].todo) = "aim" => req'[r].found = Sheet(Body(r))
         /\ Head(req'[r].todo) # "discard"
<1> DEFINE q == req[r]
<1>1. Placed(q.body.kind, q.todo) /\ q.todo # <<>> /\ q.body.kind \in Filling
  BY GoesOn DEF TypeInv, Works, Kind, Body
<1>2. Head(q.todo) \notin {"insert", "clear", "fill", "delete", "discard", "review", "edit",
                            "update", "update_player", "own", "climb"}
  BY <1>1, Kinds DEF Placed, Climbing, Filling
<1>3. \/ req'[r].todo = Tail(q.todo)
      \/ req'[r].todo = q.todo /\ Head(q.todo) \in {"climb", "fill"}
  BY DEF Works, Goes
<1>4. req'[r].todo = Tail(q.todo)
  BY <1>2, <1>3
<1>5. Keeps(r)
  <2>1. \A s : At(r, s) => s = Head(q.todo)
    BY DEF At
  <2>2. ~Inserts(r) /\ ~Fills(r) /\ ~Changes(r) /\ ~Removes(r)
    BY <1>2, <2>1, StatementNames DEF Inserts, Fills, Changes, Removes
  <2>3. ~Ends(r)
    BY DEF Works, Goes, Ends
  <2> QED
    BY <2>2, <2>3 DEF Works, Outcome
<1>6. /\ req'[r].new = req[r].new /\ req'[r].gone = req[r].gone
      /\ Head(q.todo) = "aim" => req'[r].found = Sheet(Body(r))
  BY <1>5 DEF Keeps, Holds, Writes
<1>7. Tail(q.todo) # <<>>
  BY <1>1, <1>2 DEF Placed
<1>8. Head(Tail(q.todo)) \notin {"fill", "discard"}
  BY <1>1, <1>2, <1>7 DEF Placed, Follows
<1>9. Head(Tail(q.todo)) = "clear" => Head(q.todo) = "aim"
  BY <1>1, <1>7 DEF Placed, Follows
<1> QED
  BY <1>4, <1>6, <1>7, <1>8, <1>9

\* A step of its own before the deletion.
LEMMA SheetChooses ==
  ASSUME NEW r \in Req, TypeInv, [Next]_vars, SheetOK(r), Works(r), Kind(r) \in Filling,
         Head(req[r].todo) \notin {"clear", "fill"}
  PROVE  SheetOK(r)'
<1> DEFINE q == req[r]
           s == req'[r]
<1>1. /\ s.new = q.new /\ s.gone = q.gone /\ s.todo # <<>> /\ Head(s.todo) # "fill"
      /\ Head(s.todo) = "clear" => s.found = Sheet(Body(r))
      /\ Head(s.todo) # "discard"
  BY SheetReads
<1>2. s.before = q.before /\ rows' = rows /\ Body(r)' = Body(r)
  BY DEF Works, Goes, Alone, Body
<1>3. ASSUME NEW x \in Sheet(Body(r)) PROVE OfSheet(r, x)
  BY <1>3, RowsSettled DEF Sheet, OfSheet, TypeInv
<1>4. Targets(r)' \subseteq Sheet(Body(r))
  BY <1>1 DEF Targets, At
<1>5. \A x \in s.before \cup Targets(r)' \cup s.gone : OfSheet(r, x)
  BY <1>1, <1>2, <1>3, <1>4 DEF SheetOK
<1>6. \A x \in s.before \cup Targets(r)' \cup s.gone : OfSheet(r, x)'
  BY <1>2, <1>5, OfSheetStays
<1>7. At(r, "clear")' => s.before \cap DOMAIN rows' \subseteq s.found
  <2>1. SUFFICES ASSUME NEW x \in q.before \cap DOMAIN rows, At(r, "clear")'
                 PROVE  x \in Sheet(Body(r))
    BY <1>1, <1>2 DEF At
  <2> QED
    BY DEF SheetOK, OfSheet, Sheet
<1>8. \E n \in 0 .. Len(Body(r)'.items) : DOMAIN s.new = {r} \X (1 .. n)
  BY <1>1, <1>2 DEF SheetOK
<1> QED
  BY <1>1, <1>6, <1>7, <1>8 DEF SheetOK

\* The deletion.
LEMMA SheetClears ==
  ASSUME NEW r \in Req, TypeInv, [Next]_vars, SheetOK(r), Works(r), Kind(r) \in Filling,
         Head(req[r].todo) = "clear"
  PROVE  SheetOK(r)'
<1> DEFINE q == req[r]
           s == req'[r]
<1>1. Clear(r) /\ At(r, "clear") /\ Started(r, "clear")
  BY AtStatement, AtStarted, StatementNames DEF Works, TypeInv
<1>2. /\ s.new = q.new /\ s.gone = q.found \cap DOMAIN rows /\ s.todo = Tail(q.todo)
      /\ s.before = q.before /\ s.body = q.body /\ rows' = rows
  BY <1>1 DEF Clear, Started, Fields
<1>3. s.todo # <<>> /\ Head(s.todo) = "fill"
  BY <1>1, <1>2 DEF Started, Placed, Follows
<1>4. Targets(r)' = {} /\ Targets(r) = q.found /\ Body(r)' = Body(r) /\ ~At(r, "clear")'
  BY <1>1, <1>2, <1>3 DEF Targets, At, Body
<1>5. \A x \in s.before \cup s.gone : OfSheet(r, x)
  BY <1>2, <1>4 DEF SheetOK
<1>6. \A x \in s.before \cup s.gone : OfSheet(r, x)'
  BY <1>4, <1>5, OfSheetStays
<1>7. s.before \cap DOMAIN rows' \subseteq s.gone
  BY <1>1, <1>2 DEF SheetOK
<1>8. \E n \in 0 .. Len(Body(r)'.items) : DOMAIN s.new = {r} \X (1 .. n)
  BY <1>2, <1>4 DEF SheetOK
<1> QED
  BY <1>3, <1>4, <1>6, <1>7, <1>8 DEF SheetOK

\* The insertions.
LEMMA SheetFills ==
  ASSUME NEW r \in Req, TypeInv, [Next]_vars, SheetOK(r), Works(r), Kind(r) \in Filling,
         Head(req[r].todo) = "fill"
  PROVE  SheetOK(r)'
<1> DEFINE q == req[r]
           s == req'[r]
           b == Body(r)
<1>1. (Fill(r) \/ Filled(r)) /\ Started(r, "fill") /\ Running(r)'
  BY AtStatement, AtStarted, GoesOn DEF Works, TypeInv, Fill, Filled
<1>2. b.sheet \in {"lineup_entries", "match_statistics"} /\ IsRequest(b)
  BY SheetKind, GoesOn DEF Works, TypeInv, Kind, Body
<1>3. PICK size \in Nat : size = Len(b.items)
  BY <1>2, SheetKind DEF Kind, Body
<1>4. PICK n \in 0 .. size : DOMAIN q.new = {r} \X (1 .. n)
  BY <1>3 DEF SheetOK
<1>5. Cardinality(DOMAIN q.new) = n
  <2>1. n \in Nat
    OBVIOUS
  <2>2. Cardinality({r} \X (1 .. n)) = n
    BY <2>1, SheetSize
  <2> QED
    BY <1>4, <2>2
<1>6. /\ s.before = q.before /\ rows' = rows /\ Body(r)' = Body(r) /\ s.gone = q.gone
      /\ \/ s.todo = <<>> /\ s.new = q.new /\ n = size
         \/ s.todo = q.todo /\ n # size /\ s.new = Over(NextRows(r), q.new)
  <2>1. s.before = q.before /\ rows' = rows /\ Body(r)' = Body(r)
    BY DEF Works, Goes, Alone, Body
  <2>2. CASE Filled(r)
    <3>1. s.todo = Tail(q.todo) /\ s.new = q.new /\ s.gone = q.gone
      BY <1>1, <2>2, ProceedGoes DEF Filled, Holds, Writes, Started, Fields, Proceed
    <3>2. Tail(q.todo) = <<>>
      BY <1>1 DEF Started, Placed
    <3> QED
      BY <1>3, <1>5, <2>1, <2>2, <3>1, <3>2 DEF Filled, Full
  <2>3. CASE Fill(r)
    <3>1. req' = [req EXCEPT ![r].new = Over(NextRows(r), @)]
      <4>1. ~Answer(r, IntegrityViolation)
        BY <1>1, <2>1, AnswerEnds DEF Started, Codes, IntegrityViolation, Ends, Running
      <4> QED
        BY <2>3, <4>1 DEF Fill
    <3> QED
      BY <1>1, <1>3, <1>5, <2>1, <2>3, <3>1 DEF Fill, Full, Started, Fields
  <2> QED
    BY <1>1, <2>2, <2>3
<1>7. Targets(r)' = {} /\ ~At(r, "clear")' /\ (s.todo = <<>> \/ Head(s.todo) = "fill")
  BY <1>6 DEF Targets, At
<1>8. \A x \in s.before \cup s.gone : OfSheet(r, x)'
  BY <1>6, OfSheetStays DEF SheetOK
<1>9. s.before \cap DOMAIN rows' \subseteq s.gone
  BY <1>6 DEF SheetOK
<1>10. \E m \in 0 .. size : DOMAIN s.new = {r} \X (1 .. m) /\ (s.todo = <<>> => m = size)
  <2>1. CASE s.todo = <<>> /\ s.new = q.new /\ n = size
    BY <1>4, <2>1
  <2>2. CASE s.todo = q.todo /\ n # size /\ s.new = Over(NextRows(r), q.new)
    <3> DEFINE last == IF b.sheet = "lineup_entries" THEN n + 1 ELSE size
    <3>1. DOMAIN NextRows(r) = {r} \X (n + 1 .. last)
      BY <1>3, <1>5 DEF NextRows
    <3>2. last \in 0 .. size /\ (1 .. n) \cup (n + 1 .. last) = 1 .. last
      BY <2>2
    <3>3. DOMAIN s.new = {r} \X (1 .. last)
      BY <1>4, <2>2, <3>1, <3>2 DEF Over
    <3>4. s.todo # <<>>
      BY <1>1, <2>2 DEF Started
    <3> QED
      BY <3>2, <3>3, <3>4
  <2> QED
    BY <1>6, <2>1, <2>2
<1> QED
  BY <1>3, <1>6, <1>7, <1>8, <1>9, <1>10 DEF SheetOK

\* No submission runs at the start.
LEMMA SheetInit == Init => SheetInv
BY DEF Init, Blank, SheetInv, Running, Idle, Body

\* Every step keeps the sheets.
LEMMA SheetNext ==
  ASSUME TypeInv, SheetInv, [Next]_vars
  PROVE  SheetInv'
<1> SUFFICES ASSUME NEW q \in Req, Running(q)', Kind(q)' \in Filling PROVE SheetOK(q)'
  BY DEF SheetInv
<1>1. CASE Running(q) /\ req'[q] = req[q]
  BY <1>1, OthersKeep, SheetStays DEF SheetInv
<1>2. CASE Alone(q) /\ \E b : Starts(q, b) /\ Body(q)' = b
  <2>1. PICK b : Starts(q, b) /\ Body(q)' = b
    BY <1>2
  <2> QED
    BY <1>2, <2>1, SheetStarts DEF Kind, Body
<1>3. CASE Works(q) /\ Running(q) /\ Body(q)' = Body(q)
  <2>1. Kind(q) \in Filling /\ SheetOK(q)
    BY <1>3 DEF SheetInv, Kind, Body
  <2> QED
    BY <1>3, <2>1, SheetChooses, SheetClears, SheetFills
<1> QED
  BY <1>1, <1>2, <1>3, Frame

\* A submission that commits has replaced its sheet.
LEMMA SheetCommits ==
  ASSUME NEW r \in Req, TypeInv, SheetOK(r), Commits(r), Kind(r) \in Filling
  PROVE  IsReplaced(r)
<1> DEFINE q == req[r]
<1>1. Committed(r) /\ q.todo = <<>> /\ q.status = 0 /\ Body(r) # None /\ IsRequest(Body(r))
  BY DEF Commits, Running, Idle, Body, TypeInv, RequestOK
<1>2. PICK size \in Nat : size = Len(Body(r).items)
  BY <1>1, SheetKind DEF Kind, Body
<1>3. DOMAIN q.new = {r} \X (1 .. size)
  BY <1>1, <1>2 DEF SheetOK
<1>4. DOMAIN rows' = DOMAIN q.new \cup (DOMAIN rows \ q.gone)
  BY <1>1 DEF Committed
<1>5. q.before \cap DOMAIN rows' = {}
  <2>1. q.before \cap Own(r) = {}
    BY <1>1 DEF SheetOK, OfSheet, Settled
  <2>2. DOMAIN q.new \subseteq Own(r)
    BY DEF TypeInv, RequestOK, Own
  <2>3. q.before \cap DOMAIN rows \subseteq q.gone
    BY <1>1 DEF SheetOK
  <2> QED
    BY <1>4, <2>1, <2>2, <2>3
<1>6. {i \in 1 .. size : <<r, i>> \in DOMAIN rows'} = 1 .. size
  BY <1>3, <1>4
<1>7. ASSUME NEW x \in DOMAIN rows, ~InSheet(rows[x], Body(r)) PROVE x \in DOMAIN rows'
  BY <1>4, <1>7 DEF SheetOK, OfSheet
<1> QED
  BY <1>2, <1>5, <1>6, <1>7 DEF IsReplaced

\* A submission that succeeds has replaced the whole sheet that it found, by the whole
\* of its own, and nothing else; however many others submit or delete meanwhile.
THEOREM SheetsAreReplaced == Spec => SheetReplaced
<1> DEFINE A ==
      \A r \in Req :
        Accepted(r) /\ Kind(r) \in {"submit_lineup", "set_statistics"} => IsReplaced(r)
<1>1. ASSUME TypeInv, SheetInv, [Next]_vars PROVE A
  <2> SUFFICES ASSUME NEW r \in Req, Accepted(r), Kind(r) \in Filling PROVE IsReplaced(r)
    BY DEF Filling
  <2>1. Commits(r)
    BY <1>1, AcceptedCommits DEF Filling
  <2>2. SheetOK(r)
    BY <1>1, <2>1 DEF SheetInv, Commits
  <2> QED
    BY <1>1, <2>1, <2>2, SheetCommits
<1>2. TypeInv /\ SheetInv /\ [Next]_vars => [A]_vars
  BY <1>1
<1>3. Init => TypeInv /\ SheetInv
  BY TypeInit, SheetInit
<1>4. TypeInv /\ SheetInv /\ [Next]_vars => TypeInv' /\ SheetInv'
  BY TypeNext, SheetNext
<1> QED
  BY <1>2, <1>3, <1>4, PTL DEF Spec, SheetReplaced

-----------------------------------------------------------------------------
(* What the rows keep. *)

\* A fixed column of a row never changes.
LEMMA FixedKept ==
  ASSUME TypeInv, [Next]_vars, NEW x \in DOMAIN rows, x \in DOMAIN rows',
         NEW c \in Fixed \cap DOMAIN rows[x]
  PROVE  c \in DOMAIN rows'[x] /\ rows'[x][c] = rows[x][c]
<1>1. ASSUME NEW r \in Req, Commits(r)
      PROVE  c \in DOMAIN rows'[x] /\ rows'[x][c] = rows[x][c]
  <2>1. Committed(r) /\ x \notin DOMAIN req[r].new
    BY <1>1 DEF Commits, Committed
  <2>2. rows'[x] = IF x \in Updated(r) THEN With(rows[x], req[r].set[x]) ELSE rows[x]
    BY <2>1 DEF Committed
  <2>3. x \in Updated(r) => DOMAIN req[r].set[x] \cap Fixed = {}
    BY DEF TypeInv, RequestOK, Updated
  <2> QED
    BY <2>2, <2>3 DEF With
<1>2. CASE rows' = rows
  BY <1>2
<1> QED
  BY <1>1, <1>2, Steps DEF vars, Alone, Outcome

\* There are never infinitely many rows.
Finite == IsFiniteSet(DOMAIN rows)
\* At the start.
LEMMA FiniteInit == Init => Finite
BY RowsAreWhole DEF Init, Finite
\* And after every step.
LEMMA FiniteNext ==
  ASSUME TypeInv, Finite, [Next]_vars
  PROVE  Finite'
<1>1. ASSUME NEW r \in Req, Commits(r) PROVE IsFiniteSet(DOMAIN rows')
  <2>1. DOMAIN rows' \subseteq DOMAIN req[r].new \cup DOMAIN rows
    BY <1>1 DEF Commits, Committed
  <2>2. IsFiniteSet(DOMAIN req[r].new)
    BY DEF TypeInv, RequestOK
  <2>3. IsFiniteSet(DOMAIN req[r].new \cup DOMAIN rows)
    BY <2>2, FS_Union DEF Finite
  <2> QED
    BY <2>1, <2>3, FS_Subset
<1>2. CASE rows' = rows
  BY <1>2 DEF Finite
<1> QED
  BY <1>1, <1>2, Steps DEF Finite, vars, Alone, Outcome

\* The statements of a short handler, one after the other.
LEMMA Tails ==
  ASSUME NEW a, NEW b, NEW c
  PROVE  /\ Tail(<<a>>) = <<>> /\ Tail(<<a, b>>) = <<b>> /\ Tail(<<a, b, c>>) = <<b, c>>
         /\ Head(<<a>>) = a /\ Head(<<a, b>>) = a /\ Head(<<a, b, c>>) = a
         /\ <<a>> # <<>> /\ <<a, b>> # <<>> /\ <<a, b, c>> # <<>>
<1>1. Tail(<<a>>) = <<>> /\ Head(<<a>>) = a /\ <<a>> # <<>>
  OBVIOUS
<1>2. Tail(<<a, b>>) = <<b>> /\ Head(<<a, b>>) = a /\ <<a, b>> # <<>>
  OBVIOUS
<1>3. Tail(<<a, b, c>>) = <<b, c>> /\ Head(<<a, b, c>>) = a /\ <<a, b, c>> # <<>>
  OBVIOUS
<1> QED
  BY <1>1, <1>2, <1>3

-----------------------------------------------------------------------------
(* Fixtures.  What create_match found free stays free, as far as the fixtures go that *)
(* were there when it arrived.                                                        *)

FixtureColumns == {"table", "stage", "group", "home", "away", "kickoff"}
FixtureOK(r) ==
  LET q == req[r] IN
  /\ \A m \in q.before : Settled(m) /\ (m \in DOMAIN rows => rows[m].table = "matches")
  /\ \/ q.todo = <<"find_duplicate", "insert">>
     \/ q.todo \in {<<"insert">>, <<>>} /\ IsFirstOfItsDay(r)

\* A fixture never moves to another pairing, group or time.
LEMMA FixtureKept ==
  ASSUME TypeInv, [Next]_vars, NEW m \in DOMAIN rows, m \in DOMAIN rows',
         rows[m].table = "matches"
  PROVE  \A c \in FixtureColumns : rows'[m][c] = rows[m][c]
<1>1. "matches" \in DOMAIN ForeignKeys
      /\ DOMAIN ForeignKeys["matches"] = {"stage", "group", "home", "away"}
  BY DEF ForeignKeys
<1>2. FixtureColumns \subseteq Fixed
  BY <1>1, FixedColumns DEF Fixed, FixtureColumns
<1>3. FixtureColumns \subseteq DOMAIN rows[m]
  BY <1>1 DEF TypeInv, RowsOK, Whole, References, FixtureColumns
<1> QED
  BY <1>2, <1>3, FixedKept

\* So what was free stays free, for a request that keeps its row.
LEMMA FirstStays ==
  ASSUME TypeInv, [Next]_vars, NEW r \in Req, IsFirstOfItsDay(r),
         \A m \in req[r].before : Settled(m) /\ (m \in DOMAIN rows => rows[m].table = "matches"),
         req'[r].row = req[r].row, req'[r].before = req[r].before
  PROVE  /\ IsFirstOfItsDay(r)'
         /\ \A m \in req'[r].before :
              Settled(m)' /\ (m \in DOMAIN rows' => rows'[m].table = "matches")
<1>1. ASSUME NEW m \in req[r].before
      PROVE  /\ Settled(m)' /\ (m \in DOMAIN rows' => m \in DOMAIN rows)
             /\ m \in DOMAIN rows' => \A c \in FixtureColumns : rows'[m][c] = rows[m][c]
  BY <1>1, SettledRows, FixtureKept
<1>2. ASSUME NEW m, KnownLike(r, m)'
      PROVE  KnownLike(r, m) /\ rows'[m].kickoff = rows[m].kickoff
  <2>1. m \in req[r].before /\ m \in DOMAIN rows'
    BY <1>2 DEF KnownLike
  <2> QED
    BY <1>1, <1>2, <2>1 DEF KnownLike, SamePairing, FixtureColumns
<1>3. IsFirstOfItsDay(r)'
  <2>1. SUFFICES ASSUME OwnDay(req[r].row.kickoff) = Day(req[r].row.kickoff.at),
                        NEW m \in DOMAIN rows', KnownLike(r, m)',
                        Day(rows'[m].kickoff.at) = Day(req[r].row.kickoff.at)
                 PROVE  FALSE
    BY DEF IsFirstOfItsDay
  <2>2. KnownLike(r, m) /\ rows'[m].kickoff = rows[m].kickoff
    BY <1>2, <2>1
  <2> QED
    BY <2>1, <2>2 DEF IsFirstOfItsDay, KnownLike
<1> QED
  BY <1>1, <1>3 DEF FixtureColumns

\* The steps of others.
LEMMA FixtureStays ==
  ASSUME TypeInv, [Next]_vars, NEW r \in Req, FixtureOK(r), req'[r] = req[r]
  PROVE  FixtureOK(r)'
<1>1. /\ IsFirstOfItsDay(r) => IsFirstOfItsDay(r)'
      /\ \A m \in req[r].before :
           Settled(m)' /\ (m \in DOMAIN rows' => rows'[m].table = "matches")
  <2>1. \A m \in req[r].before :
          Settled(m)' /\ (m \in DOMAIN rows' => rows'[m].table = "matches")
    BY SettledRows, FixtureKept DEF FixtureOK, FixtureColumns
  <2> QED
    BY <2>1, FirstStays DEF FixtureOK
<1> QED
  BY <1>1 DEF FixtureOK

\* A fixture that arrives.
LEMMA FixtureStarts ==
  ASSUME TypeInv, NEW r \in Req, Alone(r), NEW b, Starts(r, b), b.kind = "create_match"
  PROVE  FixtureOK(r)'
<1>1. /\ req'[r].before = Table("matches") /\ rows' = rows
      /\ req'[r].todo = <<"find_duplicate", "insert">>
  BY DEF Starts, Seen, Alone, Handlers, create_match
<1>2. ASSUME NEW m \in Table("matches") PROVE Settled(m)' /\ rows[m].table = "matches"
  <2>1. Settled(m) /\ rows[m].table = "matches"
    BY <1>2, RowsSettled DEF TypeInv, Table
  <2> QED
    BY <2>1, StatusStays, SettledStays
<1> QED
  BY <1>1, <1>2 DEF FixtureOK

\* Its own steps: the search, and the insertion.
LEMMA FixtureWorks ==
  ASSUME TypeInv, Finite, [Next]_vars, NEW r \in Req, FixtureOK(r), Works(r)
  PROVE  FixtureOK(r)'
<1> DEFINE q == req[r]
           s == req'[r]
<1>1. /\ DOMAIN req = Req /\ DOMAIN q = Fields /\ Running(r) /\ q.todo # <<>> /\ rows' = rows
      /\ s.status = 0 /\ s.before = q.before
      /\ \A m \in q.before : Settled(m) /\ (m \in DOMAIN rows => rows[m].table = "matches")
  BY DEF TypeInv, RowsOK, RequestOK, Works, Goes, Alone, FixtureOK
<1>2. CASE q.todo = <<"find_duplicate", "insert">>
  <2>1. FindDuplicate(r)
    BY <1>2, AtStatement, Tails DEF Works
  <2>2. \A code \in {409, InternalError} : ~Answer(r, code)
    <3>1. \A code \in {409, InternalError} : code \in Codes \ {0}
      BY DEF Codes, InternalError
    <3> QED
      BY <1>1, <3>1, AnswerEnds DEF Ends
  <2>3. Cardinality(Duplicates(q.row)) = 0 /\ Proceed(r)
    BY <2>1, <2>2 DEF FindDuplicate
  <2>4. s.row = q.row /\ s.todo = <<"insert">>
    BY <1>1, <1>2, <2>3, Tails DEF Proceed, Fields
  <2>5. Duplicates(q.row) = {}
    <3>1. IsFiniteSet(Duplicates(q.row))
      BY FS_Subset DEF Finite, Duplicates, Table
    <3> QED
      BY <2>3, <3>1, FS_EmptySet
  <2>6. IsFirstOfItsDay(r)
    <3>1. SUFFICES ASSUME OwnDay(q.row.kickoff) = Day(q.row.kickoff.at),
                          NEW m \in DOMAIN rows, KnownLike(r, m),
                          Day(rows[m].kickoff.at) = Day(q.row.kickoff.at)
                   PROVE  m \in Duplicates(q.row)
      BY <2>5 DEF IsFirstOfItsDay
    <3>2. m \in Table("matches") /\ SamePairing(rows[m], q.row) /\ rows[m].group = q.row.group
      BY <1>1, <3>1 DEF KnownLike, Table
    <3> QED
      BY <3>1, <3>2 DEF Duplicates
  <2> QED
    BY <1>1, <2>4, <2>6, FirstStays DEF FixtureOK
<1>3. CASE q.todo = <<"insert">> /\ IsFirstOfItsDay(r)
  <2>1. Insert(r)
    BY <1>3, AtStatement, Tails DEF Works
  <2>2. ~Answer(r, IntegrityViolation)
    BY <1>1, AnswerEnds DEF Ends, Codes, IntegrityViolation
  <2>3. s.row = q.row /\ s.todo = <<>>
    BY <1>1, <1>3, <2>1, <2>2, Tails DEF Insert, Fields
  <2> QED
    BY <1>1, <1>3, <2>3, FirstStays DEF FixtureOK
<1> QED
  BY <1>1, <1>2, <1>3 DEF FixtureOK

\* What create_match has found.
FixtureInv == \A r \in Req : Running(r) /\ Kind(r) = "create_match" => FixtureOK(r)
\* Nothing at the start.
LEMMA FixtureInit == Init => FixtureInv
BY DEF Init, Blank, FixtureInv, Running, Idle, Body
\* Every step keeps it.
LEMMA FixtureNext ==
  ASSUME TypeInv, Finite, FixtureInv, [Next]_vars
  PROVE  FixtureInv'
<1> SUFFICES ASSUME NEW q \in Req, Running(q)', Kind(q)' = "create_match" PROVE FixtureOK(q)'
  BY DEF FixtureInv
<1>1. CASE Running(q) /\ req'[q] = req[q]
  BY <1>1, OthersKeep, FixtureStays DEF FixtureInv
<1>2. CASE Alone(q) /\ \E b : Starts(q, b) /\ Body(q)' = b
  <2>1. PICK b : Starts(q, b) /\ Body(q)' = b
    BY <1>2
  <2> QED
    BY <1>2, <2>1, FixtureStarts DEF Kind, Body
<1>3. CASE Works(q) /\ Running(q) /\ Body(q)' = Body(q)
  <2>1. FixtureOK(q)
    BY <1>3 DEF FixtureInv, Kind, Body
  <2> QED
    BY <1>3, <2>1, FixtureWorks
<1> QED
  BY <1>1, <1>2, <1>3, Frame

\* A fixture is not accepted when one of its pairing and group was there on its day, if
\* the day of its kickoff is the same in UTC.
THEOREM DuplicatesAreSeen == Spec => DuplicateSeen
<1> DEFINE A == \A r \in Req : Accepted(r) /\ Kind(r) = "create_match" => IsFirstOfItsDay(r)
<1>1. ASSUME TypeInv, FixtureInv, [Next]_vars PROVE A
  <2> SUFFICES ASSUME NEW r \in Req, Accepted(r), Kind(r) = "create_match"
               PROVE  IsFirstOfItsDay(r)
    OBVIOUS
  <2>1. Commits(r)
    BY <1>1, AcceptedCommits
  <2>2. FixtureOK(r) /\ req[r].todo = <<>>
    BY <1>1, <2>1 DEF FixtureInv, Commits
  <2> QED
    BY <2>2, Tails DEF FixtureOK
<1>2. TypeInv /\ FixtureInv /\ [Next]_vars => [A]_vars
  BY <1>1
<1>3. Init => TypeInv /\ Finite /\ FixtureInv
  BY TypeInit, FiniteInit, FixtureInit
<1>4. TypeInv /\ Finite /\ FixtureInv /\ [Next]_vars => TypeInv' /\ Finite' /\ FixtureInv'
  BY TypeNext, FiniteNext, FixtureNext
<1> QED
  BY <1>2, <1>3, <1>4, PTL DEF Spec, DuplicateSeen

-----------------------------------------------------------------------------
(* New rows.  What a request inserts is the row of its body, but for the slug. *)

\* Three statements alone change the row that a request has at hand.
LEMMA RowKept ==
  ASSUME NEW r \in Req, TypeInv, Works(r), Head(req[r].todo) \notin {"get", "member", "slug"}
  PROVE  req'[r].row = req[r].row
<1>0. /\ DOMAIN req = Req /\ DOMAIN req[r] = Fields /\ req'[r].status = 0
      /\ Handle(r) /\ ~Commit(r)
  BY DEF Works, Goes, TypeInv, RowsOK, RequestOK
<1>1. \A code : code # 0 => ~Answer(r, code)
  <2> SUFFICES ASSUME NEW code, Answer(r, code) PROVE code = 0
    OBVIOUS
  <2>1. req'[r] = [Blank EXCEPT !.body = Body(r), !.status = code]
    BY <1>0 DEF Answer
  <2>2. req'[r].status = code
    BY <2>1 DEF Blank
  <2> QED
    BY <1>0, <2>2
<1>2. Proceed(r) => req'[r].row = req[r].row
  BY <1>0 DEF Proceed, Fields
<1>3. \A columns : Change(r, columns) => req'[r].row = req[r].row
  BY <1>0, <1>1, <1>2 DEF Change, InternalError, Fields
<1>4. ~Get(r) /\ ~FindMember(r) /\ ~ChooseSlug(r)
  BY DEF Get, FindMember, ChooseSlug, At
<1>5. Insert(r) => req'[r].row = req[r].row
  BY <1>0, <1>1, <1>2 DEF Insert, Fields, IntegrityViolation
<1>6. EnterKey(r) => req'[r].row = req[r].row
  BY <1>0, <1>1, <1>2 DEF EnterKey, Fields, IntegrityViolation
<1>7. Delete(r) => req'[r].row = req[r].row
  BY <1>0, <1>1, <1>2 DEF Delete, Fields
<1>8. LetGo(r) => req'[r].row = req[r].row
  BY <1>0, <1>1, <1>2 DEF LetGo, Fields, IntegrityViolation
<1>9. FindDuplicate(r) => req'[r].row = req[r].row
  BY <1>0, <1>1, <1>2 DEF FindDuplicate, Fields, InternalError
<1>10. Aim(r) => req'[r].row = req[r].row
  BY <1>0, <1>1, <1>2 DEF Aim, Fields
<1>11. Clear(r) => req'[r].row = req[r].row
  BY <1>0, <1>1, <1>2 DEF Clear, Fields
<1>12. Fill(r) => req'[r].row = req[r].row
  BY <1>0, <1>1, <1>2 DEF Fill, Fields, IntegrityViolation
<1>13. Filled(r) => req'[r].row = req[r].row
  BY <1>0, <1>1, <1>2 DEF Filled, Fields
<1>14. FindTeam(r) => req'[r].row = req[r].row
  BY <1>0, <1>1, <1>2 DEF FindTeam, Fields
<1>15. CheckJersey(r) => req'[r].row = req[r].row
  BY <1>0, <1>1, <1>2 DEF CheckJersey, Fields
<1>16. UpdatePlayer(r) => req'[r].row = req[r].row
  BY <1>3 DEF UpdatePlayer
<1>17. FindCompetition(r) => req'[r].row = req[r].row
  BY <1>0, <1>1, <1>2 DEF FindCompetition, Fields
<1>18. Climb(r) => req'[r].row = req[r].row
  BY <1>0, <1>1, <1>2 DEF Climb, Fields
<1>19. UpdateEntry(r) => req'[r].row = req[r].row
  BY <1>3 DEF UpdateEntry
<1>20. FindSeason(r) => req'[r].row = req[r].row
  BY <1>0, <1>1, <1>2 DEF FindSeason, Fields, InternalError
<1>21. FindTables(r) => req'[r].row = req[r].row
  BY <1>0, <1>1, <1>2 DEF FindTables, Fields, InternalError
<1>22. Review(r) => req'[r].row = req[r].row
  BY <1>3 DEF Review
<1>23. EditArticle(r) => req'[r].row = req[r].row
  BY <1>3 DEF EditArticle
<1>24. FindOwn(r) => req'[r].row = req[r].row
  BY <1>0, <1>1, <1>2 DEF FindOwn, Fields
<1>25. Discard(r) => req'[r].row = req[r].row
  BY <1>0, <1>1, <1>2 DEF Discard, Fields
<1> QED
  BY <1>0, <1>4, <1>5, <1>6, <1>7, <1>8, <1>9, <1>10, <1>11, <1>12, <1>13, <1>14, <1>15,
     <1>16, <1>17, <1>18, <1>19, <1>20, <1>21, <1>22, <1>23, <1>24, <1>25
  DEF Handle, Statement, Fixture, Entry, Errand

InsertionOK(r) ==
  LET q == req[r] IN
  /\ \A id \in DOMAIN q.new : id = r /\ q.new[id] = q.row /\ q.todo = <<>>
  /\ \/ Kind(r) = "record_event" /\ q.todo # <<>> /\ Head(q.todo) \in {"get", "member"}
     \/ Kind(r) = "create_article" /\ q.row.table = "articles"
     \/ q.row = Body(r).row
InsertionInv == \A r \in Req : Running(r) /\ Kind(r) \in Inserting => InsertionOK(r)

\* A request starts with the row of its body.
LEMMA InsertionStarts ==
  ASSUME NEW r \in Req, NEW b, Starts(r, b), b.kind \in Inserting
  PROVE  InsertionOK(r)'
<1>1. "row" \in DOMAIN b
  BY InsertingRuns DEF Starts, IsRequest
<1>2. req'[r].row = b.row /\ Body(r)' = b /\ DOMAIN req'[r].new = {}
  BY <1>1 DEF Starts, Body
<1> QED
  BY <1>2 DEF InsertionOK

\* It keeps the row up to its insertion.
LEMMA InsertionWorks ==
  ASSUME NEW r \in Req, TypeInv, Kind(r) \in Inserting, InsertionOK(r), Works(r)
  PROVE  InsertionOK(r)'
<1> DEFINE q == req[r]
           s == req'[r]
<1>1. /\ Placed(q.body.kind, q.todo) /\ q.todo # <<>> /\ s.body = q.body /\ s.status = 0
      /\ q.body.kind \in Inserting
      /\ \/ s.todo = Tail(q.todo)
         \/ s.todo = q.todo /\ Head(q.todo) \in {"climb", "fill"}
  BY GoesOn DEF TypeInv, Works, Goes, Kind, Body
<1>2. \A id \in DOMAIN s.new : id = r /\ s.new[id] = s.row /\ s.todo = <<>>
  <2>1. DOMAIN q.new = {}
    BY <1>1 DEF InsertionOK
  <2>2. CASE Inserts(r)
    <3>1. Head(q.todo) = "insert"
      BY <2>2 DEF Inserts, Insert, At
    <3> QED
      BY <1>1, <2>2, <3>1 DEF Inserts, Placed
  <2>3. CASE Fills(r)
    <3>1. Head(q.todo) = "fill"
      BY <2>3 DEF Fills, Fill, At
    <3> QED
      BY <1>1, <3>1, Kinds DEF Placed, Filling, Inserting
  <2>4. CASE Keeps(r) \/ Changes(r) \/ Removes(r)
    BY <2>1, <2>4 DEF Keeps, Holds, Writes, Changes, Removes
  <2> QED
    BY <1>1, <2>2, <2>3, <2>4 DEF Works, Outcome, Ends
<1>3. Body(r)' = Body(r) /\ Kind(r)' = Kind(r)
  BY <1>1 DEF Body, Kind
<1>4. CASE Head(q.todo) = "get"
  <2>1. Kind(r) = "record_event" /\ Follows(q.todo, "member")
    BY <1>1, <1>4 DEF Placed, Kind
  <2>2. s.todo # <<>> /\ Head(s.todo) = "member"
    BY <1>1, <1>4, <2>1 DEF Follows
  <2> QED
    BY <1>2, <1>3, <2>1, <2>2 DEF InsertionOK
<1>5. CASE Head(q.todo) = "member"
  <2>1. FindMember(r) /\ DOMAIN req = Req /\ DOMAIN q = Fields /\ Running(r) /\ rows' = rows
    BY <1>5, AtStatement DEF Works, TypeInv, RowsOK, RequestOK, Goes, Alone
  <2>2. ~Answer(r, 409)
    BY <1>1, <2>1, AnswerEnds DEF Ends, Codes
  <2>3. s.row = Body(r).row
    BY <2>1, <2>2 DEF FindMember, Fields
  <2> QED
    BY <1>2, <1>3, <2>3 DEF InsertionOK
<1>6. CASE Head(q.todo) = "slug"
  <2>1. Kind(r) = "create_article" /\ Whole(q.row) /\ IsRequest(Body(r))
    BY <1>1, <1>6, GoesOn DEF Placed, Kind, TypeInv, RequestOK, Works, Body
  <2>2. q.row.table = "articles"
    <3>1. Body(r).row.table = "articles"
      BY <2>1, InsertingRuns DEF IsRequest, Inserting, Kind, Entity, Body
    <3> QED
      BY <2>1, <3>1 DEF InsertionOK
  <2>3. ChooseSlug(r) /\ DOMAIN req = Req /\ DOMAIN q = Fields
    BY <1>6, AtStatement DEF Works, TypeInv, RowsOK, RequestOK
  <2>4. s.row = [q.row EXCEPT !.slug = IF Titled(q.row.slug) = {} THEN q.row.slug
                                       ELSE Append(q.row.slug, r)]
    BY <2>3 DEF ChooseSlug, Fields
  <2>5. s.row.table = "articles"
    BY <2>1, <2>2, <2>4 DEF Whole
  <2> QED
    BY <1>2, <1>3, <2>1, <2>5 DEF InsertionOK
<1>7. CASE Head(q.todo) \notin {"get", "member", "slug"}
  <2>1. s.row = q.row
    BY <1>7, RowKept
  <2> QED
    BY <1>2, <1>3, <1>7, <2>1 DEF InsertionOK
<1> QED
  BY <1>4, <1>5, <1>6, <1>7

\* Nothing at the start.
LEMMA InsertionInit == Init => InsertionInv
BY DEF Init, Blank, InsertionInv, Running, Idle, Body
\* Every step keeps it.
LEMMA InsertionNext ==
  ASSUME TypeInv, InsertionInv, [Next]_vars
  PROVE  InsertionInv'
<1> SUFFICES ASSUME NEW q \in Req, Running(q)', Kind(q)' \in Inserting PROVE InsertionOK(q)'
  BY DEF InsertionInv
<1>1. CASE Running(q) /\ req'[q] = req[q]
  <2>1. Kind(q)' = Kind(q) /\ Body(q)' = Body(q)
    BY <1>1, OthersKeep
  <2> QED
    BY <1>1, <2>1 DEF InsertionInv, InsertionOK
<1>2. CASE Alone(q) /\ \E b : Starts(q, b) /\ Body(q)' = b
  <2>1. PICK b : Starts(q, b) /\ Body(q)' = b
    BY <1>2
  <2> QED
    BY <1>2, <2>1, InsertionStarts DEF Kind, Body
<1>3. CASE Works(q) /\ Running(q) /\ Body(q)' = Body(q)
  <2>1. Kind(q) \in Inserting /\ InsertionOK(q)
    BY <1>3 DEF InsertionInv, Kind, Body
  <2> QED
    BY <1>3, <2>1, InsertionWorks
<1> QED
  BY <1>1, <1>2, <1>3, Frame

-----------------------------------------------------------------------------
(* Waiting.  What a transaction inserts or deletes it does in its last statements,  *)
(* and an update is followed by nothing but the test of its key: so whoever holds   *)
(* anything waits for a leaver at most.                                             *)

\* Where those are who have inserted or deleted something.
Writing(r) == DOMAIN req[r].new # {} \/ req[r].gone # {}
WritingInv ==
  \A r \in Req : Writing(r) =>
    req[r].todo = <<>> \/ Head(req[r].todo) \in {"referenced", "fill"}

\* A statement that goes on keeps it.
LEMMA WritingWorks ==
  ASSUME NEW r \in Req, TypeInv, WritingInv, Works(r), Writing(r)'
  PROVE  req'[r].todo = <<>> \/ Head(req'[r].todo) \in {"referenced", "fill"}
<1> DEFINE t == req[r].todo
<1>1. Goes(r) /\ Placed(req[r].body.kind, t) /\ t # <<>>
  BY GoesOn DEF Works, TypeInv
<1>2. req'[r].todo = Tail(t) \/ (req'[r].todo = t /\ Head(t) \in {"climb", "fill"})
  BY <1>1 DEF Goes
<1>3. Head(t) \in {"insert", "discard"} => Tail(t) = <<>>
  BY <1>1 DEF Placed
<1>4. Head(t) \in {"referenced", "fill"} => Tail(t) = <<>>
  BY <1>1 DEF Placed
<1>5. Head(t) = "delete" => Head(Tail(t)) = "referenced"
  BY <1>1 DEF Placed, Follows
<1>6. Head(t) = "clear" => Head(Tail(t)) = "fill"
  BY <1>1 DEF Placed, Follows
<1>7. CASE req'[r].new = req[r].new /\ req'[r].gone = req[r].gone
  <2>1. Writing(r)
    BY <1>7 DEF Writing
  <2>2. Head(t) \in {"referenced", "fill"}
    BY <1>1, <2>1 DEF WritingInv
  <2> QED
    BY <1>2, <1>4, <2>2
<1>8. CASE Inserts(r) \/ Fills(r)
  <2>1. Head(t) \in {"insert", "fill"}
    BY <1>8 DEF Inserts, Insert, Fills, Fill, At
  <2> QED
    BY <1>2, <1>3, <1>4, <2>1
<1>9. CASE Removes(r)
  <2>1. Head(t) \in {"delete", "clear", "discard"}
    BY <1>9 DEF Removes, Delete, Clear, Discard, At
  <2> QED
    BY <1>2, <1>3, <1>5, <1>6, <2>1
<1>10. Keeps(r) \/ Changes(r) => req'[r].new = req[r].new /\ req'[r].gone = req[r].gone
  BY DEF Keeps, Holds, Writes, Changes
<1>11. Keeps(r) \/ Inserts(r) \/ Fills(r) \/ Changes(r) \/ Removes(r)
  BY <1>1 DEF Works, Outcome, Ends, Goes
<1> QED
  BY <1>7, <1>8, <1>9, <1>10, <1>11

\* Nothing is written at the start.
LEMMA WritingInit == Init => WritingInv
BY DEF Init, Blank, WritingInv, Writing
\* Every step keeps it.
LEMMA WritingNext ==
  ASSUME TypeInv, WritingInv, [Next]_vars
  PROVE  WritingInv'
<1>0. TypeInv'
  BY TypeNext
<1> SUFFICES ASSUME NEW q \in Req, Writing(q)'
             PROVE  req'[q].todo = <<>> \/ Head(req'[q].todo) \in {"referenced", "fill"}
  BY DEF WritingInv
<1>1. Running(q)'
  BY <1>0 DEF TypeInv, RequestOK, Writing
<1>2. CASE Running(q) /\ req'[q] = req[q]
  BY <1>2 DEF WritingInv, Writing
<1>3. CASE Alone(q) /\ \E b : Starts(q, b) /\ Body(q)' = b
  BY <1>3 DEF Starts, Writing
<1>4. CASE Works(q) /\ Running(q) /\ Body(q)' = Body(q)
  BY <1>4, WritingWorks
<1> QED
  BY <1>1, <1>2, <1>3, <1>4, Frame

\* A request that waits for no leaver has something left to run, and waits for no
\* row that refers to its own.
LEMMA WaitsWhere ==
  ASSUME NEW r \in Req, Awaits(r), ~AwaitsLeaver(r)
  PROVE  Running(r) /\ req[r].todo # <<>> /\ ~At(r, "referenced")
<1>1. Running(r) /\ req[r].todo # <<>>
  BY DEF Awaits, AwaitsRow, AwaitsParent, AwaitsKey, AwaitsChildren, At
<1>2. ASSUME At(r, "referenced") PROVE FALSE
  <2>1. AwaitsChildren(r)
    BY <1>2 DEF Awaits, AwaitsRow, AwaitsParent, AwaitsKey, At
  <2>2. PICK y \in Referring(Body(r).id) : TRUE
    BY <2>1 DEF AwaitsChildren
  <2>3. PICK q \in Req \ {r} : y \in req[q].gone
    BY <2>1, <2>2 DEF AwaitsChildren
  <2> QED
    BY <1>2, <2>2, <2>3 DEF AwaitsLeaver
<1> QED
  BY <1>1, <1>2

\* The rows that a request is about to add to its sheet.
LEMMA NextWhole ==
  ASSUME NEW r \in Req, RequestOK(r), At(r, "fill"), NEW id \in DOMAIN NextRows(r)
  PROVE  NextRows(r)[id].table \in DOMAIN ForeignKeys
<1>1. req[r].body # None /\ IsRequest(req[r].body) /\ req[r].body.kind \in Filling
  <2>1. req[r].body # None /\ IsRequest(req[r].body) /\ Left(req[r].body.kind, req[r].todo)
    BY DEF RequestOK, At, Running, Idle, Body
  <2>2. req[r].todo # <<>> /\ Head(req[r].todo) = "fill"
    BY DEF At
  <2>3. Placed(req[r].body.kind, req[r].todo)
    BY <2>1, <2>2, StatementPlace
  <2> QED
    BY <2>1, <2>2, <2>3 DEF Placed
<1>2. req[r].body.sheet \in {"lineup_entries", "match_statistics"}
  BY <1>1, SheetKind
<1>3. NextRows(r)[id] = Item(req[r].body, id[2])
  BY DEF NextRows, Body
<1> QED
  BY <1>2, <1>3, ItemWhole DEF Whole

\* Where everybody waits who runs, and nobody for a leaver, nothing is held.
LEMMA NothingHeld ==
  ASSUME TypeInv, RefsInv, WritingInv,
         \A r \in Req : Running(r) => Awaits(r) /\ ~AwaitsLeaver(r)
  PROVE  \A r \in Req : DOMAIN req[r].new = {} /\ Updated(r) = {} /\ req[r].gone = {}
<1>1. \A r \in Req : Running(r) => req[r].todo # <<>> /\ ~At(r, "referenced")
  BY WaitsWhere
<1>2. ASSUME NEW r \in Req, Updated(r) # {} PROVE At(r, "unique")
  BY <1>1, <1>2 DEF TypeInv, RequestOK, Updated, At
<1>3. ASSUME NEW r \in Req, Writing(r)
      PROVE  At(r, "fill") /\ Kind(r) \in Filling
  <2>1. Running(r)
    BY <1>3 DEF TypeInv, RequestOK, Writing
  <2>2. At(r, "fill")
    BY <1>1, <1>3, <2>1 DEF WritingInv, At
  <2>3. Placed(req[r].body.kind, req[r].todo)
    BY <2>1, <2>2, StatementPlace DEF TypeInv, RequestOK, At
  <2> QED
    BY <2>2, <2>3 DEF Placed, At, Kind, Body
<1>4. ASSUME NEW r \in Req PROVE Claimed(r) = {}
  <2>1. \A x \in DOMAIN req[r].new : Keys(req[r].new[x]) = {}
    BY <1>3, SheetKeys DEF TypeInv, Writing
  <2> QED
    BY <1>2, <2>1 DEF Claimed
<1>5. ASSUME NEW r \in Req, At(r, "unique") PROVE FALSE
  <2>1. Awaits(r) /\ ~AwaitsLeaver(r)
    BY <1>5 DEF At
  <2>2. Contended(r, NewKeys(r))
    BY <1>5, <2>1 DEF Awaits, AwaitsRow, AwaitsParent, AwaitsKey, AwaitsChildren, At
  <2>3. PICK q \in Req \ {r} : NewKeys(r) \cap Vacated(q) # {}
    BY <1>4, <2>2 DEF Contended
  <2> QED
    BY <1>5, <2>1, <2>3 DEF AwaitsLeaver
<1>6. ASSUME NEW r \in Req PROVE KeyLocked(r) = req[r].gone
  BY <1>2, <1>5 DEF KeyLocked
<1>7. ASSUME NEW r \in Req, At(r, "fill") PROVE FALSE
  <2>1. ~Shareable(r, NextReferred(r))
    <3>1. Awaits(r)
      BY <1>7 DEF At
    <3> QED
      BY <1>7, <3>1 DEF Awaits, AwaitsRow, AwaitsParent, AwaitsKey, AwaitsChildren, At
  <2>2. PICK q \in Req \ {r} : NextReferred(r) \cap req[q].gone # {}
    BY <1>6, <2>1 DEF Shareable
  <2>3. PICK id \in DOMAIN NextRows(r), y \in req[q].gone : y \in Referred(NextRows(r)[id])
    BY <2>2 DEF NextReferred
  <2>4. NextRows(r)[id].table \in DOMAIN ForeignKeys
    BY <1>7, NextWhole DEF TypeInv
  <2>5. y \in DOMAIN rows /\ rows[y].table \in Parents
    BY <2>3, <2>4, ForeignColumns DEF Referred, References, Table
  <2>6. Kind(q) \notin Deleting
    BY <1>3, <2>3, Kinds DEF Writing
  <2> QED
    BY <2>3, <2>5, <2>6 DEF RefsInv
<1> QED
  BY <1>2, <1>3, <1>5, <1>7 DEF Writing

\* Then nobody waits: a circle needs a leaver.
LEMMA NoOtherCircle ==
  ASSUME TypeInv, RefsInv, WritingInv
  PROVE  CirclesNeedLeavers
<1> SUFFICES ASSUME NEW r \in Req, Running(r),
                    \A q \in Req : Running(q) => Awaits(q) /\ ~AwaitsLeaver(q)
             PROVE  FALSE
  BY DEF CirclesNeedLeavers
<1>1. \A q \in Req : DOMAIN req[q].new = {} /\ Updated(q) = {} /\ req[q].gone = {}
  BY NothingHeld
<1>2. \A q \in Req : Shared(q) = {} /\ KeyLocked(q) = {} /\ Claimed(q) = {} /\ Vacated(q) = {}
  BY <1>1 DEF Shared, KeyLocked, Claimed, Vacated
<1>3. \A x : Updatable(r, x) /\ Removable(r, x)
  BY <1>1, <1>2 DEF Updatable, Removable
<1>4. \A ids : Shareable(r, ids) /\ ~Contended(r, ids)
  BY <1>2 DEF Shareable, Contended
<1>5. ~AwaitsRow(r)
  BY <1>3 DEF AwaitsRow, AwaitsChange
<1>6. ~AwaitsParent(r) /\ ~AwaitsKey(r)
  BY <1>4 DEF AwaitsParent, AwaitsKey
<1>7. ~AwaitsChildren(r)
  BY <1>1 DEF AwaitsChildren
<1> QED
  BY <1>5, <1>6, <1>7 DEF Awaits

\* Requests wait for each other in a circle only by way of one that waits for a row or
\* a number that another is giving up, however many requests there are.
THEOREM CirclesAreOfLeavers == Spec => []CirclesNeedLeavers
<1>1. Init => TypeInv /\ LocksInv /\ TargetsInv /\ RefsInv /\ WritingInv
  BY TypeInit, LocksInit, TargetsInit, RefsInit, WritingInit
<1>2. TypeInv /\ LocksInv /\ TargetsInv /\ RefsInv /\ WritingInv /\ [Next]_vars
        => TypeInv' /\ LocksInv' /\ TargetsInv' /\ RefsInv' /\ WritingInv'
  BY TypeNext, LocksNext, TargetsNext, RefsNext, WritingNext
<1>3. TypeInv /\ RefsInv /\ WritingInv => CirclesNeedLeavers
  BY NoOtherCircle
<1> QED
  BY <1>1, <1>2, <1>3, PTL DEF Spec
=============================================================================
