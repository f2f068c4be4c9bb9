--------------------------- MODULE BackofficeProofs ---------------------------
(***************************************************************************)
(* What the run fixtures checks of Backoffice on three requests, proved    *)
(* for every set of requests, bodies and earlier rows.                     *)
(***************************************************************************)
EXTENDS Backoffice, FiniteSetTheorems, SequenceTheorems, TLAPS

Fields == {"body", "status", "todo", "row", "found", "new", "set", "gone", "before"}
Codes == {0, 200, 400, 404, 409, 499, 500}
Climbing == {"create_stage", "create_group", "delete_season", "delete_stage", "delete_group"}

Statements ==
  {"find_duplicate", "insert", "get", "delete", "referenced", "aim", "clear", "fill", "member",
   "team", "jersey", "update_player", "unique", "update", "competition", "climb", "season",
   "tables", "review", "slug", "edit", "own", "discard"}

\* The handlers once more, by what they run.
HandlerOf(k, h) ==
  \/ k \in {"create_competition", "create_team", "submit_report", "add_favorite"}
     /\ h = <<"insert">>
  \/ k = "create_match" /\ h = <<"find_duplicate", "insert">>
  \/ k = "create_player" /\ h = <<"team", "jersey", "insert">>
  \/ k = "create_season" /\ h = <<"competition", "insert">>
  \/ k \in {"create_stage", "create_group"} /\ h = <<"climb", "insert">>
  \/ k = "create_article" /\ h = <<"slug", "insert">>
  \/ k = "record_event" /\ h = <<"get", "member", "insert">>
  \/ k \in {"update_competition", "update_group", "update_team"} /\ h = <<"get", "update">>
  \/ k = "update_article" /\ h = <<"get", "edit">>
  \/ k = "update_player" /\ h = <<"get", "jersey", "update_player", "unique">>
  \/ k = "review_item" /\ h = <<"get", "review">>
  \/ k \in {"delete_competition", "delete_article"} /\ h = <<"delete", "referenced">>
  \/ k \in {"delete_match", "delete_player", "delete_team"} /\ h = <<"get", "delete", "referenced">>
  \/ k \in {"delete_season", "delete_stage", "delete_group"}
     /\ h = <<"climb", "delete", "referenced">>
  \/ k \in {"submit_lineup", "set_statistics"} /\ h = <<"get", "aim", "clear", "fill">>
  \/ k = "remove_favorite" /\ h = <<"own", "discard">>
  \/ k = "get_standings" /\ h = <<"season", "tables">>

\* The n-th statement of a handler: which kinds of request run it, and what follows.
PlaceOK(k, h, n) ==
  LET last == n = Len(h)
      Then(s) == n + 1 \in 1 .. Len(h) /\ h[n + 1] = s IN
  /\ h[n] = "insert" => k \in Inserting /\ last
  /\ h[n] = "update_player" => k = "update_player" /\ Then("unique")
  /\ h[n] = "unique" => k = "update_player" /\ last
  /\ h[n] \in {"update", "edit"} => k \in Updating \ {"update_player"} /\ last
  /\ h[n] \in {"update", "edit"} => (h[n] = "edit" <=> k = "update_article")
  /\ h[n] = "review" => k = "review_item" /\ last
  /\ h[n] = "delete" => k \in Deleting /\ Then("referenced")
  /\ h[n] = "referenced" => k \in Deleting /\ last
  /\ h[n] = "aim" => k \in Filling
  /\ h[n] = "clear" => k \in Filling /\ Then("fill")
  /\ h[n] = "fill" => k \in Filling /\ last
  /\ h[n] = "own" => k = "remove_favorite" /\ Then("discard")
  /\ h[n] = "discard" => k = "remove_favorite" /\ last
  /\ h[n] = "get" /\ k \in Inserting => k = "record_event" /\ Then("member")
  /\ k = "record_event" => h[n] \in {"get", "member", "insert"}
  /\ h[n] = "member" => k = "record_event" /\ Then("insert")
  /\ h[n] = "slug" => k = "create_article" /\ Then("insert")
  /\ Then("clear") => h[n] = "aim"
  /\ Then("discard") => h[n] = "own"
  /\ last /\ k \in Deleting => h[n] = "referenced"
  /\ last /\ k \in Filling => h[n] = "fill"
  /\ last /\ k \in Inserting => h[n] = "insert"
  /\ last /\ k = "get_standings" => h[n] = "tables"
  /\ Then("fill") => h[n] = "clear"
  /\ ~Then("climb") /\ ~Then("get")
  /\ Then("referenced") => h[n] = "delete"
  /\ Then("unique") => h[n] = "update_player"
  /\ last /\ k \in Updating \cup {"review_item"} =>
       h[n] \in {"update", "edit", "review", "unique"}
  /\ h[n] = "climb" => k \in Climbing
  /\ h[n] = "season" => k = "get_standings" /\ Then("tables")
  /\ h[n] = "tables" => k = "get_standings" /\ last

-----------------------------------------------------------------------------
(* The handlers. *)

\* Every handler is one of those.
LEMMA HandlerTable ==
  ASSUME NEW k \in DOMAIN Handlers
  PROVE  HandlerOf(k, Handlers[k])
<1>1. CASE k = "create_competition"
  BY <1>1 DEF HandlerOf, Handlers, create_competition
<1>2. CASE k = "create_team"
  BY <1>2 DEF HandlerOf, Handlers, create_team
<1>3. CASE k = "submit_report"
  BY <1>3 DEF HandlerOf, Handlers, submit_report
<1>4. CASE k = "add_favorite"
  BY <1>4 DEF HandlerOf, Handlers, add_favorite
<1>5. CASE k = "create_match"
  BY <1>5 DEF HandlerOf, Handlers, create_match
<1>6. CASE k = "create_player"
  BY <1>6 DEF HandlerOf, Handlers, create_player
<1>7. CASE k = "create_season"
  BY <1>7 DEF HandlerOf, Handlers, create_season
<1>8. CASE k = "create_stage"
  BY <1>8 DEF HandlerOf, Handlers, create_stage
<1>9. CASE k = "create_group"
  BY <1>9 DEF HandlerOf, Handlers, create_group
<1>10. CASE k = "create_article"
  BY <1>10 DEF HandlerOf, Handlers, create_article
<1>11. CASE k = "record_event"
  BY <1>11 DEF HandlerOf, Handlers, record_event
<1>12. CASE k = "update_competition"
  BY <1>12 DEF HandlerOf, Handlers, update_competition
<1>13. CASE k = "update_group"
  BY <1>13 DEF HandlerOf, Handlers, update_group
<1>14. CASE k = "update_team"
  BY <1>14 DEF HandlerOf, Handlers, update_team
<1>15. CASE k = "update_article"
  BY <1>15 DEF HandlerOf, Handlers, update_article
<1>16. CASE k = "update_player"
  BY <1>16 DEF HandlerOf, Handlers, update_player
<1>17. CASE k = "review_item"
  BY <1>17 DEF HandlerOf, Handlers, review_item
<1>18. CASE k = "delete_competition"
  BY <1>18 DEF HandlerOf, Handlers, delete_competition
<1>19. CASE k = "delete_article"
  BY <1>19 DEF HandlerOf, Handlers, delete_article
<1>20. CASE k = "delete_match"
  BY <1>20 DEF HandlerOf, Handlers, delete_match
<1>21. CASE k = "delete_player"
  BY <1>21 DEF HandlerOf, Handlers, delete_player
<1>22. CASE k = "delete_team"
  BY <1>22 DEF HandlerOf, Handlers, delete_team
<1>23. CASE k = "delete_season"
  BY <1>23 DEF HandlerOf, Handlers, delete_season
<1>24. CASE k = "delete_stage"
  BY <1>24 DEF HandlerOf, Handlers, delete_stage
<1>25. CASE k = "delete_group"
  BY <1>25 DEF HandlerOf, Handlers, delete_group
<1>26. CASE k = "submit_lineup"
  BY <1>26 DEF HandlerOf, Handlers, submit_lineup
<1>27. CASE k = "set_statistics"
  BY <1>27 DEF HandlerOf, Handlers, set_statistics
<1>28. CASE k = "remove_favorite"
  BY <1>28 DEF HandlerOf, Handlers, remove_favorite
<1>29. CASE k = "get_standings"
  BY <1>29 DEF HandlerOf, Handlers, get_standings
<1> QED
  BY <1>1, <1>2, <1>3, <1>4, <1>5, <1>6, <1>7, <1>8, <1>9, <1>10, <1>11, <1>12, <1>13,
     <1>14, <1>15, <1>16, <1>17, <1>18, <1>19, <1>20, <1>21, <1>22, <1>23, <1>24, <1>25,
     <1>26, <1>27, <1>28, <1>29 DEF Handlers

\* Where the statements of a handler stand.
LEMMA HandlerPlaces ==
  ASSUME NEW k, NEW h, HandlerOf(k, h)
  PROVE  h \in Seq(Statements) /\ \A n \in 1 .. Len(h) : PlaceOK(k, h, n)
<1> DEFINE P == h \in Seq(Statements) /\ \A n \in 1 .. Len(h) : PlaceOK(k, h, n)
<1>1. CASE /\ k \in {"create_competition", "create_team", "submit_report", "add_favorite"}
            /\ h = <<"insert">>
  BY <1>1 DEF PlaceOK, Statements, Inserting, Filling, Deleting, Updating, Climbing
<1>2. CASE k = "create_match" /\ h = <<"find_duplicate", "insert">>
  BY <1>2 DEF PlaceOK, Statements, Inserting, Filling, Deleting, Updating, Climbing
<1>3. CASE k = "create_player" /\ h = <<"team", "jersey", "insert">>
  BY <1>3 DEF PlaceOK, Statements, Inserting, Filling, Deleting, Updating, Climbing
<1>4. CASE k = "create_season" /\ h = <<"competition", "insert">>
  BY <1>4 DEF PlaceOK, Statements, Inserting, Filling, Deleting, Updating, Climbing
<1>5. CASE k \in {"create_stage", "create_group"} /\ h = <<"climb", "insert">>
  BY <1>5 DEF PlaceOK, Statements, Inserting, Filling, Deleting, Updating, Climbing
<1>6. CASE k = "create_article" /\ h = <<"slug", "insert">>
  BY <1>6 DEF PlaceOK, Statements, Inserting, Filling, Deleting, Updating, Climbing
<1>7. CASE k = "record_event" /\ h = <<"get", "member", "insert">>
  BY <1>7 DEF PlaceOK, Statements, Inserting, Filling, Deleting, Updating, Climbing
<1>8. CASE k \in {"update_competition", "update_group", "update_team"} /\ h = <<"get", "update">>
  BY <1>8 DEF PlaceOK, Statements, Inserting, Filling, Deleting, Updating, Climbing
<1>9. CASE k = "update_article" /\ h = <<"get", "edit">>
  BY <1>9 DEF PlaceOK, Statements, Inserting, Filling, Deleting, Updating, Climbing
<1>10. CASE k = "update_player" /\ h = <<"get", "jersey", "update_player", "unique">>
  BY <1>10 DEF PlaceOK, Statements, Inserting, Filling, Deleting, Updating, Climbing
<1>11. CASE k = "review_item" /\ h = <<"get", "review">>
  BY <1>11 DEF PlaceOK, Statements, Inserting, Filling, Deleting, Updating, Climbing
<1>12. CASE k \in {"delete_competition", "delete_article"} /\ h = <<"delete", "referenced">>
  BY <1>12 DEF PlaceOK, Statements, Inserting, Filling, Deleting, Updating, Climbing
<1>13. CASE /\ k \in {"delete_match", "delete_player", "delete_team"}
            /\ h = <<"get", "delete", "referenced">>
  BY <1>13 DEF PlaceOK, Statements, Inserting, Filling, Deleting, Updating, Climbing
<1>14. CASE /\ k \in {"delete_season", "delete_stage", "delete_group"}
            /\ h = <<"climb", "delete", "referenced">>
  BY <1>14 DEF PlaceOK, Statements, Inserting, Filling, Deleting, Updating, Climbing
<1>15. CASE k \in {"submit_lineup", "set_statistics"} /\ h = <<"get", "aim", "clear", "fill">>
  BY <1>15 DEF PlaceOK, Statements, Inserting, Filling, Deleting, Updating, Climbing
<1>16. CASE k = "remove_favorite" /\ h = <<"own", "discard">>
  BY <1>16 DEF PlaceOK, Statements, Inserting, Filling, Deleting, Updating, Climbing
<1>17. CASE k = "get_standings" /\ h = <<"season", "tables">>
  BY <1>17 DEF PlaceOK, Statements, Inserting, Filling, Deleting, Updating, Climbing
<1> HIDE DEF P
<1> QED
  BY <1>1, <1>2, <1>3, <1>4, <1>5, <1>6, <1>7, <1>8, <1>9, <1>10, <1>11, <1>12, <1>13,
     <1>14, <1>15, <1>16, <1>17 DEF HandlerOf

\* What is left to run of a handler, when it has run n of its statements.
After(k, t, n) ==
  LET h == Handlers[k] IN
  /\ t \in Seq(Statements) /\ Len(h) = n + Len(t)
  /\ \A j \in 1 .. Len(t) : t[j] = h[n + j]
Left(k, t) == k \in DOMAIN Handlers /\ \E n \in Nat : After(k, t, n)

\* A request starts with its whole handler.
LEMMA HandlerLeft ==
  ASSUME NEW k \in DOMAIN Handlers
  PROVE  /\ Left(k, Handlers[k]) /\ Handlers[k] # <<>>
         /\ Head(Handlers[k]) \notin {"clear", "discard"}
<1>1. Handlers[k] \in Seq(Statements)
  BY HandlerTable, HandlerPlaces
<1>2. Handlers[k] # <<>> /\ Head(Handlers[k]) \notin {"clear", "discard"}
  BY HandlerTable DEF HandlerOf
<1>3. After(k, Handlers[k], 0)
  BY <1>1 DEF After
<1> QED
  BY <1>2, <1>3 DEF Left

\* Statement s comes after the first of t.
Follows(t, s) == Tail(t) # <<>> /\ Head(Tail(t)) = s

\* What Head(t) says about the request that has t left to run.
Placed(k, t) ==
  /\ Left(k, Tail(t))
  /\ Head(t) = "insert" => k \in Inserting /\ Tail(t) = <<>>
  /\ Head(t) = "update_player" => k = "update_player" /\ Follows(t, "unique")
  /\ Head(t) = "unique" => k = "update_player" /\ Tail(t) = <<>>
  /\ Head(t) \in {"update", "edit"} => k \in Updating \ {"update_player"} /\ Tail(t) = <<>>
  /\ Head(t) \in {"update", "edit"} => (Head(t) = "edit" <=> k = "update_article")
  /\ Head(t) = "review" => k = "review_item" /\ Tail(t) = <<>>
  /\ Head(t) = "delete" => k \in Deleting /\ Follows(t, "referenced")
  /\ Head(t) = "referenced" => k \in Deleting /\ Tail(t) = <<>>
  /\ Head(t) = "aim" => k \in Filling
  /\ Head(t) = "clear" => k \in Filling /\ Follows(t, "fill")
  /\ Head(t) = "fill" => k \in Filling /\ Tail(t) = <<>>
  /\ Head(t) = "own" => k = "remove_favorite" /\ Follows(t, "discard")
  /\ Head(t) = "discard" => k = "remove_favorite" /\ Tail(t) = <<>>
  /\ Head(t) = "get" /\ k \in Inserting => k = "record_event" /\ Follows(t, "member")
  /\ k = "record_event" => Head(t) \in {"get", "member", "insert"}
  /\ Head(t) = "member" => k = "record_event" /\ Follows(t, "insert")
  /\ Head(t) = "slug" => k = "create_article" /\ Follows(t, "insert")
  /\ Follows(t, "clear") => Head(t) = "aim"
  /\ Follows(t, "discard") => Head(t) = "own"
  /\ Tail(t) = <<>> /\ k \in Deleting => Head(t) = "referenced"
  /\ Tail(t) = <<>> /\ k \in Filling => Head(t) = "fill"
  /\ Tail(t) = <<>> /\ k \in Inserting => Head(t) = "insert"
  /\ Tail(t) = <<>> /\ k = "get_standings" => Head(t) = "tables"
  /\ Follows(t, "fill") => Head(t) = "clear"
  /\ ~Follows(t, "climb") /\ ~Follows(t, "get")
  /\ Follows(t, "referenced") => Head(t) = "delete"
  /\ Follows(t, "unique") => Head(t) = "update_player"
  /\ Tail(t) = <<>> /\ k \in Updating \cup {"review_item"} =>
       Head(t) \in {"update", "edit", "review", "unique"}
  /\ Head(t) = "climb" => k \in Climbing
  /\ Head(t) = "season" => k = "get_standings" /\ Follows(t, "tables")
  /\ Head(t) = "tables" => k = "get_standings" /\ Tail(t) = <<>>

\* So it is for the first of the statements that are left.
LEMMA StatementPlace ==
  ASSUME NEW k, NEW t, Left(k, t), t # <<>>
  PROVE  Placed(k, t)
<1> DEFINE h == Handlers[k]
<1>0. k \in DOMAIN Handlers /\ h \in Seq(Statements)
  BY HandlerTable, HandlerPlaces DEF Left
<1>1. PICK n \in Nat : After(k, t, n)
  BY DEF Left
<1>2. PICK left \in Nat \ {0} : left = Len(t)
  BY <1>1 DEF After
<1>3. PICK all \in Nat : all = Len(h)
  BY <1>0
<1> HIDE DEF h
<1>4. /\ all = n + left /\ t \in Seq(Statements)
      /\ \A j \in 1 .. left : t[j] = h[n + j]
  BY <1>1, <1>2, <1>3 DEF After, h
<1>5. Head(t) = h[n + 1] /\ PlaceOK(k, h, n + 1)
  <2>1. Head(t) = t[1] /\ n + 1 \in 1 .. all
    BY <1>2, <1>4
  <2>2. \A i \in 1 .. all : PlaceOK(k, h, i)
    BY <1>0, <1>3, HandlerTable, HandlerPlaces DEF h
  <2> QED
    BY <1>2, <1>4, <2>1, <2>2
<1>6. /\ Tail(t) \in Seq(Statements) /\ Len(Tail(t)) = left - 1
      /\ \A j \in 1 .. left - 1 : Tail(t)[j] = t[j + 1]
  BY <1>2, <1>4, HeadTailProperties
<1>7. Left(k, Tail(t))
  <2>1. After(k, Tail(t), n + 1)
    BY <1>2, <1>3, <1>4, <1>6 DEF After, h
  <2> QED
    BY <1>0, <2>1 DEF Left
<1>8. n + 1 = all <=> Tail(t) = <<>>
  <2>1. n + 1 = all <=> left - 1 = 0
    BY <1>2, <1>4
  <2> QED
    BY <1>2, <1>6, <2>1, EmptySeq
<1>9. ASSUME NEW s, n + 2 \in 1 .. all, h[n + 2] = s
      PROVE  Follows(t, s)
  <2>1. left - 1 \in Nat \ {0} /\ 1 \in 1 .. left - 1 /\ t[2] = s
    BY <1>2, <1>4, <1>9
  <2> QED
    BY <1>6, <2>1 DEF Follows
<1>10. ASSUME NEW s, Follows(t, s)
       PROVE  n + 2 \in 1 .. all /\ h[n + 2] = s
  <2>1. left - 1 \in Nat \ {0} /\ 1 \in 1 .. left - 1
    BY <1>2, <1>4, <1>8, <1>10 DEF Follows
  <2>2. t[2] = s
    BY <1>6, <1>10, <2>1 DEF Follows
  <2> QED
    BY <1>2, <1>4, <2>1, <2>2
<1> QED
  BY <1>3, <1>5, <1>7, <1>8, <1>9, <1>10 DEF PlaceOK, Placed

-----------------------------------------------------------------------------
(* Types.  A transaction inserts only rows of its own name, changes and deletes   *)
(* only what its kind lets it, and holds nothing when it has ended.               *)

RequestOK(r) ==
  LET q == req[r]  b == req[r].body IN
  /\ DOMAIN q = Fields /\ q.status \in Codes
  /\ IF b = None THEN q.status = 0 ELSE IsRequest(b)
  /\ ~Running(r) => DOMAIN q.new = {} /\ DOMAIN q.set = {} /\ q.gone = {}
  /\ Running(r) => Left(b.kind, q.todo)
  /\ Running(r) /\ b.kind \in Inserting =>
       \/ Whole(q.row)
       \/ b.kind = "record_event" /\ q.todo # <<>> /\ Head(q.todo) # "insert"
  /\ IsFiniteSet(DOMAIN q.new) /\ DOMAIN q.new \subseteq {r} \cup {r} \X Nat
  /\ \A id \in DOMAIN q.new :
       /\ Whole(q.new[id])
       /\ \/ b.kind \in Inserting /\ id = r
          \/ b.kind \in Filling /\ q.new[id].table = b.sheet
  /\ \A x \in DOMAIN q.set :
       /\ x = b.id /\ b.kind \in Updating \cup {"review_item"}
       /\ q.todo = <<>> \/ Head(q.todo) = "unique"
       /\ DOMAIN q.set[x] \cap Fixed = {}
       /\ b.kind \in Updating => DOMAIN q.set[x] \subseteq DOMAIN b.columns \cup {"published_at"}
       /\ "jersey" \in DOMAIN q.set[x] => b.kind = "update_player"
  /\ \A x \in q.gone :
       \/ b.kind \in Deleting /\ x = b.id
       \/ b.kind \in Filling \cup {"remove_favorite"}

\* A row of a request's own is committed only when the request has ended.
RowsOK ==
  /\ DOMAIN req = Req
  /\ \A x \in DOMAIN rows : Whole(rows[x])
  /\ \A r \in Req : req[r].status = 0 => DOMAIN rows \cap ({r} \cup {r} \X Nat) = {}

TypeInv == RowsOK /\ \A r \in Req : RequestOK(r)

-----------------------------------------------------------------------------
\* Nothing but request r changes.
Alone(r) == rows' = rows /\ DOMAIN req' = Req /\ \A q \in Req \ {r} : req'[q] = req[q]

\* The request is answered, and lets go of everything.
Ends(r) ==
  /\ Running(r)
  /\ DOMAIN req'[r] = Fields /\ req'[r].status \in Codes \ {0} /\ req'[r].body = req[r].body
  /\ DOMAIN req'[r].new = {} /\ DOMAIN req'[r].set = {} /\ req'[r].gone = {}

\* The request goes on, to its next statement unless this one is repeated.
Goes(r) ==
  LET q == req[r]  s == req'[r] IN
  /\ Running(r) /\ q.todo # <<>>
  /\ DOMAIN s = Fields /\ s.status = 0 /\ s.body = q.body /\ s.before = q.before
  /\ \/ s.todo = Tail(q.todo)
     \/ s.todo = q.todo /\ Head(q.todo) \in {"climb", "fill"}
\* What the transaction has written stays the same.
Writes(r) == <<req[r].new, req[r].set, req[r].gone>>
Holds(r) == Writes(r)' = Writes(r)
Inserts(r) ==
  /\ Insert(r)
  /\ req'[r].new = [id \in {r} |-> req[r].row]
  /\ req'[r].set = req[r].set /\ req'[r].gone = req[r].gone /\ req'[r].row = req[r].row
  /\ Resolved(req[r].row) /\ Shareable(r, Referred(req[r].row))
  /\ ~Contended(r, Keys(req[r].row)) /\ ~Taken(r, Keys(req[r].row))
Fills(r) ==
  /\ Fill(r)
  /\ req'[r].new = Over(NextRows(r), req[r].new)
  /\ req'[r].set = req[r].set /\ req'[r].gone = req[r].gone
  /\ Shareable(r, NextReferred(r))
  /\ \A id \in DOMAIN NextRows(r) : Resolved(NextRows(r)[id])
\* The columns that an update assigns.
Columns(r) ==
  IF At(r, "review") THEN Decision(r)
  ELSE IF At(r, "edit") THEN Edits(r)
  ELSE Body(r).columns
Changes(r) ==
  LET id == Body(r).id IN
  /\ Review(r) \/ EditArticle(r) \/ UpdatePlayer(r) \/ UpdateEntry(r)
  /\ req'[r].set = [x \in {id} |-> Dirty(r, Columns(r))]
  /\ req'[r].new = req[r].new /\ req'[r].gone = req[r].gone /\ req'[r].row = req[r].row
  /\ id \in DOMAIN rows /\ Updatable(r, id)
Removes(r) ==
  /\ Delete(r) \/ Clear(r) \/ Discard(r)
  /\ req'[r].new = req[r].new /\ req'[r].set = req[r].set
  /\ \A x \in req'[r].gone : x \in DOMAIN rows /\ Updatable(r, x)
  /\ \/ Delete(r) /\ req'[r].gone = {Body(r).id} /\ Removable(r, Body(r).id)
     \/ Clear(r) /\ req'[r].gone = req[r].found \cap DOMAIN rows
     \/ Discard(r) /\ req'[r].gone = {Body(r).id} \cap DOMAIN rows

\* An answer ends the transaction.
LEMMA AnswerEnds ==
  ASSUME NEW r \in Req, NEW code \in Codes \ {0}, DOMAIN req = Req, Running(r), Answer(r, code),
         rows' = rows
  PROVE  Alone(r) /\ Ends(r) /\ req'[r].status = code
BY DEF Answer, Blank, Alone, Ends, Fields, Body

\* Going on changes nothing else.
LEMMA ProceedGoes ==
  ASSUME NEW r \in Req, DOMAIN req = Req, DOMAIN req[r] = Fields, Running(r),
         req[r].todo # <<>>, Proceed(r), rows' = rows
  PROVE  /\ Alone(r) /\ Goes(r) /\ Holds(r)
         /\ req'[r].todo = Tail(req[r].todo)
         /\ req'[r].row = req[r].row /\ req'[r].found = req[r].found
<1>1. /\ Alone(r) /\ DOMAIN req'[r] = Fields /\ req'[r].todo = Tail(req[r].todo)
      /\ \A x \in Fields \ {"todo"} : req'[r][x] = req[r][x]
  BY DEF Proceed, Alone
<1> QED
  BY <1>1 DEF Goes, Holds, Writes, Running, Fields

\* It keeps what it is about to insert, too.
Keeps(r) ==
  /\ Holds(r)
  /\ \/ req'[r].row = req[r].row /\ Head(req[r].todo) # "member"
     \/ Whole(req'[r].row)
     \/ Head(req[r].todo) = "get"
     \/ Kind(r) \notin Inserting
  /\ Head(req[r].todo) = "unique" =>
       ~Contended(r, NewKeys(r)) /\ ~Taken(r, NewKeys(r))
  /\ Head(req[r].todo) = "referenced" => Referring(Body(r).id) = {}
  /\ Head(req[r].todo) = "aim" => req'[r].found = Sheet(Body(r))
  /\ Head(req[r].todo) = "own" => Body(r).id \in Table("favorites")

\* What a statement does.
Outcome(r) ==
  /\ Alone(r)
  /\ \/ Ends(r)
     \/ Goes(r) /\ (Keeps(r) \/ Inserts(r) \/ Fills(r) \/ Changes(r) \/ Removes(r))

\* A request that goes on with what it has written keeps its type, if it keeps what
\* it is about to insert.
LEMMA HoldsOK ==
  ASSUME NEW r \in Req, RequestOK(r), Goes(r), Keeps(r)
  PROVE  RequestOK(r)'
<1> DEFINE q == req[r]
           s == req'[r]
<1>1. /\ Running(r) /\ Running(r)' /\ q.body # None
      /\ DOMAIN s = Fields /\ s.status = 0 /\ s.body = q.body
      /\ s.new = q.new /\ s.set = q.set /\ s.gone = q.gone
  BY DEF Goes, Keeps, Holds, Writes, Running, Idle, Body
<1>2. Left(q.body.kind, q.todo) /\ q.todo # <<>> /\ Placed(q.body.kind, q.todo)
  BY <1>1, StatementPlace DEF RequestOK, Goes
<1>3. DOMAIN s.set # {} => s.todo = <<>>
  <2>1. SUFFICES ASSUME DOMAIN q.set # {} PROVE s.todo = <<>>
    BY <1>1
  <2>2. Head(q.todo) = "unique"
    BY <1>2, <2>1 DEF RequestOK
  <2>3. Tail(q.todo) = <<>>
    BY <1>2, <2>2 DEF Placed
  <2> QED
    BY <2>2, <2>3 DEF Goes
<1>4. q.body.kind \in Inserting =>
        \/ Whole(s.row)
        \/ q.body.kind = "record_event" /\ s.todo # <<>> /\ Head(s.todo) # "insert"
  <2>1. SUFFICES ASSUME q.body.kind \in Inserting, ~Whole(s.row)
        PROVE  q.body.kind = "record_event" /\ s.todo # <<>> /\ Head(s.todo) # "insert"
    OBVIOUS
  <2>2. CASE Head(q.todo) = "get"
    <3>1. q.body.kind = "record_event" /\ Follows(q.todo, "member")
      BY <1>2, <2>1, <2>2 DEF Placed
    <3>2. s.todo = Tail(q.todo)
      BY <2>2 DEF Goes
    <3> QED
      BY <3>1, <3>2 DEF Follows
  <2>3. CASE s.row = q.row /\ Head(q.todo) # "member"
    <3>1. q.body.kind = "record_event" /\ Head(q.todo) # "insert"
      BY <1>1, <1>2, <2>1, <2>3 DEF RequestOK
    <3>2. Head(q.todo) \in {"get", "member", "insert"}
      BY <1>2, <3>1 DEF Placed
    <3> QED
      BY <2>2, <2>3, <3>1, <3>2
  <2> QED
    BY <2>1, <2>2, <2>3 DEF Keeps, Kind, Body
<1>5. s.status \in Codes
  BY <1>1 DEF Codes
<1>6. Left(q.body.kind, s.todo)
  BY <1>2 DEF Goes, Placed
<1> QED
  BY <1>1, <1>2, <1>3, <1>4, <1>5, <1>6 DEF RequestOK

-----------------------------------------------------------------------------
(* The statements, one by one. *)

\* What every statement finds.
Started(r, s) ==
  /\ r \in Req /\ DOMAIN req = Req /\ DOMAIN req[r] = Fields /\ Running(r)
  /\ req[r].todo # <<>> /\ Head(req[r].todo) = s
  /\ Left(Kind(r), req[r].todo) /\ Placed(Kind(r), req[r].todo)
\* A statement of a request that runs finds this.
LEMMA AtStarted ==
  ASSUME NEW r \in Req, RowsOK, RequestOK(r), NEW s, At(r, s)
  PROVE  Started(r, s)
BY StatementPlace DEF At, Started, RowsOK, RequestOK, Kind

\* Going on with another row, or with another result of a query.
LEMMA RowGoes ==
  ASSUME NEW r, NEW s, Started(r, s), rows' = rows, NEW x,
         req' = [req EXCEPT ![r].todo = Tail(@), ![r].row = x]
  PROVE  /\ Alone(r) /\ Goes(r) /\ Holds(r) /\ req'[r].todo = Tail(req[r].todo)
         /\ req'[r].row = x /\ req'[r].found = req[r].found
<1>1. /\ Alone(r) /\ DOMAIN req'[r] = Fields /\ req'[r].todo = Tail(req[r].todo)
      /\ req'[r].row = x
      /\ \A c \in Fields \ {"todo", "row"} : req'[r][c] = req[r][c]
  BY DEF Started, Alone, Fields
<1> QED
  BY <1>1 DEF Goes, Holds, Writes, Running, Fields, Started

\* The same with another result; the climb may stay where it is.
LEMMA FoundGoes ==
  ASSUME NEW r, NEW s, Started(r, s), rows' = rows, NEW x,
         \/ req' = [req EXCEPT ![r].todo = Tail(@), ![r].found = x]
         \/ s = "climb" /\ req' = [req EXCEPT ![r].found = x]
  PROVE  /\ Alone(r) /\ Goes(r) /\ Holds(r)
         /\ req'[r].row = req[r].row /\ req'[r].found = x
<1>1. /\ Alone(r) /\ DOMAIN req'[r] = Fields
      /\ \/ req'[r].todo = Tail(req[r].todo)
         \/ s = "climb" /\ req'[r].todo = req[r].todo
      /\ req'[r].found = x
      /\ \A c \in Fields \ {"todo", "found"} : req'[r][c] = req[r][c]
  <2>1. CASE req' = [req EXCEPT ![r].todo = Tail(@), ![r].found = x]
    BY <2>1 DEF Started, Alone, Fields
  <2>2. CASE s = "climb" /\ req' = [req EXCEPT ![r].found = x]
    BY <2>2 DEF Started, Alone, Fields
  <2> QED
    BY <2>1, <2>2
<1> QED
  BY <1>1 DEF Goes, Holds, Writes, Running, Fields, Started

\* Get, FindMember and ChooseSlug load a row or make it up.
LEMMA RowOutcome ==
  ASSUME NEW r \in Req, RowsOK, RequestOK(r), Get(r) \/ FindMember(r) \/ ChooseSlug(r)
  PROVE  Outcome(r)
<1>1. CASE Get(r)
  <2>1. Started(r, "get") /\ rows' = rows
    BY <1>1, AtStarted DEF Get
  <2>2. CASE Answer(r, 404)
    BY <2>1, <2>2, AnswerEnds DEF Outcome, Started, Codes
  <2>3. CASE req' = [req EXCEPT ![r].todo = Tail(@), ![r].row = rows[Body(r).id]]
    BY <2>1, <2>3, RowGoes DEF Outcome, Keeps, Started
  <2> QED
    BY <1>1, <2>2, <2>3 DEF Get
<1>2. CASE FindMember(r)
  <2>1. Started(r, "member") /\ rows' = rows
    BY <1>2, AtStarted DEF FindMember
  <2>2. CASE Answer(r, 409)
    BY <2>1, <2>2, AnswerEnds DEF Outcome, Started, Codes
  <2>3. CASE req' = [req EXCEPT ![r].todo = Tail(@), ![r].row = Body(r).row]
    <3>1. Kind(r) = "record_event"
      BY <2>1 DEF Started, Placed
    <3>2. IsRequest(Body(r))
      BY <2>1 DEF RequestOK, Started, Running, Idle, Body
    <3>3. Handlers["record_event"][3] = "insert" /\ 3 \in DOMAIN Handlers["record_event"]
      BY DEF Handlers, record_event
    <3>4. Runs("record_event", "insert")
      BY <3>3 DEF Runs
    <3>5. Whole(Body(r).row)
      BY <3>1, <3>2, <3>4 DEF IsRequest, Kind, Body
    <3> QED
      BY <2>1, <2>3, <3>5, RowGoes DEF Outcome, Keeps, Started
  <2> QED
    BY <1>2, <2>2, <2>3 DEF FindMember
<1>3. CASE ChooseSlug(r)
  <2> DEFINE x == req[r].row
             y == [x EXCEPT !.slug = IF Titled(x.slug) = {} THEN x.slug ELSE Append(x.slug, r)]
  <2>1. Started(r, "slug") /\ rows' = rows
    BY <1>3, AtStarted DEF ChooseSlug
  <2>2. req' = [req EXCEPT ![r].todo = Tail(@), ![r].row = y]
    BY <1>3, <2>1 DEF ChooseSlug, Started, Fields
  <2>3. Kind(r) = "create_article" /\ Whole(x)
    BY <2>1 DEF Started, Placed, RequestOK, Inserting, Kind, Body
  <2>4. DOMAIN y = DOMAIN x /\ "slug" \notin {"table"} /\ y.table = x.table
    BY <2>3 DEF Whole
  <2>5. Whole(y)
    BY <2>3, <2>4 DEF Whole, References
  <2> HIDE DEF y
  <2> QED
    BY <2>1, <2>2, <2>5, RowGoes DEF Outcome, Keeps, Started
<1> QED
  BY <1>1, <1>2, <1>3

\* Statements that only let the request go on, or answer it.
Passing ==
  {"find_duplicate", "team", "jersey", "competition", "fill"}
\* They let the request go on, or answer it.
LEMMA PassOutcome ==
  ASSUME NEW r \in Req, RowsOK, RequestOK(r), NEW s \in Passing, At(r, s), rows' = rows,
         \/ Proceed(r)
         \/ \E code \in Codes \ {0} : Answer(r, code)
  PROVE  Outcome(r)
<1>1. Started(r, s)
  BY AtStarted
<1>2. CASE Proceed(r)
  BY <1>1, <1>2, ProceedGoes DEF Outcome, Keeps, Started, Passing
<1>3. CASE \E code \in Codes \ {0} : Answer(r, code)
  BY <1>1, <1>3, AnswerEnds DEF Outcome, Started
<1> QED
  BY <1>2, <1>3

\* The tests before the writes, and the ends of the writes.
LEMMA CheckOutcome ==
  ASSUME NEW r \in Req, RowsOK, RequestOK(r),
         \/ FindDuplicate(r) \/ FindTeam(r) \/ CheckJersey(r) \/ FindCompetition(r) \/ FindOwn(r)
         \/ Filled(r) \/ EnterKey(r) \/ LetGo(r)
  PROVE  Outcome(r)
<1>0. {400, 404, 409, 500} \subseteq Codes \ {0}
  BY DEF Codes
<1>1. CASE FindDuplicate(r)
  <2>1. Proceed(r) \/ Answer(r, 409) \/ Answer(r, 500)
    BY <1>1 DEF FindDuplicate, InternalError
  <2> QED
    BY <1>0, <1>1, <2>1, PassOutcome DEF FindDuplicate, Passing
<1>2. CASE FindTeam(r)
  BY <1>0, <1>2, PassOutcome DEF FindTeam, Passing
<1>3. CASE CheckJersey(r)
  <2>1. Proceed(r) \/ Answer(r, 409)
    BY <1>3 DEF CheckJersey
  <2> QED
    BY <1>0, <1>3, <2>1, PassOutcome DEF CheckJersey, Passing
<1>4. CASE FindCompetition(r)
  <2>1. Proceed(r) \/ Answer(r, 404) \/ Answer(r, 400)
    BY <1>4 DEF FindCompetition
  <2> QED
    BY <1>0, <1>4, <2>1, PassOutcome DEF FindCompetition, Passing
<1>5. CASE FindOwn(r)
  <2>1. Started(r, "own") /\ rows' = rows
    BY <1>5, AtStarted DEF FindOwn
  <2>2. CASE Answer(r, 404)
    BY <1>0, <2>1, <2>2, AnswerEnds DEF Outcome, Started
  <2>3. CASE Proceed(r) /\ Body(r).id \in Table("favorites")
    BY <2>1, <2>3, ProceedGoes DEF Outcome, Keeps, Started
  <2> QED
    BY <1>5, <2>2, <2>3 DEF FindOwn
<1>6. CASE Filled(r)
  BY <1>6, PassOutcome DEF Filled, Passing
<1>7. CASE EnterKey(r)
  <2>1. Started(r, "unique") /\ rows' = rows
    BY <1>7, AtStarted DEF EnterKey
  <2>2. CASE Answer(r, 409)
    BY <1>0, <2>1, <2>2, AnswerEnds DEF Outcome, Started
  <2>3. CASE Proceed(r) /\ ~Taken(r, NewKeys(r))
    BY <1>7, <2>1, <2>3, ProceedGoes DEF EnterKey, Outcome, Keeps, Started
  <2> QED
    BY <1>7, <2>2, <2>3 DEF EnterKey, IntegrityViolation
<1>8. CASE LetGo(r)
  <2>1. Started(r, "referenced") /\ rows' = rows
    BY <1>8, AtStarted DEF LetGo
  <2>2. CASE Answer(r, 409)
    BY <1>0, <2>1, <2>2, AnswerEnds DEF Outcome, Started
  <2>3. CASE Proceed(r) /\ Referring(Body(r).id) = {}
    BY <2>1, <2>3, ProceedGoes DEF Outcome, Keeps, Started
  <2> QED
    BY <1>8, <2>2, <2>3 DEF LetGo, IntegrityViolation
<1> QED
  BY <1>1, <1>2, <1>3, <1>4, <1>5, <1>6, <1>7, <1>8

\* Queries whose result is kept.
LEMMA QueryOutcome ==
  ASSUME NEW r \in Req, RowsOK, RequestOK(r),
         Aim(r) \/ Climb(r) \/ FindSeason(r) \/ FindTables(r)
  PROVE  Outcome(r)
<1>0. {200, 404, 500} \subseteq Codes \ {0}
  BY DEF Codes
<1>1. ASSUME NEW s \in {"climb", "season"}, Started(r, s), rows' = rows,
             \/ \E x : req' = [req EXCEPT ![r].todo = Tail(@), ![r].found = x]
             \/ s = "climb" /\ \E x : req' = [req EXCEPT ![r].found = x]
      PROVE  Outcome(r)
  <2>1. Alone(r) /\ Goes(r) /\ Holds(r) /\ req'[r].row = req[r].row
    BY <1>1, FoundGoes
  <2> QED
    BY <1>1, <2>1 DEF Outcome, Keeps, Started
<1>2. ASSUME NEW s, Started(r, s), rows' = rows, NEW code \in Codes \ {0}, Answer(r, code)
      PROVE  Outcome(r)
  BY <1>2, AnswerEnds DEF Outcome, Started
<1>3. CASE Aim(r)
  <2>1. Started(r, "aim") /\ rows' = rows
    BY <1>3, AtStarted DEF Aim
  <2>2. /\ Alone(r) /\ Goes(r) /\ Holds(r) /\ req'[r].row = req[r].row
        /\ req'[r].found = Sheet(Body(r))
    BY <1>3, <2>1, FoundGoes DEF Aim
  <2> QED
    BY <2>1, <2>2 DEF Outcome, Keeps, Started
<1>4. CASE Climb(r)
  <2>1. Started(r, "climb") /\ rows' = rows
    BY <1>4, AtStarted DEF Climb
  <2>2. PICK place \in req[r].found :
          \/ Answer(r, 404)
          \/ req' = [req EXCEPT ![r].todo = Tail(@), ![r].found = {}]
          \/ req' = [req EXCEPT ![r].found = {Above(rows[place.id])}]
    BY <1>4 DEF Climb
  <2>3. CASE Answer(r, 404)
    BY <1>0, <1>2, <2>1, <2>3
  <2>4. CASE req' = [req EXCEPT ![r].todo = Tail(@), ![r].found = {}]
    BY <1>1, <2>1, <2>4
  <2>5. CASE req' = [req EXCEPT ![r].found = {Above(rows[place.id])}]
    BY <1>1, <2>1, <2>5
  <2> QED
    BY <2>2, <2>3, <2>4, <2>5
<1>5. CASE FindSeason(r)
  <2>1. Started(r, "season") /\ rows' = rows
    BY <1>5, AtStarted DEF FindSeason
  <2>2. CASE Answer(r, 500)
    BY <1>0, <1>2, <2>1, <2>2
  <2>3. CASE \E x : req' = [req EXCEPT ![r].todo = Tail(@), ![r].found = x]
    BY <1>1, <2>1, <2>3
  <2> QED
    BY <1>5, <2>2, <2>3 DEF FindSeason, InternalError
<1>6. CASE FindTables(r)
  <2>1. Started(r, "tables") /\ rows' = rows
    BY <1>6, AtStarted DEF FindTables
  <2>2. Answer(r, 200) \/ Answer(r, 404) \/ Answer(r, 500)
    BY <1>6 DEF FindTables, InternalError
  <2> QED
    BY <1>0, <1>2, <2>1, <2>2
<1> QED
  BY <1>3, <1>4, <1>5, <1>6

\* Insertions.
LEMMA InsertOutcome ==
  ASSUME NEW r \in Req, RowsOK, RequestOK(r), Insert(r) \/ Fill(r)
  PROVE  Outcome(r)
<1>0. IntegrityViolation \in Codes \ {0}
  BY DEF Codes, IntegrityViolation
<1>1. CASE Insert(r)
  <2>1. Started(r, "insert") /\ rows' = rows
    BY <1>1, AtStarted DEF Insert
  <2>2. CASE Answer(r, IntegrityViolation)
    BY <1>0, <2>1, <2>2, AnswerEnds DEF Outcome, Started
  <2>3. CASE req' = [req EXCEPT ![r].todo = Tail(@), ![r].new = [id \in {r} |-> req[r].row]]
             /\ ~Answer(r, IntegrityViolation)
    <3>1. /\ Alone(r) /\ DOMAIN req'[r] = Fields /\ req'[r].todo = Tail(req[r].todo)
          /\ req'[r].new = [id \in {r} |-> req[r].row]
          /\ \A c \in Fields \ {"todo", "new"} : req'[r][c] = req[r][c]
      BY <2>1, <2>3 DEF Started, Alone, Fields
    <3>2. Goes(r)
      BY <2>1, <3>1 DEF Goes, Running, Fields, Started
    <3>3. Inserts(r)
      BY <1>1, <2>3, <3>1 DEF Inserts, Insert, Fields
    <3> QED
      BY <3>1, <3>2, <3>3 DEF Outcome
  <2> QED
    BY <1>1, <2>2, <2>3 DEF Insert
<1>2. CASE Fill(r)
  <2>1. Started(r, "fill") /\ rows' = rows
    BY <1>2, AtStarted DEF Fill
  <2>2. CASE Answer(r, IntegrityViolation)
    BY <1>0, <2>1, <2>2, AnswerEnds DEF Outcome, Started
  <2>3. CASE req' = [req EXCEPT ![r].new = Over(NextRows(r), @)] /\ ~Answer(r, IntegrityViolation)
    <3>1. /\ Alone(r) /\ DOMAIN req'[r] = Fields
          /\ req'[r].new = Over(NextRows(r), req[r].new)
          /\ \A c \in Fields \ {"new"} : req'[r][c] = req[r][c]
      BY <2>1, <2>3 DEF Started, Alone, Fields
    <3>2. Goes(r)
      BY <2>1, <3>1 DEF Goes, Running, Fields, Started
    <3>3. Fills(r)
      BY <1>2, <2>3, <3>1 DEF Fills, Fill, Fields
    <3> QED
      BY <3>1, <3>2, <3>3 DEF Outcome
  <2> QED
    BY <1>2, <2>2, <2>3 DEF Fill
<1> QED
  BY <1>1, <1>2

\* Changes of a row.
LEMMA ChangeOutcome ==
  ASSUME NEW r \in Req, RowsOK, RequestOK(r),
         Review(r) \/ EditArticle(r) \/ UpdatePlayer(r) \/ UpdateEntry(r)
  PROVE  Outcome(r)
<1>1. PICK s \in {"review", "edit", "update_player", "update"} :
        At(r, s) /\ Change(r, Columns(r))
  <2>1. CASE Review(r)
    BY <2>1 DEF Review, Columns
  <2>2. CASE EditArticle(r)
    BY <2>2 DEF EditArticle, Columns, At
  <2>3. CASE UpdatePlayer(r)
    BY <2>3 DEF UpdatePlayer, Columns, At
  <2>4. CASE UpdateEntry(r)
    BY <2>4 DEF UpdateEntry, Columns, At
  <2> QED
    BY <2>1, <2>2, <2>3, <2>4
<1>2. Started(r, s) /\ rows' = rows
  BY <1>1, AtStarted DEF Change
<1>3. CASE Answer(r, InternalError)
  BY <1>2, <1>3, AnswerEnds DEF Outcome, Started, InternalError, Codes
<1>4. CASE Proceed(r)
  <2>1. s # "member"
    BY <1>1
  <2> QED
    BY <1>2, <1>4, <2>1, ProceedGoes DEF Outcome, Keeps, Started
<1>5. CASE /\ Body(r).id \in DOMAIN rows
           /\ IF DOMAIN Dirty(r, Columns(r)) \cap KeyColumns = {} THEN Updatable(r, Body(r).id)
              ELSE Removable(r, Body(r).id)
           /\ req' = [req EXCEPT ![r].todo = Tail(@),
                                 ![r].set = [x \in {Body(r).id} |-> Dirty(r, Columns(r))]]
  <2> DEFINE set == [x \in {Body(r).id} |-> Dirty(r, Columns(r))]
  <2>1. Updatable(r, Body(r).id)
    BY <1>5 DEF Removable
  <2>2. /\ Alone(r) /\ DOMAIN req'[r] = Fields /\ req'[r].todo = Tail(req[r].todo)
        /\ req'[r].set = set
        /\ \A c \in Fields \ {"todo", "set"} : req'[r][c] = req[r][c]
    <3> HIDE DEF set
    <3>1. req' = [req EXCEPT ![r].todo = Tail(@), ![r].set = set]
      BY <1>5 DEF set
    <3> QED
      BY <1>2, <3>1 DEF Started, Alone, Fields
  <2>3. Goes(r)
    BY <1>2, <2>2 DEF Goes, Running, Fields, Started
  <2>4. Changes(r)
    BY <1>5, <2>1, <2>2 DEF Changes, Fields
  <2> QED
    BY <2>2, <2>3, <2>4 DEF Outcome
<1> QED
  BY <1>1, <1>3, <1>4, <1>5 DEF Change

\* Deletions.
LEMMA RemoveOutcome ==
  ASSUME NEW r \in Req, RowsOK, RequestOK(r), Delete(r) \/ Clear(r) \/ Discard(r)
  PROVE  Outcome(r)
<1>1. ASSUME NEW s, Started(r, s), rows' = rows, NEW ids, NEW f,
             \/ req' = [req EXCEPT ![r].todo = Tail(@), ![r].gone = ids]
             \/ req' = [req EXCEPT ![r].todo = Tail(@), ![r].found = f, ![r].gone = ids]
      PROVE  /\ Alone(r) /\ Goes(r) /\ req'[r].gone = ids
             /\ req'[r].new = req[r].new /\ req'[r].set = req[r].set
  <2>1. /\ Alone(r) /\ DOMAIN req'[r] = Fields /\ req'[r].todo = Tail(req[r].todo)
        /\ req'[r].gone = ids
        /\ \A c \in Fields \ {"todo", "found", "gone"} : req'[r][c] = req[r][c]
    <3>1. CASE req' = [req EXCEPT ![r].todo = Tail(@), ![r].gone = ids]
      BY <1>1, <3>1 DEF Started, Alone, Fields
    <3>2. CASE req' = [req EXCEPT ![r].todo = Tail(@), ![r].found = f, ![r].gone = ids]
      BY <1>1, <3>2 DEF Started, Alone, Fields
    <3> QED
      BY <1>1, <3>1, <3>2
  <2> QED
    BY <1>1, <2>1 DEF Goes, Running, Fields, Started
<1>2. CASE Delete(r)
  <2>1. Started(r, "delete") /\ rows' = rows /\ Removable(r, Body(r).id)
    BY <1>2, AtStarted DEF Delete
  <2>2. CASE Answer(r, 404)
    BY <2>1, <2>2, AnswerEnds DEF Outcome, Started, Codes
  <2>3. CASE Body(r).id \in Table(Body(r).table)
             /\ req' = [req EXCEPT ![r].todo = Tail(@), ![r].gone = {Body(r).id}]
    <3>1. /\ Alone(r) /\ Goes(r) /\ req'[r].gone = {Body(r).id}
          /\ req'[r].new = req[r].new /\ req'[r].set = req[r].set
      BY <1>1, <2>1, <2>3
    <3>2. Body(r).id \in DOMAIN rows /\ Updatable(r, Body(r).id)
      BY <2>1, <2>3 DEF Table, Removable
    <3>3. Removes(r)
      BY <1>2, <2>1, <3>1, <3>2 DEF Removes
    <3> QED
      BY <3>1, <3>3 DEF Outcome
  <2> QED
    BY <1>2, <2>2, <2>3 DEF Delete
<1>3. CASE Clear(r)
  <2>1. Started(r, "clear") /\ rows' = rows
    BY <1>3, AtStarted DEF Clear
  <2>2. /\ Alone(r) /\ Goes(r) /\ req'[r].gone = req[r].found \cap DOMAIN rows
        /\ req'[r].new = req[r].new /\ req'[r].set = req[r].set
    BY <1>1, <1>3, <2>1 DEF Clear
  <2>3. Removes(r)
    BY <1>3, <2>2 DEF Removes, Clear
  <2> QED
    BY <2>2, <2>3 DEF Outcome
<1>4. CASE Discard(r)
  <2>1. Started(r, "discard") /\ rows' = rows
    BY <1>4, AtStarted DEF Discard
  <2>2. /\ Alone(r) /\ Goes(r) /\ req'[r].gone = {Body(r).id} \cap DOMAIN rows
        /\ req'[r].new = req[r].new /\ req'[r].set = req[r].set
    BY <1>1, <1>4, <2>1 DEF Discard
  <2>3. Removes(r)
    BY <1>4, <2>2 DEF Removes, Discard
  <2> QED
    BY <2>2, <2>3 DEF Outcome
<1> QED
  BY <1>2, <1>3, <1>4

\* Whatever a request does is one of these, or its commit.
LEMMA HandleOutcome ==
  ASSUME NEW r \in Req, RowsOK, RequestOK(r), Handle(r)
  PROVE  Outcome(r) \/ Commit(r)
<1>1. CASE Statement(r)
  BY <1>1, RowOutcome, InsertOutcome, CheckOutcome, RemoveOutcome DEF Statement
<1>2. CASE Fixture(r)
  BY <1>2, RowOutcome, InsertOutcome, CheckOutcome, RemoveOutcome, ChangeOutcome, QueryOutcome
  DEF Fixture
<1>3. CASE Entry(r)
  BY <1>3, CheckOutcome, ChangeOutcome, QueryOutcome DEF Entry
<1>4. CASE Errand(r)
  BY <1>4, RowOutcome, CheckOutcome, RemoveOutcome, ChangeOutcome DEF Errand
<1> QED
  BY <1>1, <1>2, <1>3, <1>4 DEF Handle

-----------------------------------------------------------------------------
(* What a statement does keeps the types. *)

\* The tables that others refer to, and the columns that do.
Parents == {"competitions", "seasons", "stages", "groups", "teams", "matches", "players"}
KeyNames == {"competition", "season", "stage", "group", "home", "away", "match", "team",
             "player", "assist"}
\* Foreign keys are columns of these names, and refer to these tables.
LEMMA ForeignColumns ==
  ASSUME NEW t \in DOMAIN ForeignKeys
  PROVE  /\ DOMAIN ForeignKeys[t] \subseteq KeyNames
         /\ \A c \in DOMAIN ForeignKeys[t] : ForeignKeys[t][c] \in Parents
<1>1. CASE t \in {"competitions", "teams", "articles", "moderation_items", "favorites"}
  <2>1. ForeignKeys[t] = <<>>
    BY <1>1 DEF ForeignKeys
  <2> QED
    BY <2>1
<1>2. CASE t = "seasons"
  BY <1>2 DEF ForeignKeys, KeyNames, Parents
<1>3. CASE t = "stages"
  BY <1>3 DEF ForeignKeys, KeyNames, Parents
<1>4. CASE t = "groups"
  BY <1>4 DEF ForeignKeys, KeyNames, Parents
<1>5. CASE t = "players"
  BY <1>5 DEF ForeignKeys, KeyNames, Parents
<1>6. CASE t = "matches"
  BY <1>6 DEF ForeignKeys, KeyNames, Parents
<1>7. CASE t = "lineup_entries"
  BY <1>7 DEF ForeignKeys, KeyNames, Parents
<1>8. CASE t = "match_events"
  BY <1>8 DEF ForeignKeys, KeyNames, Parents
<1>9. CASE t = "match_statistics"
  BY <1>9 DEF ForeignKeys, KeyNames, Parents
<1> QED
  BY <1>1, <1>2, <1>3, <1>4, <1>5, <1>6, <1>7, <1>8, <1>9 DEF ForeignKeys

\* What every row keeps for good.
LEMMA FixedColumns ==
  /\ Fixed \subseteq {"table", "slug", "kickoff", "active"} \cup KeyNames
  /\ {"table", "slug", "kickoff", "active"} \subseteq Fixed
BY ForeignColumns DEF Fixed

\* A row of a sheet.
LEMMA ItemWhole ==
  ASSUME NEW b, b.sheet \in {"lineup_entries", "match_statistics"}, NEW i
  PROVE  Whole(Item(b, i)) /\ Item(b, i).table = b.sheet
<1>1. CASE b.sheet = "lineup_entries"
  <2>1. DOMAIN ForeignKeys["lineup_entries"] = {"match", "team", "player"}
        /\ "lineup_entries" \in DOMAIN ForeignKeys
    BY DEF ForeignKeys
  <2>2. Item(b, i).table = b.sheet /\ DOMAIN Item(b, i) = {"table", "match", "team", "player"}
    BY <1>1 DEF Item
  <2> QED
    BY <1>1, <2>1, <2>2 DEF Whole, References
<1>2. CASE b.sheet = "match_statistics"
  <2>1. DOMAIN ForeignKeys["match_statistics"] = {"match", "team"}
        /\ "match_statistics" \in DOMAIN ForeignKeys
    BY DEF ForeignKeys
  <2>2. Item(b, i).table = b.sheet /\ DOMAIN Item(b, i) = {"table", "match", "team", "stat_name"}
    BY <1>2 DEF Item
  <2> QED
    BY <1>2, <2>1, <2>2 DEF Whole, References
<1> QED
  BY <1>1, <1>2

\* Kinds of request: what one kind does no other does.
LEMMA Kinds ==
  ASSUME NEW k
  PROVE  /\ k \in Inserting => k \notin Filling \cup Deleting \cup Updating
                               \cup {"review_item", "remove_favorite", "get_standings"}
         /\ k \in Filling => k \notin Deleting \cup Updating \cup {"review_item", "remove_favorite"}
         /\ k \in Deleting => k \notin Updating \cup {"review_item", "remove_favorite"}
         /\ k \in Updating => k \notin {"review_item", "remove_favorite"}
BY DEF Inserting, Filling, Deleting, Updating

\* A transaction that ends.
LEMMA EndsOK ==
  ASSUME NEW r \in Req, RequestOK(r), Ends(r)
  PROVE  RequestOK(r)'
<1>1. ~Running(r)' /\ req'[r].status \in Codes /\ req[r].body # None
  BY DEF Ends, Running, Idle, Body
<1>2. IsFiniteSet(DOMAIN req'[r].new)
  BY FS_EmptySet DEF Ends
<1> QED
  BY <1>1, <1>2 DEF Ends, RequestOK

\* What a request that goes on has kept.
LEMMA GoesOn ==
  ASSUME NEW r \in Req, RequestOK(r), Goes(r)
  PROVE  /\ Running(r) /\ Running(r)' /\ req[r].body # None /\ IsRequest(req[r].body)
         /\ DOMAIN req'[r] = Fields /\ req'[r].body = req[r].body /\ req'[r].status \in Codes
         /\ Left(req[r].body.kind, req[r].todo) /\ req[r].todo # <<>>
         /\ Placed(req[r].body.kind, req[r].todo) /\ Left(req[r].body.kind, req'[r].todo)
<1>1. Running(r) /\ Running(r)' /\ req[r].body # None /\ IsRequest(req[r].body)
  BY DEF Goes, Running, Idle, Body, RequestOK
<1>2. /\ Left(req[r].body.kind, req[r].todo) /\ req[r].todo # <<>>
      /\ Placed(req[r].body.kind, req[r].todo)
  BY <1>1, StatementPlace DEF RequestOK, Goes
<1> QED
  BY <1>1, <1>2 DEF Goes, Placed, Codes

\* A new row is whole when it is inserted.
LEMMA InsertsOK ==
  ASSUME NEW r \in Req, RequestOK(r), Goes(r), Inserts(r)
  PROVE  RequestOK(r)'
<1> DEFINE q == req[r]
           s == req'[r]
<1>1. /\ Running(r) /\ Running(r)' /\ q.body # None /\ IsRequest(q.body)
      /\ DOMAIN s = Fields /\ s.body = q.body /\ s.status \in Codes
      /\ Placed(q.body.kind, q.todo) /\ Left(q.body.kind, s.todo) /\ q.todo # <<>>
  BY GoesOn
<1>2. /\ Head(q.todo) = "insert" /\ s.new = [id \in {r} |-> q.row]
      /\ s.set = q.set /\ s.gone = q.gone /\ s.row = q.row
  BY DEF Inserts, Insert, At
<1>3. q.body.kind \in Inserting /\ Whole(q.row)
  BY <1>1, <1>2 DEF Placed, RequestOK
<1>4. DOMAIN q.set = {} /\ q.gone = {}
  BY <1>3, Kinds DEF RequestOK
<1>5. IsFiniteSet(DOMAIN s.new)
  BY <1>2, FS_Singleton
<1> QED
  BY <1>1, <1>2, <1>3, <1>4, <1>5 DEF RequestOK

\* A request that fills a sheet names one.
LEMMA SheetKind ==
  ASSUME NEW b, IsRequest(b), b.kind \in Filling
  PROVE  b.sheet \in {"lineup_entries", "match_statistics"} /\ Len(b.items) \in Nat
<1>1. Handlers[b.kind][4] = "fill" /\ 4 \in DOMAIN Handlers[b.kind]
  BY DEF Filling, Handlers, submit_lineup, set_statistics
<1>2. Runs(b.kind, "fill")
  BY <1>1 DEF Runs
<1> QED
  BY <1>2 DEF IsRequest

\* So are the rows of a sheet, and they are finitely many.
LEMMA FillsOK ==
  ASSUME NEW r \in Req, RequestOK(r), Goes(r), Fills(r)
  PROVE  RequestOK(r)'
<1> DEFINE q == req[r]
           s == req'[r]
<1>1. /\ Running(r) /\ Running(r)' /\ q.body # None /\ IsRequest(q.body)
      /\ DOMAIN s = Fields /\ s.body = q.body /\ s.status \in Codes
      /\ Placed(q.body.kind, q.todo) /\ Left(q.body.kind, s.todo) /\ q.todo # <<>>
  BY GoesOn
<1>2. /\ Head(q.todo) = "fill" /\ s.new = Over(NextRows(r), q.new)
      /\ s.set = q.set /\ s.gone = q.gone
  BY DEF Fills, Fill, At
<1>3. q.body.kind \in Filling
  BY <1>1, <1>2 DEF Placed
<1>4. q.body.sheet \in {"lineup_entries", "match_statistics"} /\ Len(q.body.items) \in Nat
  BY <1>1, <1>3, SheetKind
<1>5. DOMAIN q.set = {} /\ q.body.kind \notin Inserting
  BY <1>3, Kinds DEF RequestOK
<1>6. /\ IsFiniteSet(DOMAIN NextRows(r)) /\ DOMAIN NextRows(r) \subseteq {r} \X Nat
      /\ \A id \in DOMAIN NextRows(r) : NextRows(r)[id] = Item(q.body, id[2])
  <2> DEFINE done == Cardinality(DOMAIN q.new)
             last == IF q.body.sheet = "lineup_entries" THEN done + 1 ELSE Len(q.body.items)
  <2>1. NextRows(r) = [id \in {r} \X (done + 1 .. last) |-> Item(q.body, id[2])]
    BY DEF NextRows, Body
  <2>2. done \in Nat /\ last \in Int
    <3>1. done \in Nat
      BY FS_CardinalityType DEF RequestOK
    <3> HIDE DEF done
    <3> QED
      BY <1>4, <3>1
  <2> HIDE DEF done, last
  <2>3. IsFiniteSet(done + 1 .. last) /\ done + 1 .. last \subseteq Nat
    BY <2>2, FS_Interval
  <2>4. IsFiniteSet({r} \X (done + 1 .. last))
    BY <2>3, FS_Product, FS_Singleton
  <2> QED
    BY <2>1, <2>3, <2>4
<1>7. /\ DOMAIN s.new = DOMAIN NextRows(r) \cup DOMAIN q.new
      /\ \A id \in DOMAIN s.new : s.new[id] \in {NextRows(r)[id], q.new[id]}
      /\ \A id \in DOMAIN s.new \ DOMAIN NextRows(r) : s.new[id] = q.new[id]
      /\ \A id \in DOMAIN NextRows(r) : s.new[id] = NextRows(r)[id]
  BY <1>2 DEF Over
<1>8. /\ IsFiniteSet(DOMAIN s.new) /\ DOMAIN s.new \subseteq {r} \cup {r} \X Nat
  <2>1. IsFiniteSet(DOMAIN q.new) /\ DOMAIN q.new \subseteq {r} \cup {r} \X Nat
    BY DEF RequestOK
  <2>2. IsFiniteSet(DOMAIN NextRows(r) \cup DOMAIN q.new)
    BY <1>6, <2>1, FS_Union
  <2> QED
    BY <1>6, <1>7, <2>1, <2>2
<1>9. \A id \in DOMAIN s.new : Whole(s.new[id]) /\ s.new[id].table = q.body.sheet
  BY <1>4, <1>5, <1>6, <1>7, ItemWhole DEF RequestOK
<1> QED
  BY <1>1, <1>2, <1>3, <1>5, <1>8, <1>9 DEF RequestOK

\* An update changes its row alone, and no column that is fixed.
LEMMA ChangesOK ==
  ASSUME NEW r \in Req, RequestOK(r), Goes(r), Changes(r)
  PROVE  RequestOK(r)'
<1> DEFINE q == req[r]
           s == req'[r]
<1>1. /\ Running(r) /\ Running(r)' /\ q.body # None /\ IsRequest(q.body)
      /\ DOMAIN s = Fields /\ s.body = q.body /\ s.status \in Codes
      /\ Placed(q.body.kind, q.todo) /\ Left(q.body.kind, s.todo) /\ q.todo # <<>>
  BY GoesOn
<1>2. /\ s.set = [x \in {q.body.id} |-> Dirty(r, Columns(r))]
      /\ s.new = q.new /\ s.gone = q.gone
  BY DEF Changes, Body
<1>3. /\ Head(q.todo) \in {"review", "edit", "update_player", "update"}
      /\ Head(q.todo) = "review" <=> At(r, "review")
      /\ Head(q.todo) = "edit" <=> At(r, "edit")
  BY DEF Changes, Review, EditArticle, UpdatePlayer, UpdateEntry, At
<1>4. /\ q.body.kind \in Updating \cup {"review_item"}
      /\ q.body.kind \in Updating <=> Head(q.todo) # "review"
      /\ q.body.kind = "update_player" => Head(q.todo) = "update_player"
      /\ s.todo = <<>> \/ Head(s.todo) = "unique"
  <2>1. s.todo = Tail(q.todo)
    BY <1>3 DEF Goes
  <2>2. CASE Head(q.todo) = "review"
    BY <1>1, <2>1, <2>2 DEF Placed, Updating
  <2>3. CASE Head(q.todo) = "update_player"
    BY <1>1, <2>1, <2>3 DEF Placed, Updating, Follows
  <2>4. CASE Head(q.todo) \in {"edit", "update"}
    BY <1>1, <2>1, <2>4 DEF Placed, Updating
  <2> QED
    BY <1>3, <2>2, <2>3, <2>4
<1>5. q.body.kind \notin Inserting \cup Filling \cup Deleting \cup {"remove_favorite"}
  BY <1>4, Kinds DEF Inserting, Filling, Deleting, Updating
<1>6. DOMAIN q.new = {} /\ q.gone = {}
  BY <1>5 DEF RequestOK
<1>7. /\ DOMAIN Columns(r) \cap Fixed = {}
      /\ q.body.kind \in Updating =>
           DOMAIN Columns(r) \subseteq DOMAIN q.body.columns \cup {"published_at"}
      /\ "jersey" \in DOMAIN Columns(r) => q.body.kind = "update_player"
  <2>0. {"status", "reviewer", "reviewed_at", "published_at"} \cap Fixed = {}
    BY FixedColumns DEF KeyNames
  <2>1. CASE Head(q.todo) = "review"
    <3>1. DOMAIN Columns(r) = {"status", "reviewer", "reviewed_at"}
      BY <1>3, <2>1 DEF Columns, Decision
    <3> QED
      BY <1>4, <2>0, <2>1, <3>1
  <2>2. CASE Head(q.todo) = "edit"
    <3>1. q.body.kind \in Updating \ {"update_player"}
      BY <1>1, <2>2 DEF Placed
    <3>2. DOMAIN q.body.columns \cap Fixed = {} /\ "jersey" \notin DOMAIN q.body.columns
      BY <1>1, <3>1 DEF IsRequest
    <3>3. DOMAIN Columns(r) \subseteq DOMAIN q.body.columns \cup {"published_at"}
      BY <1>3, <2>2 DEF Columns, Edits, Over, Body
    <3> QED
      BY <2>0, <3>2, <3>3
  <2>3. CASE Head(q.todo) \in {"update", "update_player"}
    <3>1. Columns(r) = q.body.columns /\ q.body.kind \in Updating
      BY <1>3, <1>4, <2>3 DEF Columns, Body
    <3>2. DOMAIN q.body.columns \cap Fixed = {}
          /\ (q.body.kind # "update_player" => "jersey" \notin DOMAIN q.body.columns)
      BY <1>1, <3>1 DEF IsRequest
    <3> QED
      BY <3>1, <3>2
  <2> QED
    BY <1>3, <2>1, <2>2, <2>3
<1>8. DOMAIN Dirty(r, Columns(r)) \subseteq DOMAIN Columns(r)
  BY DEF Dirty
<1>9. IsFiniteSet(DOMAIN s.new)
  BY <1>2 DEF RequestOK
<1> QED
  BY <1>1, <1>2, <1>4, <1>5, <1>6, <1>7, <1>8, <1>9 DEF RequestOK

\* A request deletes only what its kind may.
LEMMA RemovesOK ==
  ASSUME NEW r \in Req, RequestOK(r), Goes(r), Removes(r)
  PROVE  RequestOK(r)'
<1> DEFINE q == req[r]
           s == req'[r]
<1>1. /\ Running(r) /\ Running(r)' /\ q.body # None /\ IsRequest(q.body)
      /\ DOMAIN s = Fields /\ s.body = q.body /\ s.status \in Codes
      /\ Placed(q.body.kind, q.todo) /\ Left(q.body.kind, s.todo) /\ q.todo # <<>>
  BY GoesOn
<1>2. s.new = q.new /\ s.set = q.set
  BY DEF Removes
<1>3. /\ q.body.kind \in Deleting \cup Filling \cup {"remove_favorite"}
      /\ \A x \in s.gone : q.body.kind \in Deleting => x = q.body.id
  <2>1. CASE Delete(r) /\ s.gone = {q.body.id}
    BY <1>1, <2>1 DEF Delete, At, Placed
  <2>2. CASE Clear(r)
    BY <1>1, <2>2, Kinds DEF Clear, At, Placed
  <2>3. CASE Discard(r)
    BY <1>1, <2>3, Kinds DEF Discard, At, Placed
  <2> QED
    BY <2>1, <2>2, <2>3 DEF Removes, Body
<1>4. q.body.kind \notin Inserting \cup Updating \cup {"review_item"}
  BY <1>3, Kinds DEF Inserting, Filling, Deleting, Updating
<1>5. DOMAIN q.set = {}
  BY <1>4 DEF RequestOK
<1> QED
  BY <1>1, <1>2, <1>3, <1>4, <1>5 DEF RequestOK

\* Together: no statement breaks the type of its request.
LEMMA OutcomeOK ==
  ASSUME NEW r \in Req, RequestOK(r), Outcome(r)
  PROVE  RequestOK(r)'
BY EndsOK, HoldsOK, InsertsOK, FillsOK, ChangesOK, RemovesOK DEF Outcome

-----------------------------------------------------------------------------
(* The types hold. *)

\* The id of a row says who inserts it.
Own(r) == {r} \cup {r} \X Nat
\* Two requests never name the same row.
LEMMA OwnApart ==
  ASSUME NEW r \in Req, NEW q \in Req, r # q
  PROVE  Own(r) \cap Own(q) = {}
<1> SUFFICES ASSUME NEW x, x \in Own(r), x \in Own(q) PROVE FALSE
  OBVIOUS
<1>1. CASE x = r
  BY <1>1, IdsAreApart DEF Own
<1>2. CASE x \in {r} \X Nat
  <2>1. x \in Req \X Nat /\ x[1] = r
    BY <1>2
  <2>2. x # q
    BY <2>1, IdsAreApart
  <2>3. x \in {q} \X Nat
    BY <2>2 DEF Own
  <2>4. x[1] = q
    BY <2>3
  <2> QED
    BY <2>1, <2>4
<1> QED
  BY <1>1, <1>2 DEF Own

\* An UPDATE leaves what a row refers to as it is.
LEMMA WithKeeps ==
  ASSUME NEW x, Whole(x), NEW columns, DOMAIN columns \cap Fixed = {}
  PROVE  /\ Whole(With(x, columns)) /\ DOMAIN With(x, columns) = DOMAIN x
         /\ With(x, columns).table = x.table
         /\ References(With(x, columns)) = References(x)
         /\ \A c \in References(x) : With(x, columns)[c] = x[c]
         /\ x.table = "articles" => With(x, columns).slug = x.slug
<1> DEFINE y == With(x, columns)
<1>1. /\ DOMAIN y = DOMAIN x
      /\ \A c \in DOMAIN x \ DOMAIN columns : y[c] = x[c]
  BY DEF With
<1>2. References(x) \subseteq DOMAIN x /\ x.table \in DOMAIN ForeignKeys /\ "table" \in DOMAIN x
  BY DEF Whole
<1>3. "table" \notin DOMAIN columns /\ "slug" \notin DOMAIN columns
  BY FixedColumns
<1>4. References(x) \cap DOMAIN columns = {}
  BY <1>2 DEF References, Fixed
<1> HIDE DEF y
<1>5. y.table = x.table
  BY <1>1, <1>2, <1>3
<1>6. References(y) = References(x) /\ \A c \in References(x) : y[c] = x[c]
  BY <1>1, <1>2, <1>4, <1>5 DEF References
<1>7. Whole(y)
  BY <1>1, <1>2, <1>5, <1>6 DEF Whole
<1>8. x.table = "articles" => y.slug = x.slug
  BY <1>1, <1>3 DEF Whole
<1> QED
  BY <1>1, <1>5, <1>6, <1>7, <1>8 DEF y

\* The rows once r has committed.
Committed(r) ==
  /\ DOMAIN rows' = DOMAIN req[r].new \cup (DOMAIN rows \ req[r].gone)
  /\ DOMAIN req[r].new \cap DOMAIN rows = {}
  /\ \A x \in DOMAIN req[r].new : rows'[x] = req[r].new[x]
  /\ \A x \in DOMAIN rows \ req[r].gone :
       rows'[x] = IF x \in Updated(r) THEN With(rows[x], req[r].set[x]) ELSE rows[x]

\* A commit writes what the transaction has written, and ends it.
LEMMA CommitEnds ==
  ASSUME NEW r \in Req, TypeInv, Commit(r)
  PROVE  /\ Committed(r) /\ Ends(r) /\ req'[r].status = 200
         /\ DOMAIN req' = Req /\ \A q \in Req \ {r} : req'[q] = req[q]
         /\ Running(r) /\ req[r].todo = <<>> /\ req[r].status = 0
<1>1. /\ Ends(r) /\ req'[r].status = 200
      /\ DOMAIN req' = Req /\ \A q \in Req \ {r} : req'[q] = req[q]
  BY DEF Commit, Answer, Running, Blank, Ends, Fields, Body, TypeInv, RowsOK, Codes
<1>2. Running(r) /\ req[r].todo = <<>> /\ req[r].status = 0
  BY DEF Commit, Running
<1>3. DOMAIN req[r].new \cap DOMAIN rows = {}
  BY <1>2 DEF TypeInv, RowsOK, RequestOK
<1> QED
  BY <1>1, <1>2, <1>3 DEF Commit, Committed, Over

\* The types hold at the start.
LEMMA TypeInit == Init => TypeInv
<1> SUFFICES ASSUME Init PROVE TypeInv
  OBVIOUS
<1>1. RowsOK
  <2>1. DOMAIN req = Req /\ rows = Rows0
    BY DEF Init
  <2>2. \A r \in Req : {r} \cup {r} \X Nat \subseteq Req \cup Req \X Nat
    OBVIOUS
  <2> QED
    BY <2>1, <2>2, IdsAreApart, RowsAreWhole DEF RowsOK
<1>2. ASSUME NEW r \in Req PROVE RequestOK(r)
  <2>1. req[r] = Blank /\ ~Running(r)
    BY DEF Init, Running, Idle, Body, Blank
  <2>2. /\ DOMAIN req[r] = Fields /\ req[r].body = None /\ req[r].status = 0
        /\ DOMAIN req[r].new = {} /\ DOMAIN req[r].set = {} /\ req[r].gone = {}
    BY <2>1 DEF Blank, Fields
  <2>3. IsFiniteSet(DOMAIN req[r].new)
    BY <2>2, FS_EmptySet
  <2> QED
    BY <2>1, <2>2, <2>3 DEF RequestOK, Codes
<1> QED
  BY <1>1, <1>2 DEF TypeInv

\* A request that arrives: what it is, and what it starts with.
Starts(r, b) ==
  /\ req[r].body = None /\ b # None /\ IsRequest(b)
  /\ \E mix \in Mixes : b \in mix.bodies
  /\ LET s == req'[r] IN
     /\ DOMAIN s = Fields /\ s.body = b /\ s.status = 0 /\ s.todo = Handlers[b.kind]
     /\ s.new = <<>> /\ s.set = <<>> /\ s.gone = {} /\ s.before = Seen(b)
     /\ s.row = IF "row" \in DOMAIN b THEN b.row ELSE None
     /\ s.found = IF Head(Handlers[b.kind]) = "climb" THEN {Foot(b)} ELSE {}
\* That is what arriving is.
LEMMA ArriveStarts ==
  ASSUME NEW r \in Req, RowsOK, Arrive(r)
  PROVE  Alone(r) /\ \E b : Starts(r, b)
<1>0. PICK mix \in Mixes : Arrive(r) /\ \E b \in mix.bodies :
        req' = [req EXCEPT ![r] =
          [Blank EXCEPT !.body = b, !.todo = Handlers[b.kind], !.before = Seen(b),
                        !.row = IF "row" \in DOMAIN b THEN b.row ELSE None,
                        !.found = IF Head(Handlers[b.kind]) = "climb" THEN {Foot(b)} ELSE {}]]
  BY DEF Arrive
<1>1. PICK b \in mix.bodies :
        req' = [req EXCEPT ![r] =
          [Blank EXCEPT !.body = b, !.todo = Handlers[b.kind], !.before = Seen(b),
                        !.row = IF "row" \in DOMAIN b THEN b.row ELSE None,
                        !.found = IF Head(Handlers[b.kind]) = "climb" THEN {Foot(b)} ELSE {}]]
  BY <1>0
<1>2. rows' = rows /\ req[r].body = None
  BY DEF Arrive, Idle, Body
<1>3. b # None /\ IsRequest(b)
  BY BodiesAreRequests
<1>4. Alone(r)
  BY <1>1, <1>2 DEF Alone, RowsOK
<1>5. Starts(r, b)
  BY <1>1, <1>2, <1>3 DEF Starts, RowsOK, Blank, Fields
<1> QED
  BY <1>4, <1>5

\* The kinds that insert a row run that statement.
LEMMA InsertingRuns ==
  ASSUME NEW k \in Inserting
  PROVE  Runs(k, "insert")
<1>1. CASE k \in {"create_competition", "create_team", "submit_report", "add_favorite"}
  <2>1. Handlers[k][1] = "insert" /\ 1 \in DOMAIN Handlers[k]
    BY <1>1 DEF Handlers, create_competition, create_team, submit_report, add_favorite
  <2> QED
    BY <2>1 DEF Runs
<1>2. CASE k \in {"create_match", "create_season", "create_stage", "create_group",
                  "create_article"}
  <2>1. Handlers[k][2] = "insert" /\ 2 \in DOMAIN Handlers[k]
    BY <1>2 DEF Handlers, create_match, create_season, create_stage, create_group, create_article
  <2> QED
    BY <2>1 DEF Runs
<1>3. CASE k \in {"create_player", "record_event"}
  <2>1. Handlers[k][3] = "insert" /\ 3 \in DOMAIN Handlers[k]
    BY <1>3 DEF Handlers, create_player, record_event
  <2> QED
    BY <2>1 DEF Runs
<1> QED
  BY <1>1, <1>2, <1>3 DEF Inserting

\* A request has its type when it arrives.
LEMMA StartsOK ==
  ASSUME NEW r \in Req, NEW b, Starts(r, b)
  PROVE  RequestOK(r)'
<1> DEFINE s == req'[r]
<1>1. /\ DOMAIN s = Fields /\ s.body = b /\ s.status = 0 /\ s.todo = Handlers[b.kind]
      /\ DOMAIN s.new = {} /\ DOMAIN s.set = {} /\ s.gone = {}
      /\ s.row = IF "row" \in DOMAIN b THEN b.row ELSE None
      /\ b # None /\ IsRequest(b)
  BY DEF Starts
<1>2. Left(b.kind, s.todo)
  BY <1>1, HandlerLeft DEF IsRequest
<1>3. b.kind \in Inserting => Whole(s.row)
  BY <1>1, InsertingRuns DEF IsRequest
<1>4. IsFiniteSet(DOMAIN s.new)
  BY <1>1, FS_EmptySet
<1> QED
  BY <1>1, <1>2, <1>3, <1>4 DEF RequestOK, Codes

\* A request that does nothing keeps its type.
LEMMA StaysOK ==
  ASSUME NEW q \in Req, RequestOK(q), req'[q] = req[q]
  PROVE  RequestOK(q)'
BY DEF RequestOK, Running, Idle, Body

\* What the steps of the specification do, one by one.
Commits(r) ==
  /\ Committed(r) /\ Ends(r) /\ req'[r].status = 200
  /\ DOMAIN req' = Req /\ \A q \in Req \ {r} : req'[q] = req[q]
  /\ Running(r) /\ req[r].todo = <<>> /\ req[r].status = 0
\* A step is one of these.
LEMMA Steps ==
  ASSUME TypeInv, [Next]_vars
  PROVE  \/ \E r \in Req : Alone(r) /\ \E b : Starts(r, b)
         \/ \E r \in Req : Outcome(r)
         \/ \E r \in Req : Commits(r)
         \/ UNCHANGED vars
<1>1. CASE UNCHANGED vars
  BY <1>1
<1>2. CASE Next
  <2>1. PICK r \in Req : Arrive(r) \/ Handle(r) \/ Abort(r)
    BY <1>2 DEF Next
  <2>2. CASE Arrive(r)
    BY <2>2, ArriveStarts DEF TypeInv
  <2>3. CASE Handle(r)
    BY <2>3, HandleOutcome, CommitEnds DEF TypeInv, Commits
  <2>4. CASE Abort(r)
    BY <2>4, AnswerEnds DEF Abort, Lost, Outcome, Codes, TypeInv, RowsOK
  <2> QED
    BY <2>1, <2>2, <2>3, <2>4
<1> QED
  BY <1>1, <1>2

\* A commit leaves whole rows, and none that is still to be inserted.
LEMMA CommitsOK ==
  ASSUME NEW r \in Req, TypeInv, Commits(r)
  PROVE  RowsOK'
<1> DEFINE q == req[r]
<1>1. Committed(r) /\ DOMAIN req' = Req /\ req'[r].status = 200 /\ q.status = 0
      /\ \A p \in Req \ {r} : req'[p] = req[p]
  BY DEF Commits
<1>2. ASSUME NEW x \in DOMAIN rows' PROVE Whole(rows'[x])
  <2>1. CASE x \in DOMAIN q.new
    BY <1>1, <2>1 DEF Committed, TypeInv, RequestOK
  <2>2. CASE x \in DOMAIN rows \ q.gone
    <3>1. Whole(rows[x])
      BY <2>2 DEF TypeInv, RowsOK
    <3>2. x \in Updated(r) => DOMAIN q.set[x] \cap Fixed = {}
      BY DEF TypeInv, RequestOK, Updated
    <3>3. rows'[x] = IF x \in Updated(r) THEN With(rows[x], q.set[x]) ELSE rows[x]
      BY <1>1, <2>2 DEF Committed
    <3> QED
      BY <3>1, <3>2, <3>3, WithKeeps
  <2> QED
    BY <1>1, <2>1, <2>2 DEF Committed
<1>3. ASSUME NEW p \in Req, req'[p].status = 0
      PROVE  DOMAIN rows' \cap ({p} \cup {p} \X Nat) = {}
  <2>1. p # r /\ req[p].status = 0
    BY <1>1, <1>3
  <2>2. DOMAIN rows \cap Own(p) = {}
    BY <2>1 DEF TypeInv, RowsOK, Own
  <2>3. DOMAIN q.new \subseteq Own(r)
    BY DEF TypeInv, RequestOK, Own
  <2>4. Own(p) \cap Own(r) = {}
    BY <2>1, OwnApart
  <2>5. DOMAIN rows' \subseteq DOMAIN q.new \cup DOMAIN rows
    BY <1>1 DEF Committed
  <2> QED
    BY <2>2, <2>3, <2>4, <2>5 DEF Own
<1> QED
  BY <1>1, <1>2, <1>3 DEF RowsOK

\* A step that leaves the rows alone keeps theirs.
LEMMA AloneOK ==
  ASSUME NEW r \in Req, TypeInv, Alone(r), req'[r].status = 0 => req[r].status = 0
  PROVE  RowsOK'
<1>1. \A p \in Req : req'[p].status = 0 => req[p].status = 0
  BY DEF Alone
<1> QED
  BY <1>1 DEF Alone, TypeInv, RowsOK

\* Every step keeps the types.
LEMMA TypeNext ==
  ASSUME TypeInv, [Next]_vars
  PROVE  TypeInv'
<1>1. CASE \E r \in Req : Alone(r) /\ \E b : Starts(r, b)
  <2>1. PICK r \in Req : Alone(r) /\ \E b : Starts(r, b)
    BY <1>1
  <2>2. req[r].status = 0
    BY <2>1 DEF Starts, TypeInv, RequestOK
  <2>3. RowsOK'
    BY <2>1, <2>2, AloneOK
  <2>4. \A q \in Req : RequestOK(q)'
    BY <2>1, StartsOK, StaysOK DEF TypeInv, Alone
  <2> QED
    BY <2>3, <2>4 DEF TypeInv
<1>2. CASE \E r \in Req : Outcome(r)
  <2>1. PICK r \in Req : Outcome(r)
    BY <1>2
  <2>2. req[r].status = 0
    BY <2>1 DEF Outcome, Ends, Goes, Running
  <2>3. RowsOK'
    BY <2>1, <2>2, AloneOK DEF Outcome
  <2>4. \A q \in Req : RequestOK(q)'
    BY <2>1, OutcomeOK, StaysOK DEF TypeInv, Alone, Outcome
  <2> QED
    BY <2>3, <2>4 DEF TypeInv
<1>3. CASE \E r \in Req : Commits(r)
  <2>1. PICK r \in Req : Commits(r)
    BY <1>3
  <2>2. RowsOK'
    BY <2>1, CommitsOK
  <2>3. \A q \in Req : RequestOK(q)'
    BY <2>1, EndsOK, StaysOK DEF TypeInv, Commits
  <2> QED
    BY <2>2, <2>3 DEF TypeInv
<1>4. CASE UNCHANGED vars
  <2>1. rows' = rows /\ req' = req
    BY <1>4 DEF vars
  <2>2. RowsOK' /\ \A q \in Req : RequestOK(q)'
    BY <2>1, StaysOK DEF TypeInv, RowsOK
  <2> QED
    BY <2>2 DEF TypeInv
<1> QED
  BY <1>1, <1>2, <1>3, <1>4, Steps

-----------------------------------------------------------------------------
(* Locks.  A row that a transaction has changed or deleted is still there, and no   *)
(* other transaction has changed or deleted it.                                     *)

Locked(r) == Updated(r) \cup req[r].gone
LocksInv ==
  /\ \A r \in Req : Locked(r) \subseteq DOMAIN rows
  /\ \A r, q \in Req : r # q => Locked(r) \cap Locked(q) = {}

\* A step of one request leaves what another has written as it was.
LEMMA OthersKeep ==
  ASSUME NEW q \in Req, req'[q] = req[q]
  PROVE  /\ Locked(q)' = Locked(q) /\ Updated(q)' = Updated(q) /\ Body(q)' = Body(q)
         /\ Kind(q)' = Kind(q) /\ Running(q)' = Running(q)
         /\ \A s : At(q, s)' = At(q, s)
BY DEF Locked, Updated, Body, Kind, Running, Idle, At

\* What r locks in a step.
LEMMA LocksTaken ==
  ASSUME NEW r \in Req, Outcome(r)
  PROVE  \A x \in Locked(r)' : x \in Locked(r) \/ (x \in DOMAIN rows /\ Updatable(r, x))
<1>1. CASE Ends(r)
  BY <1>1 DEF Ends, Locked, Updated
<1>2. CASE Keeps(r) \/ Inserts(r) \/ Fills(r)
  BY <1>2 DEF Keeps, Holds, Writes, Inserts, Fills, Locked, Updated
<1>3. CASE Changes(r)
  <2>1. DOMAIN req'[r].set = {Body(r).id} /\ req'[r].gone = req[r].gone
    BY <1>3 DEF Changes
  <2> QED
    BY <1>3, <2>1 DEF Changes, Locked, Updated
<1>4. CASE Removes(r)
  BY <1>4 DEF Removes, Locked, Updated
<1> QED
  BY <1>1, <1>2, <1>3, <1>4 DEF Outcome

\* Nothing is locked at the start.
LEMMA LocksInit == Init => LocksInv
BY DEF Init, Blank, LocksInv, Locked, Updated

\* Every step keeps the locks apart.
LEMMA LocksNext ==
  ASSUME TypeInv, LocksInv, [Next]_vars
  PROVE  LocksInv'
<1>1. CASE \E r \in Req : Alone(r) /\ \E b : Starts(r, b)
  <2>1. PICK r \in Req : Alone(r) /\ \E b : Starts(r, b)
    BY <1>1
  <2>2. Locked(r)' = {}
    BY <2>1 DEF Starts, Locked, Updated
  <2>3. \A q \in Req \ {r} : Locked(q)' = Locked(q)
    BY <2>1, OthersKeep DEF Alone
  <2> QED
    BY <2>1, <2>2, <2>3 DEF LocksInv, Alone
<1>2. CASE \E r \in Req : Outcome(r)
  <2>1. PICK r \in Req : Outcome(r)
    BY <1>2
  <2>2. rows' = rows /\ \A q \in Req \ {r} : Locked(q)' = Locked(q)
    BY <2>1, OthersKeep DEF Alone, Outcome
  <2>3. \A x \in Locked(r)' : x \in Locked(r) \/ (x \in DOMAIN rows /\ Updatable(r, x))
    BY <2>1, LocksTaken
  <2>4. \A x \in Locked(r)' : x \in DOMAIN rows /\ \A q \in Req \ {r} : x \notin Locked(q)
    BY <2>3 DEF LocksInv, Updatable, Locked
  <2> QED
    BY <2>2, <2>4 DEF LocksInv
<1>3. CASE \E r \in Req : Commits(r)
  <2>1. PICK r \in Req : Commits(r)
    BY <1>3
  <2>2. Locked(r)' = {}
    BY <2>1 DEF Commits, Ends, Locked, Updated
  <2>3. \A q \in Req \ {r} : Locked(q)' = Locked(q)
    BY <2>1, OthersKeep DEF Commits
  <2>4. DOMAIN rows \ Locked(r) \subseteq DOMAIN rows'
    BY <2>1 DEF Commits, Committed, Locked
  <2> QED
    BY <2>2, <2>3, <2>4 DEF LocksInv
<1>4. CASE UNCHANGED vars
  BY <1>4 DEF vars, LocksInv, Locked, Updated
<1> QED
  BY <1>1, <1>2, <1>3, <1>4, Steps

\* Every variable keeps its type, whatever the requests.
THEOREM BackofficeTyped == Spec => []TypeOK
<1>1. Init => TypeInv /\ LocksInv
  BY TypeInit, LocksInit
<1>2. TypeInv /\ LocksInv /\ [Next]_vars => TypeInv' /\ LocksInv'
  BY TypeNext, LocksNext
<1>3. TypeInv /\ LocksInv => TypeOK
  <2> SUFFICES ASSUME TypeInv, LocksInv PROVE TypeOK
    OBVIOUS
  <2>1. \A x \in DOMAIN rows : rows[x].table \in DOMAIN ForeignKeys
    BY DEF TypeInv, RowsOK, Whole
  <2>2. ASSUME NEW r \in Req
        PROVE  /\ req[r].status \in {0, 200, 400, 404, 409, 499, 500}
               /\ req[r].gone \cup Updated(r) \subseteq DOMAIN rows
               /\ DOMAIN req[r].new \cap DOMAIN rows = {}
    <3>1. req[r].status \in Codes
      BY DEF TypeInv, RequestOK
    <3>2. req[r].status # 0 => DOMAIN req[r].new = {}
      BY DEF TypeInv, RequestOK, Running
    <3>3. req[r].status = 0 => DOMAIN req[r].new \cap DOMAIN rows = {}
      BY DEF TypeInv, RequestOK, RowsOK
    <3> QED
      BY <3>1, <3>2, <3>3 DEF LocksInv, Locked, Codes
  <2> QED
    BY <2>1, <2>2 DEF TypeOK
<1> QED
  BY <1>1, <1>2, <1>3, PTL DEF Spec

-----------------------------------------------------------------------------
(* Keys.  No two committed rows share a key, nor does a key that a transaction has  *)
(* claimed belong to another row or to the claim of another transaction.            *)

KeysInv ==
  /\ KeysUnique
  /\ \A r \in Req : \A x \in DOMAIN rows \ Updated(r) : Keys(rows[x]) \cap Claimed(r) = {}
  /\ \A r, q \in Req : r # q => Claimed(r) \cap Claimed(q) = {}

\* What a claim is made of.
LEMMA ClaimedIs ==
  ASSUME NEW r, NEW k
  PROVE  k \in Claimed(r) <=>
           \/ \E x \in DOMAIN req[r].new : k \in Keys(req[r].new[x])
           \/ ~At(r, "unique") /\ \E x \in Updated(r) : k \in Keys(With(rows[x], req[r].set[x]))
BY DEF Claimed

\* The same of the next state.
LEMMA ClaimedNext ==
  ASSUME NEW r, NEW k
  PROVE  k \in Claimed(r)' <=>
           \/ \E x \in DOMAIN req'[r].new : k \in Keys(req'[r].new[x])
           \/ ~At(r, "unique")' /\ \E x \in Updated(r)' : k \in Keys(With(rows'[x], req'[r].set[x]))
BY DEF Claimed

\* Only an update of a number changes a key.
LEMMA KeysSame ==
  ASSUME NEW x, Whole(x), NEW columns, DOMAIN columns \cap Fixed = {},
         "jersey" \notin DOMAIN columns
  PROVE  Keys(With(x, columns)) = Keys(x)
<1> DEFINE y == With(x, columns)
<1>1. y.table = x.table /\ (x.table = "articles" => y.slug = x.slug)
  BY WithKeeps
<1>2. CASE x.table = "players"
  <2>1. "team" \in References(x)
    BY <1>2 DEF References, ForeignKeys
  <2>2. y.team = x.team
    BY <2>1, WithKeeps
  <2>3. y.jersey = x.jersey
    BY <1>2 DEF With, Whole
  <2> HIDE DEF y
  <2> QED
    BY <1>1, <1>2, <2>2, <2>3 DEF Keys, y
<1>3. CASE x.table # "players"
  <2> HIDE DEF y
  <2> QED
    BY <1>1, <1>3 DEF Keys, y
<1> QED
  BY <1>2, <1>3

\* The rows of a sheet have no keys.
LEMMA SheetKeys ==
  ASSUME NEW r \in Req, RequestOK(r), Kind(r) \in Filling
  PROVE  \A x \in DOMAIN req[r].new : Keys(req[r].new[x]) = {}
<1>1. CASE req[r].body = None
  BY <1>1 DEF RequestOK, Running, Idle, Body
<1>2. CASE req[r].body # None
  <2>1. req[r].body.sheet \in {"lineup_entries", "match_statistics"}
    BY <1>2, SheetKind DEF RequestOK, Kind
  <2>2. \A x \in DOMAIN req[r].new : req[r].new[x].table = req[r].body.sheet
    BY Kinds DEF RequestOK, Kind
  <2> QED
    BY <2>1, <2>2 DEF Keys
<1> QED
  BY <1>1, <1>2

\* A request writes one row at most, unless it fills a sheet.
LEMMA NewKeysApart ==
  ASSUME NEW r \in Req, RequestOK(r), NEW x \in DOMAIN req[r].new, NEW y \in DOMAIN req[r].new,
         x # y
  PROVE  Keys(req[r].new[x]) \cap Keys(req[r].new[y]) = {}
<1>1. Kind(r) \in Filling
  BY DEF RequestOK, Kind, Body
<1> QED
  BY <1>1, SheetKeys

\* The same of the next state.
LEMMA SheetKeysNext ==
  ASSUME NEW r \in Req, RequestOK(r)', Kind(r)' \in Filling
  PROVE  \A x \in DOMAIN req'[r].new : Keys(req'[r].new[x]) = {}
<1>1. CASE req'[r].body = None
  BY <1>1 DEF RequestOK, Running, Idle, Body
<1>2. CASE req'[r].body # None
  <2>1. req'[r].body.sheet \in {"lineup_entries", "match_statistics"}
    BY <1>2, SheetKind DEF RequestOK, Kind
  <2>2. \A x \in DOMAIN req'[r].new : req'[r].new[x].table = req'[r].body.sheet
    BY Kinds DEF RequestOK, Kind
  <2> QED
    BY <2>1, <2>2 DEF Keys
<1> QED
  BY <1>1, <1>2

\* Nobody else has what r claims in a step.
FreeFor(r, k) ==
  /\ \A y \in DOMAIN rows \ Updated(r)' : k \notin Keys(rows[y])
  /\ \A q \in Req \ {r} : k \notin Claimed(q)

\* What r had claimed before is free if the transaction still changes the same rows.
LEMMA OldClaims ==
  ASSUME NEW r \in Req, KeysInv, Updated(r)' = Updated(r), NEW k \in Claimed(r)
  PROVE  FreeFor(r, k)
BY DEF FreeFor, KeysInv

\* A key is free that has been waited for and looked up.
LEMMA NotContended ==
  ASSUME NEW r \in Req, NEW keys, ~Contended(r, keys), ~Taken(r, keys), Updated(r)' = Updated(r),
         NEW k \in keys
  PROVE  FreeFor(r, k)
BY DEF FreeFor, Contended, Taken

\* The key that a row has already is free for its update.
LEMMA OwnKey ==
  ASSUME NEW r \in Req, KeysInv, NEW x \in DOMAIN rows, x \in Updated(r)', Updatable(r, x),
         NEW k \in Keys(rows[x])
  PROVE  FreeFor(r, k)
<1>1. \A y \in DOMAIN rows \ {x} : k \notin Keys(rows[y])
  BY DEF KeysInv, KeysUnique
<1>2. \A q \in Req \ {r} : k \notin Claimed(q)
  BY DEF KeysInv, Updatable
<1> QED
  BY <1>1, <1>2 DEF FreeFor

\* The UPDATE that has entered its key, and the statements that write nothing.
LEMMA KeepsClaims ==
  ASSUME NEW r \in Req, TypeInv, LocksInv, KeysInv, Alone(r), Goes(r), Keeps(r),
         NEW k \in Claimed(r)'
  PROVE  FreeFor(r, k)
<1> DEFINE q == req[r]
           s == req'[r]
<1>1. s.new = q.new /\ s.set = q.set /\ Updated(r)' = Updated(r) /\ rows' = rows
  BY DEF Keeps, Holds, Writes, Updated, Alone
<1>2. CASE \E x \in DOMAIN s.new : k \in Keys(s.new[x])
  <2>1. k \in Claimed(r)
    BY <1>1, <1>2, ClaimedIs
  <2> QED
    BY <1>1, <2>1, OldClaims
<1>3. CASE \E x \in Updated(r)' : k \in Keys(With(rows'[x], s.set[x]))
  <2>1. PICK x \in Updated(r) : k \in Keys(With(rows[x], q.set[x]))
    BY <1>1, <1>3
  <2>2. CASE ~At(r, "unique")
    <3>1. k \in Claimed(r)
      BY <2>1, <2>2, ClaimedIs
    <3> QED
      BY <1>1, <3>1, OldClaims
  <2>3. CASE At(r, "unique") /\ k \in Keys(rows[x])
    <3>1. x \in DOMAIN rows /\ x \in Updated(r)' /\ Updatable(r, x)
      BY <1>1, <2>1 DEF LocksInv, Locked, Updatable
    <3> QED
      BY <2>3, <3>1, OwnKey
  <2>4. CASE At(r, "unique") /\ k \notin Keys(rows[x])
    <3>1. k \in NewKeys(r)
      BY <2>1, <2>4 DEF NewKeys
    <3>2. ~Contended(r, NewKeys(r)) /\ ~Taken(r, NewKeys(r))
      BY <2>4 DEF Keeps, At
    <3> QED
      BY <1>1, <3>1, <3>2, NotContended
  <2> QED
    BY <2>2, <2>3, <2>4
<1> QED
  BY <1>2, <1>3, ClaimedNext

\* A new row.
LEMMA InsertsClaims ==
  ASSUME NEW r \in Req, TypeInv, KeysInv, Alone(r), Goes(r), Inserts(r), NEW k \in Claimed(r)'
  PROVE  FreeFor(r, k)
<1>1. /\ req'[r].new = [id \in {r} |-> req[r].row] /\ Updated(r)' = Updated(r)
      /\ ~Contended(r, Keys(req[r].row)) /\ ~Taken(r, Keys(req[r].row))
  BY DEF Inserts, Updated
<1>2. Updated(r)' = {}
  <2>1. Placed(req[r].body.kind, req[r].todo) /\ Head(req[r].todo) = "insert"
    BY GoesOn DEF TypeInv, Inserts, Insert, At
  <2>2. Updated(r) = {}
    BY <2>1, Kinds DEF Placed, TypeInv, RequestOK, Updated
  <2> QED
    BY <1>1, <2>2
<1>3. k \in Keys(req[r].row)
  BY <1>1, <1>2, ClaimedNext
<1> QED
  BY <1>1, <1>3, NotContended

\* The rows of a sheet claim nothing.
LEMMA FillsClaims ==
  ASSUME NEW r \in Req, TypeInv, Goes(r), Fills(r)
  PROVE  Claimed(r)' = {}
<1>1. RequestOK(r)' /\ Kind(r)' = Kind(r) /\ Kind(r) \in Filling
  <2>1. Placed(req[r].body.kind, req[r].todo) /\ Head(req[r].todo) = "fill"
    BY GoesOn DEF TypeInv, Fills, Fill, At
  <2> QED
    BY <2>1, FillsOK DEF TypeInv, Placed, Kind, Body, Goes
<1>2. \A x \in DOMAIN req'[r].new : Keys(req'[r].new[x]) = {}
  BY <1>1, SheetKeysNext
<1>3. Updated(r)' = {}
  BY <1>1, Kinds DEF RequestOK, Kind, Updated
<1> QED
  BY <1>2, <1>3, ClaimedNext

\* An update claims the key that its row has, until it enters a new one.
LEMMA ChangesClaims ==
  ASSUME NEW r \in Req, TypeInv, KeysInv, Alone(r), Goes(r), Changes(r), NEW k \in Claimed(r)'
  PROVE  FreeFor(r, k)
<1> DEFINE s == req'[r]
           id == Body(r).id
<1>1. /\ s.set = [x \in {id} |-> Dirty(r, Columns(r))] /\ s.new = req[r].new
      /\ id \in DOMAIN rows /\ Updatable(r, id) /\ rows' = rows
  BY DEF Changes, Alone
<1>2. RequestOK(r)' /\ req'[r].body = req[r].body /\ Running(r)'
  BY ChangesOK, GoesOn DEF TypeInv
<1>3. id \in Updated(r)' /\ Updated(r)' = {id}
  BY <1>1 DEF Updated
<1>4. DOMAIN s.new = {}
  <2>1. Kind(r) \in Updating \cup {"review_item"}
    BY <1>2, <1>3 DEF RequestOK, Updated, Kind, Body
  <2> QED
    BY <1>1, <2>1, Kinds DEF TypeInv, RequestOK, Kind, Body
<1>5. ~At(r, "unique")' /\ k \in Keys(With(rows[id], s.set[id]))
  BY <1>1, <1>3, <1>4, ClaimedNext
<1>6. "jersey" \notin DOMAIN s.set[id] /\ DOMAIN s.set[id] \cap Fixed = {}
  <2>1. /\ DOMAIN s.set[id] \cap Fixed = {}
        /\ "jersey" \in DOMAIN s.set[id] => Kind(r) = "update_player"
    BY <1>2, <1>3 DEF RequestOK, Updated, Kind, Body
  <2>2. Kind(r) # "update_player"
    <3>1. SUFFICES ASSUME Kind(r) = "update_player" PROVE FALSE
      OBVIOUS
    <3>2. Placed(Kind(r), req[r].todo)
      BY GoesOn DEF TypeInv, Kind, Body
    <3>3. Head(req[r].todo) \in {"review", "edit", "update_player", "update"}
      BY DEF Changes, Review, EditArticle, UpdatePlayer, UpdateEntry, At
    <3>4. Head(req[r].todo) = "update_player" /\ Follows(req[r].todo, "unique")
      BY <3>1, <3>2, <3>3 DEF Placed
    <3>5. s.todo = Tail(req[r].todo)
      BY <3>4 DEF Goes
    <3>6. At(r, "unique")'
      BY <1>2, <3>4, <3>5 DEF At, Follows
    <3> QED
      BY <1>5, <3>6
  <2> QED
    BY <2>1, <2>2
<1>7. k \in Keys(rows[id])
  <2>1. Whole(rows[id])
    BY <1>1 DEF TypeInv, RowsOK
  <2> QED
    BY <1>5, <1>6, <2>1, KeysSame
<1> QED
  BY <1>1, <1>3, <1>7, OwnKey

\* A deletion claims nothing more.
LEMMA RemovesClaims ==
  ASSUME NEW r \in Req, TypeInv, KeysInv, Alone(r), Goes(r), Removes(r), NEW k \in Claimed(r)'
  PROVE  FreeFor(r, k)
<1>1. req'[r].new = req[r].new /\ req'[r].set = req[r].set /\ Updated(r)' = Updated(r)
  BY DEF Removes, Updated
<1>2. Updated(r) = {}
  <2>1. /\ Placed(req[r].body.kind, req[r].todo)
        /\ Head(req[r].todo) \in {"delete", "clear", "discard"}
    BY GoesOn DEF TypeInv, Removes, Delete, Clear, Discard, At
  <2>2. req[r].body.kind \in Deleting \cup Filling \cup {"remove_favorite"}
    BY <2>1 DEF Placed
  <2>3. req[r].body.kind \notin Updating \cup {"review_item"}
    BY <2>2, Kinds DEF Updating, Deleting, Filling
  <2> QED
    BY <2>3 DEF TypeInv, RequestOK, Updated
<1>3. k \in Claimed(r)
  BY <1>1, <1>2, ClaimedNext, ClaimedIs
<1> QED
  BY <1>1, <1>3, OldClaims

\* Neither does a transaction that has ended.
LEMMA EndsClaims ==
  ASSUME NEW r \in Req, Ends(r)
  PROVE  Claimed(r)' = {}
BY ClaimedNext DEF Ends, Updated

\* Together: whatever r claims in a step is free for it.
LEMMA ClaimsTaken ==
  ASSUME NEW r \in Req, TypeInv, LocksInv, KeysInv, Outcome(r), NEW k \in Claimed(r)'
  PROVE  FreeFor(r, k)
BY EndsClaims, KeepsClaims, InsertsClaims, FillsClaims, ChangesClaims, RemovesClaims DEF Outcome

\* The other transactions keep their claims.
LEMMA OthersClaim ==
  ASSUME NEW q \in Req, req'[q] = req[q], \A z \in Updated(q) : rows'[z] = rows[z]
  PROVE  Claimed(q)' = Claimed(q) /\ Updated(q)' = Updated(q)
<1>1. Updated(q)' = Updated(q) /\ (At(q, "unique")' <=> At(q, "unique"))
  BY OthersKeep
<1>2. \A k : k \in Claimed(q)' <=> k \in Claimed(q)
  BY <1>1, ClaimedIs, ClaimedNext
<1> QED
  BY <1>1, <1>2

\* A commit: every row's keys were claimed, or were its keys before.
LEMMA CommitClaims ==
  ASSUME NEW r \in Req, TypeInv, Commits(r), NEW x \in DOMAIN rows', NEW k \in Keys(rows'[x])
  PROVE  \/ k \in Claimed(r) /\ (x \in DOMAIN req[r].new \/ x \in Updated(r))
         \/ x \in DOMAIN rows \ Updated(r) /\ k \in Keys(rows[x])
<1>1. Committed(r) /\ req[r].todo = <<>>
  BY DEF Commits
<1>2. CASE x \in DOMAIN req[r].new
  <2>1. k \in Keys(req[r].new[x])
    BY <1>1, <1>2 DEF Committed
  <2> QED
    BY <1>2, <2>1, ClaimedIs
<1>3. CASE x \in DOMAIN rows \ req[r].gone
  <2>1. CASE x \in Updated(r)
    <3>1. k \in Keys(With(rows[x], req[r].set[x])) /\ ~At(r, "unique")
      BY <1>1, <1>3, <2>1 DEF Committed, At
    <3> QED
      BY <2>1, <3>1, ClaimedIs
  <2>2. CASE x \notin Updated(r)
    BY <1>1, <1>3, <2>2 DEF Committed
  <2> QED
    BY <2>1, <2>2
<1> QED
  BY <1>1, <1>2, <1>3 DEF Committed

\* A commit leaves the keys unique.
LEMMA CommitUnique ==
  ASSUME NEW r \in Req, TypeInv, LocksInv, KeysInv, Commits(r)
  PROVE  KeysUnique'
<1> SUFFICES ASSUME NEW x \in DOMAIN rows', NEW y \in DOMAIN rows', x # y,
                    NEW k \in Keys(rows'[x]), k \in Keys(rows'[y])
             PROVE  FALSE
  BY DEF KeysUnique
<1> DEFINE Mine(z) == k \in Claimed(r) /\ (z \in DOMAIN req[r].new \/ z \in Updated(r))
           Kept(z) == z \in DOMAIN rows \ Updated(r) /\ k \in Keys(rows[z])
<1>1. (Mine(x) \/ Kept(x)) /\ (Mine(y) \/ Kept(y))
  BY CommitClaims
<1>2. CASE Kept(x) /\ Kept(y)
  BY <1>2 DEF KeysInv, KeysUnique
<1>3. CASE (Mine(x) /\ Kept(y)) \/ (Kept(x) /\ Mine(y))
  BY <1>3 DEF KeysInv
<1>4. CASE Mine(x) /\ Mine(y)
  <2>1. RequestOK(r)
    BY DEF TypeInv
  <2>2. \A z \in Updated(r) : z = Body(r).id /\ Kind(r) \in Updating \cup {"review_item"}
    BY <2>1 DEF RequestOK, Updated, Kind, Body
  <2>3. \A z \in DOMAIN req[r].new : Kind(r) \in Inserting \cup Filling
    BY <2>1 DEF RequestOK, Kind, Body
  <2>4. x \in DOMAIN req[r].new /\ y \in DOMAIN req[r].new
    BY <1>4, <2>2, <2>3, Kinds
  <2>5. k \in Keys(req[r].new[x]) /\ k \in Keys(req[r].new[y])
    BY <2>4 DEF Commits, Committed
  <2> QED
    BY <2>1, <2>4, <2>5, NewKeysApart
<1> QED
  BY <1>1, <1>2, <1>3, <1>4

\* The keys are unique at the start.
LEMMA KeysInit == Init => KeysInv
<1> SUFFICES ASSUME Init PROVE KeysInv
  OBVIOUS
<1>1. rows = Rows0 /\ \A r \in Req : req[r] = Blank
  BY DEF Init
<1>2. \A r \in Req : Updated(r) = {} /\ DOMAIN req[r].new = {}
  BY <1>1 DEF Blank, Updated
<1>3. \A r \in Req : Claimed(r) = {}
  BY <1>2, ClaimedIs
<1>4. KeysUnique
  BY <1>1, RowsAreWhole DEF KeysUnique
<1> QED
  BY <1>3, <1>4 DEF KeysInv

\* Every step keeps them so.
LEMMA KeysNext ==
  ASSUME TypeInv, LocksInv, KeysInv, [Next]_vars
  PROVE  KeysInv'
<1>1. ASSUME NEW r \in Req, Alone(r), \A k \in Claimed(r)' : FreeFor(r, k)
      PROVE  KeysInv'
  <2>1. rows' = rows /\ \A q \in Req \ {r} : Claimed(q)' = Claimed(q) /\ Updated(q)' = Updated(q)
    BY <1>1, OthersClaim DEF Alone
  <2>2. KeysUnique'
    BY <2>1 DEF KeysInv, KeysUnique
  <2>3. \A q \in Req : \A x \in DOMAIN rows' \ Updated(q)' : Keys(rows'[x]) \cap Claimed(q)' = {}
    BY <1>1, <2>1 DEF KeysInv, FreeFor
  <2>4. \A p, q \in Req : p # q => Claimed(p)' \cap Claimed(q)' = {}
    BY <1>1, <2>1 DEF KeysInv, FreeFor
  <2> QED
    BY <2>2, <2>3, <2>4 DEF KeysInv
<1>2. CASE \E r \in Req : Alone(r) /\ \E b : Starts(r, b)
  <2>1. PICK r \in Req : Alone(r) /\ \E b : Starts(r, b)
    BY <1>2
  <2>2. Claimed(r)' = {}
    BY <2>1, ClaimedNext DEF Starts, Updated
  <2> QED
    BY <1>1, <2>1, <2>2
<1>3. CASE \E r \in Req : Outcome(r)
  BY <1>1, <1>3, ClaimsTaken DEF Outcome
<1>4. CASE \E r \in Req : Commits(r)
  <2>1. PICK r \in Req : Commits(r)
    BY <1>4
  <2>2. Claimed(r)' = {}
    BY <2>1, EndsClaims DEF Commits
  <2>3. ASSUME NEW q \in Req \ {r}
        PROVE  Claimed(q)' = Claimed(q) /\ Updated(q)' = Updated(q)
    <3>1. \A z \in Updated(q) : z \in DOMAIN rows \ req[r].gone /\ z \notin Updated(r)
      BY DEF LocksInv, Locked
    <3>2. \A z \in Updated(q) : rows'[z] = rows[z]
      BY <2>1, <3>1 DEF Commits, Committed
    <3> QED
      BY <2>1, <3>2, OthersClaim DEF Commits
  <2>4. KeysUnique'
    BY <2>1, CommitUnique
  <2>5. ASSUME NEW q \in Req, NEW x \in DOMAIN rows' \ Updated(q)'
        PROVE  Keys(rows'[x]) \cap Claimed(q)' = {}
    <3>1. CASE q = r
      BY <2>2, <3>1
    <3>2. CASE q # r
      <4>1. \A k \in Keys(rows'[x]) :
              \/ k \in Claimed(r)
              \/ x \in DOMAIN rows /\ k \in Keys(rows[x])
        BY <2>1, CommitClaims
      <4>2. x \notin Updated(q) /\ Claimed(q)' = Claimed(q) /\ Claimed(r) \cap Claimed(q) = {}
        BY <2>3, <3>2 DEF KeysInv
      <4> QED
        BY <4>1, <4>2, <3>2 DEF KeysInv
    <3> QED
      BY <3>1, <3>2
  <2>6. \A p, q \in Req : p # q => Claimed(p)' \cap Claimed(q)' = {}
    BY <2>2, <2>3 DEF KeysInv
  <2> QED
    BY <2>4, <2>5, <2>6 DEF KeysInv
<1>5. CASE UNCHANGED vars
  <2>1. rows' = rows /\ req' = req
    BY <1>5 DEF vars
  <2>2. \A q \in Req : Claimed(q)' = Claimed(q) /\ Updated(q)' = Updated(q)
    BY <2>1, OthersClaim
  <2> QED
    BY <2>1, <2>2 DEF KeysInv, KeysUnique
<1> QED
  BY <1>2, <1>3, <1>4, <1>5, Steps

\* No two players of a team wear the same number and no two articles share a slug.
THEOREM RowKeysUnique == Spec => []KeysUnique
<1>1. Init => TypeInv /\ LocksInv /\ KeysInv
  BY TypeInit, LocksInit, KeysInit
<1>2. TypeInv /\ LocksInv /\ KeysInv /\ [Next]_vars => TypeInv' /\ LocksInv' /\ KeysInv'
  BY TypeNext, LocksNext, KeysNext
<1>3. KeysInv => KeysUnique
  BY DEF KeysInv
<1> QED
  BY <1>1, <1>2, <1>3, PTL DEF Spec

-----------------------------------------------------------------------------
(* References.  What a committed row refers to is there, and so is what the rows    *)
(* refer to that a transaction has inserted; nobody deletes it meanwhile.           *)

\* x is none of the rows that are still to be inserted.
Settled(x) == \A q \in Req : req[q].status = 0 => x \notin Own(q)

\* What a request deletes without looking for rows that refer to it.
Targets(r) ==
  IF At(r, "clear") THEN req[r].found
  ELSE IF At(r, "discard") THEN {Body(r).id} ELSE {}
TargetsInv ==
  \A r \in Req : \A x \in Targets(r) :
    Settled(x) /\ (x \in DOMAIN rows => rows[x].table \notin Parents)

RefsInv ==
  /\ NoOrphans
  /\ \A r \in Req : \A x \in DOMAIN req[r].new : Resolved(req[r].new[x])
  /\ \A r, q \in Req : Shared(r) \cap req[q].gone = {}
  /\ \A r \in Req : \A x \in req[r].gone :
       /\ Running(r) /\ Kind(r) \in Deleting /\ req[r].todo = <<>> => Referring(x) = {}
       /\ Kind(r) \notin Deleting => rows[x].table \notin Parents

\* An id that is settled stays so: no request starts twice.
LEMMA SettledStays ==
  ASSUME NEW x, Settled(x), \A q \in Req : req'[q].status = 0 => req[q].status = 0
  PROVE  Settled(x)'
BY DEF Settled, Own

\* The rows that are there are settled.
LEMMA RowsSettled ==
  ASSUME RowsOK, NEW x \in DOMAIN rows
  PROVE  Settled(x)
BY DEF Settled, RowsOK, Own

\* Every step does so.
LEMMA StatusStays ==
  ASSUME TypeInv, NEW r \in Req,
         \/ Alone(r) /\ \E b : Starts(r, b)
         \/ Outcome(r)
         \/ Commits(r)
  PROVE  \A q \in Req : req'[q].status = 0 => req[q].status = 0
<1>1. \A q \in Req \ {r} : req'[q] = req[q]
  BY DEF Alone, Outcome, Commits
<1>2. req[r].status = 0
  BY DEF Starts, TypeInv, RequestOK, Outcome, Ends, Goes, Commits, Running
<1> QED
  BY <1>1, <1>2

\* What r is about to delete: chosen among the rows.
LEMMA TargetsTaken ==
  ASSUME NEW r \in Req, TypeInv, Outcome(r), NEW x \in Targets(r)'
  PROVE  x \in DOMAIN rows /\ rows[x].table \notin Parents
<1> DEFINE q == req[r]
           s == req'[r]
<1>0. At(r, "clear")' \/ At(r, "discard")'
  BY DEF Targets
<1>1. Goes(r)
  BY <1>0 DEF Outcome, Ends, At, Running
<1>2. Placed(q.body.kind, q.todo) /\ s.body = q.body /\ s.todo # <<>>
      /\ Head(s.todo) \in {"clear", "discard"}
  BY <1>0, <1>1, GoesOn DEF TypeInv, At
<1>3. s.todo = Tail(q.todo)
  BY <1>1, <1>2 DEF Goes
<1>4. CASE At(r, "clear")'
  <2>1. Head(q.todo) = "aim"
    BY <1>2, <1>3, <1>4 DEF At, Placed, Follows
  <2>2. Keeps(r)
    BY <1>1, <2>1 DEF Outcome, Inserts, Insert, Fills, Fill, Changes, Review, EditArticle,
                      UpdatePlayer, UpdateEntry, Removes, Delete, Clear, Discard, At, Ends, Goes
  <2>3. s.found = Sheet(Body(r))
    BY <2>1, <2>2 DEF Keeps
  <2>4. x \in Sheet(Body(r))
    BY <1>4, <2>3 DEF Targets
  <2> QED
    BY <2>4 DEF Sheet, InSheet, Parents
<1>5. CASE ~At(r, "clear")'
  <2>1. Head(q.todo) = "own"
    BY <1>0, <1>2, <1>3, <1>5 DEF At, Placed, Follows
  <2>2. Keeps(r)
    BY <1>1, <2>1 DEF Outcome, Inserts, Insert, Fills, Fill, Changes, Review, EditArticle,
                      UpdatePlayer, UpdateEntry, Removes, Delete, Clear, Discard, At, Ends, Goes
  <2>3. x = Body(r).id
    BY <1>2, <1>5 DEF Targets, Body
  <2> QED
    BY <2>1, <2>2, <2>3 DEF Keeps, Table, Parents
<1> QED
  BY <1>4, <1>5

\* Nothing is chosen at the start.
LEMMA TargetsInit == Init => TargetsInv
<1> SUFFICES ASSUME Init PROVE TargetsInv
  OBVIOUS
<1>1. \A r \in Req : req[r].body = None
  BY DEF Init, Blank
<1> QED
  BY <1>1 DEF TargetsInv, Targets, At, Running, Idle, Body

\* A commit deletes none of the rows it leaves, and changes no table.
LEMMA TablesKept ==
  ASSUME NEW r \in Req, TypeInv, Commits(r), NEW x \in DOMAIN rows \ req[r].gone
  PROVE  /\ x \in DOMAIN rows' /\ rows'[x].table = rows[x].table
         /\ References(rows'[x]) = References(rows[x])
         /\ \A c \in References(rows[x]) : rows'[x][c] = rows[x][c]
<1>1. Committed(r)
  BY DEF Commits
<1>2. Whole(rows[x])
  BY DEF TypeInv, RowsOK
<1>3. x \in Updated(r) => DOMAIN req[r].set[x] \cap Fixed = {}
  BY DEF TypeInv, RequestOK, Updated
<1>4. /\ x \in DOMAIN rows'
      /\ rows'[x] = IF x \in Updated(r) THEN With(rows[x], req[r].set[x]) ELSE rows[x]
  BY <1>1 DEF Committed
<1> QED
  BY <1>2, <1>3, <1>4, WithKeeps

\* What is chosen stays a row that nothing may refer to, or goes.
LEMMA TargetsNext ==
  ASSUME TypeInv, TargetsInv, [Next]_vars
  PROVE  TargetsInv'
<1>1. ASSUME NEW q \in Req, req'[q] = req[q] PROVE Targets(q)' = Targets(q)
  BY <1>1, OthersKeep DEF Targets
<1>2. CASE \E r \in Req : Alone(r) /\ \E b : Starts(r, b)
  <2>1. PICK r \in Req : Alone(r) /\ \E b : Starts(r, b)
    BY <1>2
  <2>2. Targets(r)' = {}
    <3>1. PICK b : Starts(r, b)
      BY <2>1
    <3>2. Head(Handlers[b.kind]) \notin {"clear", "discard"} /\ req'[r].todo = Handlers[b.kind]
      BY <3>1, HandlerLeft DEF Starts, IsRequest
    <3> QED
      BY <3>2 DEF Targets, At
  <2>3. \A q \in Req \ {r} : Targets(q)' = Targets(q)
    BY <1>1, <2>1 DEF Alone
  <2>4. \A x : Settled(x) => Settled(x)'
    BY <2>1, StatusStays, SettledStays
  <2> QED
    BY <2>1, <2>2, <2>3, <2>4 DEF TargetsInv, Alone
<1>3. CASE \E r \in Req : Outcome(r)
  <2>1. PICK r \in Req : Outcome(r)
    BY <1>3
  <2>2. \A x \in Targets(r)' : x \in DOMAIN rows /\ rows[x].table \notin Parents
    BY <2>1, TargetsTaken
  <2>3. \A q \in Req \ {r} : Targets(q)' = Targets(q)
    BY <1>1, <2>1 DEF Alone, Outcome
  <2>4. \A x : Settled(x) => Settled(x)'
    BY <2>1, StatusStays, SettledStays
  <2>5. \A x \in DOMAIN rows : Settled(x)'
    BY <2>4, RowsSettled DEF TypeInv
  <2> QED
    BY <2>1, <2>2, <2>3, <2>4, <2>5 DEF TargetsInv, Alone, Outcome
<1>4. CASE \E r \in Req : Commits(r)
  <2>1. PICK r \in Req : Commits(r)
    BY <1>4
  <2>2. Targets(r)' = {}
    BY <2>1 DEF Commits, Ends, Targets, At, Running
  <2>3. \A q \in Req \ {r} : Targets(q)' = Targets(q)
    BY <1>1, <2>1 DEF Commits
  <2>4. ASSUME NEW x, Settled(x), x \in DOMAIN rows => rows[x].table \notin Parents
        PROVE  Settled(x)' /\ (x \in DOMAIN rows' => rows'[x].table \notin Parents)
    <3>1. Settled(x)'
      BY <2>1, <2>4, StatusStays, SettledStays
    <3>2. x \notin DOMAIN req[r].new
      BY <2>1, <2>4 DEF Settled, Commits, TypeInv, RequestOK, Own
    <3>3. x \in DOMAIN rows' => x \in DOMAIN rows \ req[r].gone
      BY <2>1, <3>2 DEF Commits, Committed
    <3> QED
      BY <2>1, <2>4, <3>1, <3>3, TablesKept
  <2> QED
    BY <2>2, <2>3, <2>4 DEF TargetsInv
<1>5. CASE UNCHANGED vars
  BY <1>5 DEF vars, TargetsInv, Targets, Settled, At, Running, Idle, Body
<1> QED
  BY <1>2, <1>3, <1>4, <1>5, Steps

\* What a resolved row refers to is in one of the tables that rows refer to.
LEMMA RefersToParents ==
  ASSUME NEW x, x.table \in DOMAIN ForeignKeys, Resolved(x), NEW y \in RefersTo(x)
  PROVE  y \in DOMAIN rows /\ rows[y].table \in Parents
<1>1. PICK c \in References(x) : y = x[c] /\ y # None
  BY DEF RefersTo
<1>2. y \in Table(ForeignKeys[x.table][c])
  BY <1>1 DEF Resolved
<1>3. ForeignKeys[x.table][c] \in Parents
  BY <1>1, ForeignColumns DEF References
<1> QED
  BY <1>2, <1>3 DEF Table

\* So it is with what a new row refers to.
LEMMA SharedParents ==
  ASSUME NEW r \in Req, TypeInv, RefsInv, NEW y \in Shared(r)
  PROVE  y \in DOMAIN rows /\ rows[y].table \in Parents
<1>1. PICK x \in DOMAIN req[r].new : y \in RefersTo(req[r].new[x])
  BY DEF Shared
<1>2. req[r].new[x].table \in DOMAIN ForeignKeys
  BY DEF TypeInv, RequestOK, Whole
<1> QED
  BY <1>1, <1>2, RefersToParents DEF RefsInv

\* When a request is ready to commit, no row refers to what it deletes.
LEMMA NobodyRefers ==
  ASSUME NEW r \in Req, TypeInv, RefsInv, Commits(r), NEW x \in DOMAIN rows
  PROVE  RefersTo(rows[x]) \cap req[r].gone = {}
<1> SUFFICES ASSUME NEW y \in RefersTo(rows[x]), y \in req[r].gone PROVE FALSE
  OBVIOUS
<1>1. rows[y].table \in Parents
  BY RefersToParents DEF RefsInv, NoOrphans, TypeInv, RowsOK, Whole
<1>2. Kind(r) \in Deleting
  BY <1>1 DEF RefsInv
<1>3. Referring(y) = {}
  BY <1>2 DEF RefsInv, Commits
<1> QED
  BY <1>3 DEF Referring

\* What a row refers to is among the rows of db.
ResolvedIn(x, db) ==
  \A c \in References(x) : x[c] # None =>
    x[c] \in DOMAIN db /\ db[x[c]].table = ForeignKeys[x.table][c]
\* That is what Resolved says of the rows there are.
LEMMA ResolvedNow == \A x : Resolved(x) <=> ResolvedIn(x, rows)
BY DEF Resolved, ResolvedIn, Table

\* The invariant of the next state, row by row.
LEMMA RefsInvNext ==
  ASSUME \A x \in DOMAIN rows' : ResolvedIn(rows'[x], rows'),
         \A r \in Req : \A x \in DOMAIN req'[r].new : ResolvedIn(req'[r].new[x], rows'),
         \A r, q \in Req : Shared(r)' \cap req'[q].gone = {},
         \A r \in Req : \A x \in req'[r].gone :
           /\ Running(r)' /\ Kind(r)' \in Deleting /\ req'[r].todo = <<>> => Referring(x)' = {}
           /\ Kind(r)' \notin Deleting => rows'[x].table \notin Parents
  PROVE  RefsInv'
<1>1. NoOrphans'
  BY DEF NoOrphans, Resolved, ResolvedIn, Table, References
<1>2. (\A r \in Req : \A x \in DOMAIN req[r].new : Resolved(req[r].new[x]))'
  BY DEF Resolved, ResolvedIn, Table, References
<1> QED
  BY <1>1, <1>2 DEF RefsInv

\* A row stays resolved as long as nothing it refers to is deleted.
LEMMA ResolvedStays ==
  ASSUME NEW r \in Req, TypeInv, Commits(r), NEW x, ResolvedIn(x, rows),
         RefersTo(x) \cap req[r].gone = {}
  PROVE  ResolvedIn(x, rows')
<1> SUFFICES ASSUME NEW c \in References(x), x[c] # None
             PROVE  x[c] \in DOMAIN rows' /\ rows'[x[c]].table = ForeignKeys[x.table][c]
  BY DEF ResolvedIn
<1>1. /\ x[c] \in DOMAIN rows /\ rows[x[c]].table = ForeignKeys[x.table][c]
      /\ x[c] \notin req[r].gone
  BY DEF ResolvedIn, RefersTo
<1> QED
  BY <1>1, TablesKept

\* The checks of the foreign keys find all that a resolved row refers to.
LEMMA ReferredAll ==
  ASSUME NEW x, Resolved(x)
  PROVE  RefersTo(x) \subseteq Referred(x)
BY DEF RefersTo, Referred, Resolved

\* What r shares in a step, nobody is deleting.
LEMMA InsertsShare ==
  ASSUME NEW r \in Req, TypeInv, RefsInv, Goes(r), Inserts(r) \/ Fills(r)
  PROVE  /\ \A x \in DOMAIN req'[r].new : Resolved(req'[r].new[x])
         /\ \A q \in Req : Shared(r)' \cap req[q].gone = {}
<1>1. Placed(req[r].body.kind, req[r].todo)
  BY GoesOn DEF TypeInv
<1>2. CASE Inserts(r)
  <2>1. /\ req'[r].new = [id \in {r} |-> req[r].row] /\ Resolved(req[r].row)
        /\ Shareable(r, RefersTo(req[r].row))
    BY <1>2, ReferredAll DEF Inserts, Shareable
  <2>2. req[r].gone = {}
    <3>1. Head(req[r].todo) = "insert"
      BY <1>2 DEF Inserts, Insert, At
    <3> QED
      BY <1>1, <3>1, Kinds DEF Placed, TypeInv, RequestOK
  <2>3. Shared(r)' = RefersTo(req[r].row)
    BY <2>1 DEF Shared, RefersTo, References
  <2> QED
    BY <2>1, <2>2, <2>3 DEF Shareable, KeyLocked
<1>3. CASE Fills(r)
  <2>1. /\ req'[r].new = Over(NextRows(r), req[r].new)
        /\ \A id \in DOMAIN NextRows(r) : Resolved(NextRows(r)[id])
        /\ Shareable(r, NextReferred(r))
    BY <1>3 DEF Fills
  <2>2. Kind(r) \in Filling
    <3>1. Head(req[r].todo) = "fill"
      BY <1>3 DEF Fills, Fill, At
    <3> QED
      BY <1>1, <3>1 DEF Placed, Kind, Body
  <2>3. \A x \in req[r].gone : rows[x].table \notin Parents
    BY <2>2, Kinds DEF RefsInv
  <2>4. /\ DOMAIN req'[r].new = DOMAIN NextRows(r) \cup DOMAIN req[r].new
        /\ \A id \in DOMAIN req[r].new \ DOMAIN NextRows(r) : req'[r].new[id] = req[r].new[id]
        /\ \A id \in DOMAIN NextRows(r) : req'[r].new[id] = NextRows(r)[id]
    BY <2>1 DEF Over
  <2>5. \A x \in DOMAIN req'[r].new : Resolved(req'[r].new[x])
    BY <2>1, <2>4 DEF RefsInv
  <2>6. \A y \in Shared(r)' : y \in Shared(r) \/ y \in NextReferred(r)
    <3>1. \A id \in DOMAIN NextRows(r) :
            RefersTo(NextRows(r)[id]) \subseteq Referred(NextRows(r)[id])
      BY <2>1, ReferredAll
    <3> QED
      BY <2>4, <3>1 DEF Shared, NextReferred, RefersTo, References
  <2>7. \A y \in Shared(r)' : y \in DOMAIN rows /\ rows[y].table \in Parents
    <3> SUFFICES ASSUME NEW y \in Shared(r)' PROVE y \in DOMAIN rows /\ rows[y].table \in Parents
      OBVIOUS
    <3>1. PICK x \in DOMAIN req'[r].new : y \in RefersTo(req'[r].new[x])
      BY DEF Shared, RefersTo, References
    <3>2. req'[r].new[x].table \in DOMAIN ForeignKeys
      BY <1>3, FillsOK DEF TypeInv, RequestOK, Whole
    <3> QED
      BY <2>5, <3>1, <3>2, RefersToParents
  <2>8. \A q \in Req \ {r} : Shared(r)' \cap req[q].gone = {}
    BY <2>1, <2>6 DEF RefsInv, Shareable, KeyLocked
  <2> QED
    BY <2>3, <2>5, <2>7, <2>8
<1> QED
  BY <1>2, <1>3

\* What r deletes in a step, nobody refers to or looks for.
LEMMA RemovesLeave ==
  ASSUME NEW r \in Req, TypeInv, TargetsInv, RefsInv, Goes(r), Removes(r), NEW x \in req'[r].gone
  PROVE  /\ \A q \in Req : x \notin Shared(q)
         /\ Kind(r) \notin Deleting => rows[x].table \notin Parents
<1>1. Placed(req[r].body.kind, req[r].todo)
  BY GoesOn DEF TypeInv
<1>2. CASE Delete(r) /\ req'[r].gone = {Body(r).id} /\ Removable(r, Body(r).id)
  <2>1. \A q \in Req \ {r} : x \notin Shared(q)
    BY <1>2 DEF Removable
  <2>2. Kind(r) \in Deleting
    BY <1>1, <1>2 DEF Delete, At, Placed, Kind, Body
  <2>3. DOMAIN req[r].new = {}
    BY <2>2, Kinds DEF TypeInv, RequestOK, Kind, Body
  <2>4. Shared(r) = {}
    BY <2>3 DEF Shared
  <2> QED
    BY <2>1, <2>2, <2>4
<1>3. CASE (Clear(r) /\ req'[r].gone = req[r].found \cap DOMAIN rows)
           \/ (Discard(r) /\ req'[r].gone = {Body(r).id} \cap DOMAIN rows)
  <2>1. x \in Targets(r) /\ x \in DOMAIN rows
    BY <1>3 DEF Clear, Discard, Targets, At
  <2>2. rows[x].table \notin Parents
    BY <2>1 DEF TargetsInv
  <2> QED
    BY <2>2, SharedParents
<1> QED
  BY <1>2, <1>3 DEF Removes

\* The references hold at the start.
LEMMA RefsInit == Init => RefsInv
<1> SUFFICES ASSUME Init PROVE RefsInv
  OBVIOUS
<1>1. rows = Rows0 /\ \A r \in Req : DOMAIN req[r].new = {} /\ req[r].gone = {}
  BY DEF Init, Blank
<1>2. NoOrphans
  <2>1. ASSUME NEW x \in DOMAIN rows, NEW c \in References(rows[x]), rows[x][c] # None
        PROVE  rows[x][c] \in Table(ForeignKeys[rows[x].table][c])
    BY <1>1, <2>1, RowsAreWhole DEF Table
  <2> QED
    BY <2>1 DEF NoOrphans, Resolved
<1>3. \A r \in Req : Shared(r) = {}
  BY <1>1 DEF Shared
<1> QED
  BY <1>1, <1>2, <1>3 DEF RefsInv

\* A step that leaves the rows alone.
LEMMA RefsAlone ==
  ASSUME NEW r \in Req, TypeInv, RefsInv, Alone(r),
         \A x \in DOMAIN req'[r].new : Resolved(req'[r].new[x]),
         \A q \in Req \ {r} : Shared(r)' \cap req[q].gone = {} /\ Shared(q) \cap req'[r].gone = {},
         Shared(r)' \cap req'[r].gone = {},
         \A x \in req'[r].gone :
           /\ Running(r)' /\ Kind(r)' \in Deleting /\ req'[r].todo = <<>> => Referring(x) = {}
           /\ Kind(r)' \notin Deleting => rows[x].table \notin Parents
  PROVE  RefsInv'
<1>1. rows' = rows /\ \A q \in Req \ {r} : req'[q] = req[q]
  BY DEF Alone
<1>2. \A x : Resolved(x) <=> ResolvedIn(x, rows')
  BY <1>1, ResolvedNow
<1>3. \A q \in Req \ {r} : /\ Shared(q)' = Shared(q) /\ Kind(q)' = Kind(q)
                           /\ Running(q)' = Running(q)
  BY <1>1, OthersKeep DEF Shared
<1>4. \A x \in DOMAIN rows' : ResolvedIn(rows'[x], rows')
  BY <1>1, <1>2 DEF NoOrphans, RefsInv
<1>5. \A q \in Req : \A x \in DOMAIN req'[q].new : ResolvedIn(req'[q].new[x], rows')
  BY <1>1, <1>2 DEF RefsInv
<1>6. \A p, q \in Req : Shared(p)' \cap req'[q].gone = {}
  BY <1>1, <1>3 DEF RefsInv
<1>7. \A q \in Req : \A x \in req'[q].gone :
        /\ Running(q)' /\ Kind(q)' \in Deleting /\ req'[q].todo = <<>> => Referring(x)' = {}
        /\ Kind(q)' \notin Deleting => rows'[x].table \notin Parents
  BY <1>1, <1>3 DEF RefsInv, Referring
<1> QED
  BY <1>4, <1>5, <1>6, <1>7, RefsInvNext

\* A statement keeps them.
LEMMA RefsOutcome ==
  ASSUME NEW r \in Req, TypeInv, TargetsInv, RefsInv, Outcome(r)
  PROVE  RefsInv'
<1> DEFINE q == req[r]
           s == req'[r]
<1>0. Alone(r) /\ rows' = rows
  BY DEF Outcome, Alone
<1>1. CASE Ends(r)
  <2>1. DOMAIN s.new = {} /\ s.gone = {} /\ Shared(r)' = {}
    BY <1>1 DEF Ends, Shared
  <2> QED
    BY <1>0, <2>1, RefsAlone
<1>2. ASSUME Goes(r)
      PROVE  /\ Placed(q.body.kind, q.todo) /\ Kind(r)' = Kind(r) /\ Kind(r) = q.body.kind
             /\ Running(r)
             /\ s.todo = <<>> /\ Kind(r) \in Deleting => Head(q.todo) = "referenced"
  <2>1. Placed(q.body.kind, q.todo) /\ q.todo # <<>> /\ Running(r)
    BY <1>2, GoesOn DEF TypeInv
  <2>2. Kind(r)' = Kind(r) /\ Kind(r) = q.body.kind
    BY <1>2 DEF Goes, Kind
  <2>3. s.todo = <<>> => Tail(q.todo) = <<>>
    BY <1>2, <2>1 DEF Goes
  <2> QED
    BY <2>1, <2>2, <2>3 DEF Placed
<1>3. CASE Goes(r) /\ Keeps(r)
  <2>1. s.new = q.new /\ s.gone = q.gone /\ Shared(r)' = Shared(r)
    BY <1>3 DEF Keeps, Holds, Writes, Shared
  <2>2. ASSUME NEW x \in s.gone
        PROVE  /\ Running(r)' /\ Kind(r)' \in Deleting /\ s.todo = <<>> => Referring(x) = {}
               /\ Kind(r)' \notin Deleting => rows[x].table \notin Parents
    <3>1. Kind(r)' \notin Deleting => rows[x].table \notin Parents
      BY <1>2, <1>3, <2>1 DEF RefsInv
    <3>2. SUFFICES ASSUME Kind(r) \in Deleting, s.todo = <<>> PROVE Referring(x) = {}
      BY <1>2, <1>3, <3>1
    <3>3. Referring(Body(r).id) = {}
      BY <1>2, <1>3, <3>2 DEF Keeps
    <3>4. x = Body(r).id
      BY <2>1, <3>2, Kinds DEF TypeInv, RequestOK, Kind, Body
    <3> QED
      BY <3>3, <3>4
  <2> QED
    BY <1>0, <2>1, <2>2, RefsAlone DEF RefsInv
<1>4. CASE Goes(r) /\ (Inserts(r) \/ Fills(r))
  <2>1. /\ \A x \in DOMAIN s.new : Resolved(s.new[x])
        /\ \A p \in Req : Shared(r)' \cap req[p].gone = {}
    BY <1>4, InsertsShare
  <2>2. s.gone = q.gone /\ Kind(r) \notin Deleting
    <3>1. Head(q.todo) \in {"insert", "fill"}
      BY <1>4 DEF Inserts, Fills, Insert, Fill, At
    <3>2. Kind(r) \in Inserting \cup Filling
      BY <1>2, <1>4, <3>1 DEF Placed
    <3> QED
      BY <1>4, <3>2, Kinds DEF Inserts, Fills
  <2> QED
    BY <1>0, <1>2, <1>4, <2>1, <2>2, RefsAlone DEF RefsInv
<1>5. CASE Goes(r) /\ Changes(r)
  <2>1. s.new = q.new /\ s.gone = q.gone /\ Shared(r)' = Shared(r)
    BY <1>5 DEF Changes, Shared
  <2>2. Kind(r) \notin Deleting
    <3>1. Head(q.todo) \in {"review", "edit", "update_player", "update"}
      BY <1>5 DEF Changes, Review, EditArticle, UpdatePlayer, UpdateEntry, At
    <3>2. Kind(r) \in Updating \cup {"review_item"}
      BY <1>2, <1>5, <3>1 DEF Placed, Updating
    <3> QED
      BY <3>2, Kinds DEF Updating, Deleting
  <2> QED
    BY <1>0, <1>2, <1>5, <2>1, <2>2, RefsAlone DEF RefsInv
<1>6. CASE Goes(r) /\ Removes(r)
  <2>1. s.new = q.new /\ Shared(r)' = Shared(r)
    BY <1>6 DEF Removes, Shared
  <2>2. \A x \in s.gone : /\ \A p \in Req : x \notin Shared(p)
                          /\ Kind(r) \notin Deleting => rows[x].table \notin Parents
    BY <1>6, RemovesLeave
  <2>3. Kind(r) \in Deleting => s.todo # <<>>
    <3>1. Head(q.todo) \in {"delete", "clear", "discard"}
      BY <1>6 DEF Removes, Delete, Clear, Discard, At
    <3> QED
      BY <1>2, <1>6, <3>1
  <2> QED
    BY <1>0, <1>2, <1>6, <2>1, <2>2, <2>3, RefsAlone DEF RefsInv
<1> QED
  BY <1>1, <1>3, <1>4, <1>5, <1>6 DEF Outcome

\* A commit keeps them.
LEMMA RefsCommit ==
  ASSUME NEW r \in Req, TypeInv, LocksInv, RefsInv, Commits(r)
  PROVE  RefsInv'
<1>1. Committed(r) /\ \A q \in Req \ {r} : req'[q] = req[q]
  BY DEF Commits
<1>2. /\ DOMAIN req'[r].new = {} /\ req'[r].gone = {} /\ Shared(r)' = {}
  BY DEF Commits, Ends, Shared
<1>3. \A q \in Req \ {r} : /\ Shared(q)' = Shared(q) /\ Kind(q)' = Kind(q)
                           /\ Running(q)' = Running(q)
  BY <1>1, OthersKeep DEF Shared
<1>4. ASSUME NEW x \in DOMAIN rows \ req[r].gone
      PROVE  /\ x \in DOMAIN rows' /\ rows'[x].table = rows[x].table
             /\ References(rows'[x]) = References(rows[x])
             /\ \A c \in References(rows[x]) : rows'[x][c] = rows[x][c]
             /\ RefersTo(rows'[x]) = RefersTo(rows[x])
  <2>1. /\ x \in DOMAIN rows' /\ rows'[x].table = rows[x].table
        /\ References(rows'[x]) = References(rows[x])
        /\ \A c \in References(rows[x]) : rows'[x][c] = rows[x][c]
    BY TablesKept
  <2>2. RefersTo(rows'[x]) = RefersTo(rows[x])
    BY <2>1 DEF RefersTo
  <2> QED
    BY <2>1, <2>2
<1>5. ASSUME NEW x \in DOMAIN rows' PROVE ResolvedIn(rows'[x], rows')
  <2>1. CASE x \in DOMAIN req[r].new
    <3>1. rows'[x] = req[r].new[x]
      BY <1>1, <2>1 DEF Committed
    <3>2. ResolvedIn(req[r].new[x], rows) /\ RefersTo(req[r].new[x]) \cap req[r].gone = {}
      BY <2>1, ResolvedNow DEF RefsInv, Shared
    <3> QED
      BY <3>1, <3>2, ResolvedStays
  <2>2. CASE x \in DOMAIN rows \ req[r].gone
    <3>1. ResolvedIn(rows[x], rows) /\ RefersTo(rows[x]) \cap req[r].gone = {}
      BY <2>2, NobodyRefers, ResolvedNow DEF RefsInv, NoOrphans
    <3>2. ResolvedIn(rows'[x], rows) /\ RefersTo(rows'[x]) \cap req[r].gone = {}
      BY <1>4, <2>2, <3>1 DEF ResolvedIn, References
    <3> QED
      BY <3>2, ResolvedStays
  <2> QED
    BY <1>1, <2>1, <2>2 DEF Committed
<1>6. ASSUME NEW q \in Req, NEW x \in DOMAIN req'[q].new
      PROVE  ResolvedIn(req'[q].new[x], rows')
  <2>1. q # r /\ req'[q] = req[q]
    BY <1>1, <1>2, <1>6
  <2>2. ResolvedIn(req[q].new[x], rows) /\ RefersTo(req[q].new[x]) \cap req[r].gone = {}
    BY <1>6, <2>1, ResolvedNow DEF RefsInv, Shared
  <2> QED
    BY <2>1, <2>2, ResolvedStays
<1>7. \A p, q \in Req : Shared(p)' \cap req'[q].gone = {}
  BY <1>1, <1>2, <1>3 DEF RefsInv
<1>8. ASSUME NEW q \in Req, NEW x \in req'[q].gone
      PROVE  /\ Running(q)' /\ Kind(q)' \in Deleting /\ req'[q].todo = <<>> => Referring(x)' = {}
             /\ Kind(q)' \notin Deleting => rows'[x].table \notin Parents
  <2>1. q # r /\ req'[q] = req[q] /\ x \in req[q].gone
    BY <1>1, <1>2, <1>8
  <2>2. x \in DOMAIN rows \ req[r].gone
    BY <2>1 DEF LocksInv, Locked
  <2>3. Kind(q)' \notin Deleting => rows'[x].table \notin Parents
    BY <1>3, <1>4, <2>1, <2>2 DEF RefsInv
  <2>4. ASSUME Referring(x) = {}, NEW y \in DOMAIN rows', x \in RefersTo(rows'[y]) PROVE FALSE
    <3>1. CASE y \in DOMAIN req[r].new
      <4>1. x \in RefersTo(req[r].new[y])
        BY <1>1, <2>4, <3>1 DEF Committed
      <4> QED
        BY <2>1, <3>1, <4>1 DEF RefsInv, Shared
    <3>2. CASE y \in DOMAIN rows \ req[r].gone
      BY <1>4, <2>4, <3>2 DEF Referring
    <3> QED
      BY <1>1, <2>4, <3>1, <3>2 DEF Committed
  <2>5. Referring(x) = {} => Referring(x)' = {}
    BY <2>4 DEF Referring, RefersTo, References
  <2> QED
    BY <1>3, <2>1, <2>3, <2>5 DEF RefsInv
<1> QED
  BY <1>5, <1>6, <1>7, <1>8, RefsInvNext

\* Every step keeps them.
LEMMA RefsNext ==
  ASSUME TypeInv, LocksInv, TargetsInv, RefsInv, [Next]_vars
  PROVE  RefsInv'
<1>1. CASE \E r \in Req : Alone(r) /\ \E b : Starts(r, b)
  <2>1. PICK r \in Req : Alone(r) /\ \E b : Starts(r, b)
    BY <1>1
  <2>2. DOMAIN req'[r].new = {} /\ req'[r].gone = {} /\ Shared(r)' = {}
    BY <2>1 DEF Starts, Shared
  <2> QED
    BY <2>1, <2>2, RefsAlone
<1>2. CASE \E r \in Req : Outcome(r)
  BY <1>2, RefsOutcome
<1>3. CASE \E r \in Req : Commits(r)
  BY <1>3, RefsCommit
<1>4. CASE UNCHANGED vars
  <2>1. rows' = rows /\ req' = req
    BY <1>4 DEF vars
  <2>2. \A q \in Req : /\ Shared(q)' = Shared(q) /\ Kind(q)' = Kind(q) /\ Running(q)' = Running(q)
    BY <2>1, OthersKeep DEF Shared
  <2>3. \A x : Referring(x)' = Referring(x)
    BY <2>1 DEF Referring
  <2>4. /\ \A x \in DOMAIN rows' : ResolvedIn(rows'[x], rows')
        /\ \A r \in Req : \A x \in DOMAIN req'[r].new : ResolvedIn(req'[r].new[x], rows')
    BY <2>1, ResolvedNow DEF RefsInv, NoOrphans
  <2> QED
    BY <2>1, <2>2, <2>3, <2>4, RefsInvNext DEF RefsInv
<1> QED
  BY <1>1, <1>2, <1>3, <1>4, Steps

\* What a committed row refers to is there.
THEOREM NoRowIsOrphaned == Spec => []NoOrphans
<1>1. Init => TypeInv /\ LocksInv /\ TargetsInv /\ RefsInv
  BY TypeInit, LocksInit, TargetsInit, RefsInit
<1>2. TypeInv /\ LocksInv /\ TargetsInv /\ RefsInv /\ [Next]_vars
        => TypeInv' /\ LocksInv' /\ TargetsInv' /\ RefsInv'
  BY TypeNext, LocksNext, TargetsNext, RefsNext
<1>3. RefsInv => NoOrphans
  BY DEF RefsInv
<1> QED
  BY <1>1, <1>2, <1>3, PTL DEF Spec
=============================================================================
