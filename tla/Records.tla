------------------------------- MODULE Records -------------------------------
(***************************************************************************)
(* The tables of the back office and the statements that the handlers of  *)
(* their routers run on them: BaseRepository over SQLAlchemy's session     *)
(* over PostgreSQL at READ COMMITTED.  A handler is a sequence of          *)
(* statements; one action is one statement, with the code up to the next.  *)
(* A statement sees what is committed when it starts.  What a transaction  *)
(* inserts, changes and deletes is kept apart until get_db commits.        *)
(*   - UPDATE and DELETE wait for the other writers of their row, and find *)
(*     it changed or gone.                                                 *)
(*   - An insert shares the rows its foreign keys name, against deletion   *)
(*     and against changes of a key, until the transaction ends.           *)
(*   - DELETE first takes its row, and then looks for rows that refer to   *)
(*     it; it waits for those that another transaction is deleting.        *)
(*   - An insert or a change of a unique key waits for transactions that   *)
(*     take or give up that key.                                           *)
(* The users are a constant: no endpoint deletes one, and Accounts models  *)
(* them.  A definition f_suffix just before f is a mistake in f that no    *)
(* specification uses (see PROJECT.json).                                  *)
(***************************************************************************)
EXTENDS Integers, Sequences, FiniteSets

CONSTANTS
  Req,     \* the requests, each sent at most once
  None,    \* SQL NULL, an optional field left out
  Rows0    \* the rows that earlier requests have left

\* A request names the rows it inserts: the one row r, the rows of a sheet <<r, 1>> on.
ASSUME IdsAreApart ==
  /\ None \notin Req \cup Req \X Nat \cup DOMAIN Rows0
  /\ Req \cap (Req \X Nat) = {} /\ DOMAIN Rows0 \cap (Req \cup Req \X Nat) = {}

VARIABLES
  rows,    \* the committed rows of all tables, by id
  req      \* the requests

vars == <<rows, req>>

\* The columns of each table that hold a foreign key (to users left out), with the
\* tables they refer to.
ForeignKeys ==
  [competitions |-> <<>>, seasons |-> [competition |-> "competitions"],
   stages |-> [season |-> "seasons"], groups |-> [stage |-> "stages"],
   teams |-> <<>>, players |-> [team |-> "teams"],
   matches |-> [stage |-> "stages", group |-> "groups", home |-> "teams", away |-> "teams"],
   lineup_entries |-> [match |-> "matches", team |-> "teams", player |-> "players"],
   match_events |-> [match |-> "matches", team |-> "teams", player |-> "players",
                     assist |-> "players"],
   match_statistics |-> [match |-> "matches", team |-> "teams"],
   articles |-> <<>>, moderation_items |-> <<>>, favorites |-> <<>>]
References(x) == DOMAIN ForeignKeys[x.table]

RefersTo_parent_only(x) ==
  {x[c] : c \in References(x) \ {"player", "assist", "home", "away", "group"}} \ {None}
RefersTo(x) == {x[c] : c \in References(x)} \ {None}

\* uq_players_team_jersey, which lets any number of players go without, and the
\* slug of an article.
Keys(x) ==
  CASE x.table = "players" /\ x.jersey # None -> {<<x.table, x.team, x.jersey>>}
    [] x.table = "articles" -> {<<x.table, x.slug>>}
    [] OTHER -> {}
KeyColumns == {"jersey"}       \* those among them that some UPDATE changes

\* A row has the columns that the handlers and the properties read.
Whole(x) ==
  /\ x.table \in DOMAIN ForeignKeys
  /\ {"table"} \cup References(x) \subseteq DOMAIN x
  /\ x.table = "players" => "jersey" \in DOMAIN x
  /\ x.table = "articles" => "slug" \in DOMAIN x
  /\ x.table = "matches" => "kickoff" \in DOMAIN x
  /\ x.table = "seasons" => "active" \in DOMAIN x
  /\ x.table = "moderation_items" => {"status", "reviewer", "reviewed_at"} \subseteq DOMAIN x

\* What earlier requests left keeps the constraints of the tables.
ASSUME RowsAreWhole ==
  /\ IsFiniteSet(DOMAIN Rows0)
  /\ \A id \in DOMAIN Rows0 :
       LET x == Rows0[id] IN
       /\ Whole(x)
       /\ \A c \in References(x) : x[c] # None =>
            x[c] \in DOMAIN Rows0 /\ Rows0[x[c]].table = ForeignKeys[x.table][c]
  /\ \A x, y \in DOMAIN Rows0 : x # y => Keys(Rows0[x]) \cap Keys(Rows0[y]) = {}

Table(t) == {x \in DOMAIN rows : rows[x].table = t}
Resolved(x) ==
  \A c \in References(x) : x[c] # None => x[c] \in Table(ForeignKeys[x.table][c])
\* The rows that the checks of x's foreign keys find, to share them.
Referred(x) == {x[c] : c \in {d \in References(x) : x[d] \in Table(ForeignKeys[x.table][d])}}
\* f with what g holds written over it.
Over(g, f) == [x \in DOMAIN g \cup DOMAIN f |-> IF x \in DOMAIN g THEN g[x] ELSE f[x]]
With(x, columns) == [c \in DOMAIN x |-> IF c \in DOMAIN columns THEN columns[c] ELSE x[c]]

-----------------------------------------------------------------------------
\* todo: the statements still to run; row: what the handler loaded or is about to
\* insert; found: what a query returned; new, set, gone: the rows the open
\* transaction has inserted, the columns it has changed, the rows it has deleted;
\* before (history): what was there when the request arrived.
Blank == [body |-> None, status |-> 0, todo |-> <<>>, row |-> None, found |-> {},
          new |-> <<>>, set |-> <<>>, gone |-> {}, before |-> {}]

Body(r) == req[r].body
Kind(r) == req[r].body.kind
Idle(r) == Body(r) = None
Running(r) == ~Idle(r) /\ req[r].status = 0
At(r, statement) == Running(r) /\ req[r].todo # <<>> /\ Head(req[r].todo) = statement

\* The transaction ends, and its locks with it.
Answer(r, code) == req' = [req EXCEPT ![r] = [Blank EXCEPT !.body = Body(r), !.status = code]]
Proceed(r) == req' = [req EXCEPT ![r].todo = Tail(@)]

IntegrityViolation == 409      \* integrity_error_handler
InternalError == 500
Lost == 499                    \* an end that is not the handler's doing

-----------------------------------------------------------------------------
\* Locks of the other transactions.
Updated(q) == DOMAIN req[q].set
KeyLocked(q) ==
  req[q].gone \cup {x \in Updated(q) : DOMAIN req[q].set[x] \cap KeyColumns # {}}
Shared(q) == UNION {RefersTo(req[q].new[x]) : x \in DOMAIN req[q].new}

Shareable_exclusive(r, ids) ==
  \A q \in Req \ {r} : ids \cap (KeyLocked(q) \cup (Shared(q) \cap Table("players"))) = {}
Shareable(r, ids) == \A q \in Req \ {r} : ids \cap KeyLocked(q) = {}
Updatable(r, x) == \A q \in Req \ {r} : x \notin Updated(q) \cup req[q].gone
Removable(r, x) == Updatable(r, x) /\ \A q \in Req \ {r} : x \notin Shared(q)

\* Keys that another transaction takes (once it has passed the test) or gives up.
Claimed(q) ==
  (UNION {Keys(req[q].new[x]) : x \in DOMAIN req[q].new})
    \cup (IF At(q, "unique") THEN {}
          ELSE UNION {Keys(With(rows[x], req[q].set[x])) : x \in Updated(q)})
Vacated(q) == UNION {Keys(rows[x]) : x \in Updated(q) \cup req[q].gone}
Contended(r, keys) == \E q \in Req \ {r} : keys \cap (Claimed(q) \cup Vacated(q)) # {}
Taken_by_check_only(r, keys) == FALSE
Taken(r, keys) == \E x \in DOMAIN rows \ Updated(r) : Keys(rows[x]) \cap keys # {}

-----------------------------------------------------------------------------
\* BaseRepository.get of the row that the path names.
Get(r) ==
  /\ At(r, "get")
  /\ IF Body(r).id \notin Table(Body(r).table) THEN Answer(r, 404)
     ELSE req' = [req EXCEPT ![r].todo = Tail(@), ![r].row = rows[Body(r).id]]
  /\ UNCHANGED rows

\* BaseRepository.create: the row gets the id of its request.
Insert(r) ==
  /\ At(r, "insert")
  /\ LET x == req[r].row IN
     /\ ~Contended(r, Keys(x))
     /\ IF Taken(r, Keys(x)) THEN Answer(r, IntegrityViolation)
        ELSE /\ Shareable(r, Referred(x))
             /\ IF Resolved(x)
                THEN req' = [req EXCEPT ![r].todo = Tail(@), ![r].new = [id \in {r} |-> x]]
                ELSE Answer(r, IntegrityViolation)
  /\ UNCHANGED rows

\* BaseRepository.update with these columns, after the row was loaded: the UPDATE
\* sets those that differ from the loaded ones, or is left out; a row that is gone
\* by then is an error either way (StaleDataError, a failing refresh).
Dirty_whole_row(r, columns) == With(req[r].row, columns)
Dirty(r, columns) ==
  [c \in {d \in DOMAIN columns : columns[d] # req[r].row[d]} |-> columns[c]]
Change(r, columns) ==
  LET id == Body(r).id  changes == Dirty(r, columns) IN
  /\ \/ id \notin DOMAIN rows /\ Answer(r, InternalError)
     \/ id \in DOMAIN rows /\ DOMAIN changes = {} /\ Proceed(r)
     \/ /\ id \in DOMAIN rows /\ DOMAIN changes # {}
        /\ IF DOMAIN changes \cap KeyColumns = {} THEN Updatable(r, id) ELSE Removable(r, id)
        /\ req' = [req EXCEPT ![r].todo = Tail(@), ![r].set = [x \in {id} |-> changes]]
  /\ UNCHANGED rows

\* The UPDATE enters the new key in the unique index.
NewKeys(r) == UNION {Keys(With(rows[x], req[r].set[x])) \ Keys(rows[x]) : x \in Updated(r)}
EnterKey(r) ==
  /\ At(r, "unique")
  /\ ~Contended(r, NewKeys(r))
  /\ IF Taken(r, NewKeys(r)) THEN Answer(r, IntegrityViolation) ELSE Proceed(r)
  /\ UNCHANGED rows

\* BaseRepository.delete: a DELETE by id, which passes by the cascades that the
\* models declare.
Delete(r) ==
  /\ At(r, "delete")
  /\ LET id == Body(r).id IN
     /\ Removable(r, id)
     /\ IF id \notin Table(Body(r).table) THEN Answer(r, 404)
        ELSE req' = [req EXCEPT ![r].todo = Tail(@), ![r].gone = {id}]
  /\ UNCHANGED rows

\* The end of the DELETE: rows that refer to the one it takes.
Referring(x) == {y \in DOMAIN rows : x \in RefersTo(rows[y])}
LetGo(r) ==
  /\ At(r, "referenced")
  /\ LET referring == Referring(Body(r).id)
         leaving == UNION {req[q].gone : q \in Req \ {r}} IN
     \/ referring = {} /\ Proceed(r)
     \/ ~(referring \subseteq leaving) /\ Answer(r, IntegrityViolation)
  /\ UNCHANGED rows

-----------------------------------------------------------------------------
\* get_db commits when the handler has returned.
Commit(r) ==
  /\ Running(r) /\ req[r].todo = <<>>
  /\ rows' = Over(req[r].new,
                  [x \in DOMAIN rows \ req[r].gone |->
                     IF x \in Updated(r) THEN With(rows[x], req[r].set[x]) ELSE rows[x]])
  /\ Answer(r, 200)

\* The connection is lost, the task is cancelled, PostgreSQL breaks a deadlock:
\* everything is rolled back.
Abort(r) ==
  /\ Running(r)
  /\ Answer(r, Lost)
  /\ UNCHANGED rows

\* The statements that the handlers of several routers share.
Statement(r) == Get(r) \/ Insert(r) \/ EnterKey(r) \/ Delete(r) \/ LetGo(r) \/ Commit(r)
=============================================================================
