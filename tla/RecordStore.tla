----------------------------- MODULE RecordStore ------------------------------
(***************************************************************************)
(* What the back office promises its clients, with no statements, locks or *)
(* transactions: a request is asked, may look once, and is answered once;  *)
(* with a success it takes its effect at that instant, whole, on its own   *)
(* rows alone, and with any other answer it has none.  An update writes    *)
(* what differs from the row it looked at; it is NOT promised that the row *)
(* is still so.  A request gives its name to the row that it inserts, to   *)
(* the suffix of a slug and to the instant at which it reads the clock.    *)
(***************************************************************************)
EXTENDS Integers, Sequences

CONSTANTS
  Req, None, Rows0,
  Bodies,      \* what may be asked for
  Inserting, Updating, Deleting, Filling   \* the kinds of requests, by what they do

VARIABLES
  rows,        \* the rows of all tables, by id
  asked,       \* the body of each request, or None
  seen,        \* the sheet that it found, or the row that it looked at
  answer       \* 0 until it is answered

vars == <<rows, asked, seen, answer>>

Init ==
  /\ rows = Rows0
  /\ asked = [r \in Req |-> None]
  /\ seen = [r \in Req |-> {}]
  /\ answer = [r \in Req |-> 0]

Open(r) == asked[r] # None /\ answer[r] = 0

\* The rows of the match and the team of b, of the sheet that b replaces.
OfSheet(x, b) == x.table = b.sheet /\ x.match = b.id /\ x.team = b.team
Sheet(b) == {x \in DOMAIN rows : OfSheet(rows[x], b)}

Ask(r) ==
  /\ asked[r] = None
  /\ LET b == asked'[r] IN
     /\ b \in Bodies
     /\ asked' = [asked EXCEPT ![r] = b]
     /\ seen' = [seen EXCEPT ![r] = IF b.kind \in Filling THEN Sheet(b) ELSE {}]
  /\ UNCHANGED <<rows, answer>>

Look(r) ==
  LET b == asked[r] IN
  /\ Open(r) /\ b.kind \in Updating \cup {"review_item"} /\ seen[r] = {}
  /\ b.id \in DOMAIN rows /\ rows[b.id].table = b.table
  /\ seen' = [seen EXCEPT ![r] = {rows[b.id]}]
  /\ UNCHANGED <<rows, asked, answer>>

Reply(r, code) ==
  /\ Open(r)
  /\ answer' = [answer EXCEPT ![r] = code]
  /\ seen' = [seen EXCEPT ![r] = {}]
  /\ UNCHANGED asked

Refuse(r) == (\E code \in {400, 404, 409, 499, 500} : Reply(r, code)) /\ UNCHANGED rows

-----------------------------------------------------------------------------
\* No row appears, changes or disappears but those.
Only(ids) ==
  \A x \in (DOMAIN rows \cup DOMAIN rows') \ ids :
    x \in DOMAIN rows \cap DOMAIN rows' /\ rows'[x] = rows[x]

\* The new row is the one asked for; the slug of an article may have got a suffix.
Create(r) ==
  LET b == asked[r] IN
  /\ b.kind \in Inserting
  /\ r \in DOMAIN rows' \ DOMAIN rows /\ Only({r})
  /\ IF b.kind = "create_article"
     THEN \E slug \in {b.row.slug, Append(b.row.slug, r)} : rows'[r] = [b.row EXCEPT !.slug = slug]
     ELSE rows'[r] = b.row

\* What an update assigns: what was asked for and, when it publishes an article, the time.
Publishes(b) ==
  b.kind = "update_article" /\ "status" \in DOMAIN b.columns /\ b.columns.status = "published"
Assigned(r) ==
  LET b == asked[r] IN
  CASE b.kind = "review_item" ->
         [status |-> b.status, reviewer |-> b.reviewer, reviewed_at |-> r]
    [] b.kind # "review_item" /\ Publishes(b) ->
         [c \in DOMAIN b.columns \cup {"published_at"} |->
            IF c = "published_at" THEN r ELSE b.columns[c]]
    [] OTHER -> b.columns
\* Those columns that differ from the row that r looked at are set in the row as it is
\* now, if it is there.
Set(r) ==
  LET b == asked[r]  id == b.id IN
  /\ b.kind \in Updating \cup {"review_item"}
  /\ Only({id}) /\ (id \in DOMAIN rows' <=> id \in DOMAIN rows)
  /\ \E loaded \in seen[r] : id \in DOMAIN rows =>
       /\ DOMAIN rows'[id] = DOMAIN rows[id]
       /\ \A c \in DOMAIN rows[id] :
            rows'[id][c] = IF c \in DOMAIN Assigned(r) /\ Assigned(r)[c] # loaded[c]
                           THEN Assigned(r)[c] ELSE rows[id][c]

Delete(r) ==
  LET b == asked[r] IN
  /\ b.kind \in Deleting
  /\ b.id \in DOMAIN rows \ DOMAIN rows' /\ Only({b.id})
  /\ rows[b.id].table = b.table

\* A favourite is its user's; that it is gone already is no error.
Discard(r) ==
  LET b == asked[r] IN
  /\ b.kind = "remove_favorite"
  /\ b.id \notin DOMAIN rows' /\ Only({b.id})
  /\ b.id \in DOMAIN rows => rows[b.id].table = "favorites" /\ rows[b.id].user = b.user

\* What is left of the sheet that r found is gone, with or without what others have put
\* there since, and every item of r has its row.
Replace(r) ==
  LET b == asked[r]  items == 1 .. Len(b.items) IN
  /\ b.kind \in Filling
  /\ {r} \X items \subseteq DOMAIN rows' \ DOMAIN rows
  /\ \A i \in items :
       LET x == rows'[<<r, i>>] IN OfSheet(x, b) /\ b.items[i] \in {x[c] : c \in DOMAIN x}
  /\ \E old \in SUBSET Sheet(b) :
       /\ seen[r] \cap DOMAIN rows \subseteq old /\ old \cap DOMAIN rows' = {}
       /\ Only(old \cup {r} \X items)

Read(r) == asked[r].kind = "get_standings" /\ UNCHANGED rows

Accept(r) ==
  /\ Reply(r, 200)
  /\ Create(r) \/ Set(r) \/ Delete(r) \/ Discard(r) \/ Replace(r) \/ Read(r)

Next == \E r \in Req : Ask(r) \/ Look(r) \/ Refuse(r) \/ Accept(r)

Spec == Init /\ [][Next]_vars
=============================================================================
