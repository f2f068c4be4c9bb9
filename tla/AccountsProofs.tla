---------------------------- MODULE AccountsProofs ----------------------------
(***************************************************************************)
(* What the runs check of Accounts on three requests, proved for every set *)
(* of requests, bodies, limits and earlier rows.                           *)
(***************************************************************************)
EXTENDS Accounts, FiniteSetTheorems, TLAPS

Fields == {"pc", "body", "passed", "status", "todo", "user", "row", "write",
           "stored", "revoke", "new", "held"}
Writing == {"issue", "consume", "commit"}
Updating == {"update_me", "update_user", "reset", "google"}

\* The row that a request writes at its end is committed, or it is its own new one,
\* or it is a refresh, which writes none.
HasRow(r) ==
  \/ req[r].user \in DOMAIN users
  \/ req[r].user = r /\ DOMAIN req[r].write = Columns
  \/ req[r].body.kind = "refresh" /\ req[r].write = <<>>

\* What the fields of a request hold at each place of its handler.
RequestOK(r) ==
  LET q == req[r] IN
  /\ DOMAIN q = Fields
  /\ DOMAIN q.write \subseteq Columns
  /\ q.pc # "idle" => q.body.kind \in DOMAIN FirstStep
  /\ q.pc \notin Writing => q.write = <<>>
  /\ q.pc \notin {"issue", "commit"} => q.revoke = None
  /\ q.pc # "commit" => q.new = None
  /\ q.pc # "done" => q.status = 0
  /\ q.pc = "auth" => q.body.caller \in DOMAIN users
  /\ q.pc = "check" /\ q.body.kind = "update_me" => q.user \in DOMAIN users
  /\ q.pc = "load" => q.body.kind \in {"update_user", "reset"}
  /\ q.pc \in {"update", "consume"} => q.user \in DOMAIN users /\ q.body.kind \in Updating
  /\ q.pc = "consume" => q.body.kind = "reset"
  /\ q.pc = "insert" =>
       DOMAIN q.row = Columns /\ q.body.kind \in {"register", "create_staff", "google"}
  /\ q.pc = "issue" => q.body.kind # "reset"
  /\ q.pc = "name" => q.body.kind = "google"
  /\ q.pc = "revoke" => q.body.kind = "refresh"
  /\ q.pc \in {"issue", "commit"} => HasRow(r)
  /\ q.pc \in {"revoke", "issue", "commit"} /\ q.body.kind = "refresh" =>
       q.body.token.user \in DOMAIN users
  /\ q.pc = "commit" /\ q.new # None =>
       /\ q.new.at \in 0 .. now
       /\ q.new.user \in DOMAIN users \/ (q.new.user = q.user /\ DOMAIN q.write = Columns)

\* Rows are whole and refer to rows; an account of a request's own is there only
\* when the request has ended.
RowsOK ==
  /\ now \in Nat /\ life \in Nat
  /\ DOMAIN req = Req /\ DOMAIN hits = DOMAIN Limit
  /\ \A u \in DOMAIN users : DOMAIN users[u] = Columns
  /\ \A t \in DOMAIN tokens : /\ DOMAIN tokens[t] = {"hash", "revoked"}
                              /\ tokens[t].hash.at \in 0 .. now
                              /\ tokens[t].hash.user \in DOMAIN users
  /\ \A p \in DOMAIN hits : \A q \in DOMAIN hits[p] : hits[p][q] \in 0 .. now
  /\ \A x \in DOMAIN resets : resets[x].user \in DOMAIN users
  /\ \A r \in Req \cap DOMAIN users : req[r].pc = "done"

TypeInv == RowsOK /\ \A r \in Req : RequestOK(r)

-----------------------------------------------------------------------------
\* Nothing but request r changes, of the requests and of what is committed.
Alone(r) ==
  /\ DOMAIN req' = Req /\ \A q \in Req \ {r} : req'[q] = req[q]
  /\ UNCHANGED <<now, life, users, tokens>>

\* What a step of its handler, its commit apart, changes of a request: it ends without
\* success, or goes on.
Advances(r) ==
  LET q == req[r]  s == req'[r] IN
  /\ s.body = q.body /\ s.passed = q.passed /\ s.pc # "idle"
  /\ \/ s.pc = "done" /\ s.write = <<>> /\ (s.status = 200 => Forgot(r))
     \/ /\ s.held = q.held /\ s.status = q.status /\ s.pc # "done" /\ q.pc # "idle"
        /\ s.user = q.user \/ q.pc \in {"auth", "read"} \/ Insert(r)
        /\ s.stored = q.stored \/ q.pc = "read"
        /\ s.write = q.write \/ Insert(r) \/ Update(r)
        /\ s.pc = "commit" /\ q.body.kind = "reset" => Consume(r)

\* Set changes the fields it is given, of that request.
LEMMA SetFields ==
  ASSUME NEW r \in Req, NEW f, DOMAIN f \subseteq Fields, DOMAIN req = Req, Set(r, f)
  PROVE  /\ DOMAIN req' = Req
         /\ \A q \in Req \ {r} : req'[q] = req[q]
         /\ DOMAIN req'[r] = Fields
         /\ \A x \in DOMAIN f : req'[r][x] = f[x]
         /\ \A x \in Fields \ DOMAIN f : req'[r][x] = req[r][x]
BY DEF Set, Blank, Fields

\* An answer without success leaves a request that has written nothing.
LEMMA RefuseFields ==
  ASSUME NEW r \in Req, NEW code, DOMAIN req = Req, Refuse(r, code)
  PROVE  /\ DOMAIN req' = Req
         /\ \A q \in Req \ {r} : req'[q] = req[q]
         /\ DOMAIN req'[r] = Fields
         /\ req'[r].pc = "done" /\ req'[r].body = req[r].body /\ req'[r].passed = req[r].passed
         /\ req'[r].status = code /\ req'[r].write = <<>>
         /\ req'[r].new = None /\ req'[r].revoke = None /\ req'[r].held = {}
BY DEF Refuse, Refused, Blank, Body, Fields

\* A request that has ended keeps its type.
LEMMA DoneOK ==
  ASSUME NEW r \in Req, DOMAIN req'[r] = Fields, req'[r].pc = "done", req'[r].write = <<>>,
         req'[r].revoke = None, req'[r].new = None, req'[r].body.kind \in DOMAIN FirstStep
  PROVE  RequestOK(r)'
<1>1. DOMAIN req'[r].write = {}
  OBVIOUS
<1> QED
  BY <1>1 DEF RequestOK, Writing

\* A refused request keeps its type, and nothing else moves.
LEMMA RefusedOK ==
  ASSUME NEW r \in Req, NEW code, DOMAIN req = Req, RequestOK(r), req[r].pc # "idle",
         Refuse(r, code)
  PROVE  /\ RequestOK(r)'
         /\ DOMAIN req' = Req /\ \A q \in Req \ {r} : req'[q] = req[q]
         /\ code # 200 \/ Forgot(r) => Advances(r)
<1>1. req[r].body.kind \in DOMAIN FirstStep
  BY DEF RequestOK
<1> QED
  BY <1>1, RefuseFields, DoneOK DEF Advances

\* The other requests keep their type while accounts are added and time passes.
LEMMA KeptOK ==
  ASSUME NEW r \in Req, RequestOK(r), DOMAIN users \subseteq DOMAIN users',
         now \in Nat, now' \in Nat, now <= now',
         DOMAIN req'[r] = Fields, \A x \in Fields \ {"held"} : req'[r][x] = req[r][x]
  PROVE  RequestOK(r)'
<1>1. /\ req'[r].pc = req[r].pc /\ req'[r].body = req[r].body /\ req'[r].user = req[r].user
      /\ req'[r].status = req[r].status
      /\ req'[r].row = req[r].row /\ req'[r].write = req[r].write /\ req'[r].new = req[r].new
      /\ req'[r].revoke = req[r].revoke
  BY DEF Fields
<1> QED
  BY <1>1 DEF RequestOK, HasRow

\* The columns that BaseRepository.update sets are columns of the row.
LEMMA AssignedColumns ==
  ASSUME NEW b, b.kind \in Updating
  PROVE  DOMAIN Assigned(b) \subseteq Columns
BY DEF Assigned, Columns, Updating

-----------------------------------------------------------------------------
\* Each action of a request but its commit changes nothing committed, and keeps the
\* request's type.
LEMMA HandledOK ==
  ASSUME NEW r \in Req, TypeInv, Handle(r), ~Commit(r)
  PROVE  Alone(r) /\ RequestOK(r)' /\ (Arrive(r) \/ Advances(r))
<1> DEFINE b == Body(r)
           q == req[r]
<1>0. DOMAIN req = Req /\ RequestOK(r) /\ now \in Nat
  BY DEF TypeInv, RowsOK
<1>1. CASE Arrive(r)
  <2>1. PICK mix \in Mixes : \E c \in mix : Holds(c) /\ Admit(r, c)
    BY <1>1 DEF Arrive
  <2>2. PICK c \in mix : Holds(c) /\ Admit(r, c)
    BY <2>1
  <2>3. /\ c.kind \in DOMAIN FirstStep
        /\ FirstStep[c.kind] \in {"check", "auth", "read"}
        /\ FirstStep[c.kind] = "auth" => c.caller \in DOMAIN users
        /\ FirstStep[c.kind] = "check" => c.kind = "register"
    BY <2>2, BodiesHaveHandlers DEF FirstStep, Holds
  <2>4. /\ DOMAIN req' = Req /\ \A p \in Req \ {r} : req'[p] = req[p]
        /\ DOMAIN req'[r] = Fields /\ req'[r].body = c
        /\ req'[r].pc \in {"done", FirstStep[c.kind]}
        /\ req'[r].pc # "done" => req'[r].status = 0
        /\ req'[r].write = <<>> /\ req'[r].revoke = None /\ req'[r].new = None
    BY <1>0, <1>1, <2>2, SetFields DEF Admit, Arrive, Fields, RequestOK, At, Writing
  <2> QED
    BY <1>1, <2>3, <2>4 DEF Alone, Arrive, RequestOK, Writing
<1>2. CASE Authenticate(r)
  <2> DEFINE u == users[b.caller]
  <2>1. CASE Refuse(r, IF u.active THEN 403 ELSE 401)
    BY <1>0, <1>2, <2>1, RefusedOK DEF Authenticate, Alone, At
  <2>2. CASE b.kind = "create_staff" /\ Set(r, [pc |-> "check"])
    BY <1>0, <1>2, <2>2, SetFields
       DEF Authenticate, Alone, Advances, At, RequestOK, Fields, Writing, Body
  <2>3. CASE b.kind = "update_user" /\ Set(r, [pc |-> "load", user |-> b.user])
    BY <1>0, <1>2, <2>3, SetFields
       DEF Authenticate, Alone, Advances, At, RequestOK, Fields, Writing, Body
  <2>4. ASSUME NEW todo, Set(r, [pc |-> "check", user |-> b.caller, row |-> u, todo |-> todo])
        PROVE  Alone(r) /\ RequestOK(r)' /\ Advances(r)
    BY <1>0, <1>2, <2>4, SetFields
       DEF Authenticate, Alone, Advances, At, RequestOK, Fields, Writing, Body
  <2> QED
    BY <1>2, <2>1, <2>2, <2>3, <2>4 DEF Authenticate
<1>3. CASE Check(r)
  <2>1. CASE Refuse(r, 409)
    BY <1>0, <1>3, <2>1, RefusedOK DEF Check, Alone, At
  <2>2. CASE Set(r, [todo |-> Tail(req[r].todo)])
    BY <1>0, <1>3, <2>2, SetFields DEF Check, Alone, Advances, At, RequestOK, Fields, Writing
  <2> QED
    BY <1>3, <2>1, <2>2 DEF Check
<1>4. CASE Checked(r)
  <2> DEFINE row == [email |-> b.email, phone |-> b.phone, username |-> b.username,
                     pw |-> b.pw, active |-> TRUE, avatar |-> None,
                     role |-> IF b.kind = "register" THEN "user" ELSE b.role]
  <2>1. CASE Refuse(r, 422)
    BY <1>0, <1>4, <2>1, RefusedOK DEF Checked, Alone, At
  <2>2. CASE Set(r, [pc |-> "update"]) /\ b.kind = "update_me"
    BY <1>0, <1>4, <2>2, SetFields
       DEF Checked, Alone, Advances, Fields, RequestOK, Writing, Updating, Body, At
  <2>3. CASE b.kind \in {"register", "create_staff"} /\ Set(r, [pc |-> "insert", row |-> row])
    <3>1. DOMAIN row = Columns
      BY DEF Columns
    <3> HIDE DEF row
    <3> QED
      BY <1>0, <1>4, <2>3, <3>1, SetFields
         DEF Checked, Alone, Advances, Fields, RequestOK, Writing, At, Body
  <2> QED
    BY <1>4, <2>1, <2>2, <2>3 DEF Checked
<1>5. CASE Insert(r)
  <2>1. CASE Refuse(r, UniqueViolation)
    BY <1>0, <1>5, <2>1, RefusedOK DEF Insert, Alone, At, UniqueViolation
  <2>2. ASSUME NEW pc \in {"issue", "commit"},
               Set(r, [user |-> r, write |-> q.row, pc |-> pc])
        PROVE  Alone(r) /\ RequestOK(r)' /\ Advances(r)
    <3> QED
      BY <1>0, <1>5, <2>2, SetFields
         DEF Insert, Alone, Advances, Fields, RequestOK, HasRow, Writing, At
  <2> QED
    BY <1>5, <2>1, <2>2 DEF Insert
<1>6. CASE Load(r)
  <2>1. CASE Refuse(r, 404)
    BY <1>0, <1>6, <2>1, RefusedOK DEF Load, Alone, At
  <2>2. CASE q.user \in DOMAIN users /\ Set(r, [row |-> users[q.user], pc |-> "update"])
    BY <1>0, <1>6, <2>2, SetFields
       DEF Load, Alone, Advances, Fields, RequestOK, Writing, Updating, At
  <2> QED
    BY <1>6, <2>1, <2>2 DEF Load
<1>7. CASE Update(r)
  <2> DEFINE w == Flushed(r)
             row == Over(w, users[q.user])
             next == CASE Kind(r) = "reset" -> "consume" [] Kind(r) = "google" -> "issue"
                       [] OTHER -> "commit"
  <2>1. q.pc = "update" /\ q.user \in DOMAIN users /\ q.body.kind \in Updating
    BY <1>0, <1>7 DEF Update, RequestOK, At
  <2>2. DOMAIN w \subseteq Columns
    BY <2>1, AssignedColumns DEF Flushed, Body
  <2>3. CASE Refuse(r, UniqueViolation)
    BY <1>0, <1>7, <2>1, <2>3, RefusedOK DEF Update, Alone, UniqueViolation
  <2>4. CASE Set(r, [write |-> w, row |-> row, pc |-> next])
    <3>1. next \in Writing /\ (next = "consume" <=> q.body.kind = "reset")
      BY DEF Writing, Kind
    <3> HIDE DEF w, row, next
    <3> QED
      BY <1>0, <1>7, <2>1, <2>2, <2>4, <3>1, SetFields
         DEF Update, Alone, Advances, Fields, RequestOK, HasRow, Writing, Updating, At
  <2> QED
    BY <1>7, <2>3, <2>4 DEF Update
<1>8. CASE Login(r)
  <2>1. CASE \E code \in {401, 403} : Refuse(r, code)
    BY <1>0, <1>8, <2>1, RefusedOK DEF Login, Alone, At
  <2>2. ASSUME NEW u \in Admitted(b), Set(r, [user |-> u, row |-> users[u], pc |-> "issue"])
        PROVE  Alone(r) /\ RequestOK(r)' /\ Advances(r)
    <3>1. u \in DOMAIN users
      BY <2>2 DEF Admitted, Authentic, Named, Known
    <3> QED
      BY <1>0, <1>8, <2>2, <3>1, SetFields
         DEF Login, Alone, Advances, Fields, RequestOK, HasRow, Writing, At, Kind
  <2> QED
    BY <1>8, <2>1, <2>2 DEF Login
<1>9. CASE GoogleRead(r)
  <2>1. CASE Refuse(r, 403)
    BY <1>0, <1>9, <2>1, RefusedOK DEF GoogleRead, Alone, At
  <2>2. CASE Set(r, [pc |-> "name"])
    BY <1>0, <1>9, <2>2, SetFields
       DEF GoogleRead, Alone, Advances, At, RequestOK, Fields, Writing, Kind
  <2>3. ASSUME NEW u \in Known("email", b.email), NEW pc \in {"issue", "update"},
               Set(r, [user |-> u, row |-> users[u], pc |-> pc])
        PROVE  Alone(r) /\ RequestOK(r)' /\ Advances(r)
    <3>1. u \in DOMAIN users
      BY <2>3 DEF Known
    <3> QED
      BY <1>0, <1>9, <2>3, <3>1, SetFields
         DEF GoogleRead, Alone, Advances, Fields, RequestOK, HasRow, Writing, Updating, At, Kind
  <2> QED
    BY <1>9, <2>1, <2>2, <2>3 DEF GoogleRead
<1>10. CASE GoogleName(r)
  <2> DEFINE row == [email |-> b.email, phone |-> None, pw |-> r, active |-> TRUE,
                     username |-> IF Known("username", NameOf[b.email]) = {}
                                  THEN NameOf[b.email] ELSE r,
                     avatar |-> b.picture, role |-> "user"]
  <2>1. DOMAIN row = Columns
    BY DEF Columns
  <2>2. Set(r, [pc |-> "insert", row |-> row])
    BY <1>10 DEF GoogleName
  <2> HIDE DEF row
  <2> QED
    BY <1>0, <1>10, <2>1, <2>2, SetFields
       DEF GoogleName, Alone, Advances, Fields, RequestOK, Writing, At, Kind
<1>11. CASE ReadToken(r)
  <2>1. CASE Refuse(r, 401) \/ Refuse(r, 500)
    BY <1>0, <1>11, <2>1, RefusedOK DEF ReadToken, Alone, At
  <2>2. ASSUME NEW t \in Unrevoked(b.token), Set(r, [stored |-> t, pc |-> "revoke"])
        PROVE  Alone(r) /\ RequestOK(r)' /\ Advances(r)
    <3>1. b.token.user \in DOMAIN users
      BY <2>2 DEF Unrevoked, TypeInv, RowsOK
    <3> QED
      BY <1>0, <1>11, <2>2, <3>1, SetFields
         DEF ReadToken, Alone, Advances, Fields, RequestOK, Writing, At, Body, Kind
  <2> QED
    BY <1>11, <2>1, <2>2 DEF ReadToken
<1>12. CASE Revoke(r)
  <2>1. Set(r, [revoke |-> q.stored, pc |-> "issue"])
    BY <1>12 DEF Revoke
  <2> QED
    BY <1>0, <1>12, <2>1, SetFields
       DEF Revoke, Alone, Advances, Fields, RequestOK, HasRow, Writing, At
<1>13. CASE Issue(r)
  <2> DEFINE refresh == Kind(r) = "refresh"
             new == [type |-> "refresh", at |-> now,
                     user |-> IF refresh THEN b.token.user ELSE q.user,
                     role |-> IF refresh THEN b.token.role ELSE q.row.role]
  <2>1. Set(r, [pc |-> "commit", new |-> new])
    BY <1>13 DEF Issue
  <2>2. new.at \in 0 .. now
    BY <1>0
  <2>3. new.user \in DOMAIN users \/ (new.user = q.user /\ DOMAIN q.write = Columns)
    <3>1. CASE refresh
      BY <1>0, <1>13, <3>1 DEF Issue, At, RequestOK, Kind, Body
    <3>2. CASE ~refresh
      BY <1>0, <1>13, <3>2 DEF Issue, At, RequestOK, HasRow, Kind, Body
    <3> QED
      BY <3>1, <3>2
  <2> HIDE DEF new
  <2> QED
    BY <1>0, <1>13, <2>1, <2>2, <2>3, SetFields
       DEF Issue, Alone, Advances, Fields, RequestOK, HasRow, Writing, At
<1>14. CASE Forgot(r)
  BY <1>0, <1>14, RefusedOK DEF Forgot, Alone, At
<1>15. CASE TakeReset(r)
  <2>1. CASE Refuse(r, 400)
    BY <1>0, <1>15, <2>1, RefusedOK DEF TakeReset, Alone, At
  <2>2. ASSUME NEW u, Set(r, [user |-> u, pc |-> "load"])
        PROVE  Alone(r) /\ RequestOK(r)' /\ Advances(r)
    BY <1>0, <1>15, <2>2, SetFields
       DEF TakeReset, Alone, Advances, Fields, RequestOK, Writing, At, Kind
  <2> QED
    BY <1>15, <2>1, <2>2 DEF TakeReset
<1>16. CASE Consume(r)
  <2>1. CASE Refuse(r, 500)
    BY <1>0, <1>16, <2>1, RefusedOK DEF Consume, Alone, At
  <2>2. CASE Set(r, [pc |-> "commit"])
    BY <1>0, <1>16, <2>2, SetFields
       DEF Consume, Alone, Advances, Fields, RequestOK, HasRow, Writing, Updating, At
  <2> QED
    BY <1>16, <2>1, <2>2 DEF Consume
<1>17. CASE Abort(r)
  <2>1. q.pc # "idle"
    BY <1>0, <1>17 DEF Abort, RequestOK, Writing
  <2> QED
    BY <1>0, <1>17, <2>1, RefusedOK DEF Abort, Alone
<1> QED
  BY <1>1, <1>2, <1>3, <1>4, <1>5, <1>6, <1>7, <1>8, <1>9, <1>10, <1>11, <1>12, <1>13, <1>14,
     <1>15, <1>16, <1>17 DEF Handle

\* Only the limiter writes its lists, only the endpoints of the password reset write
\* the tokens they keep in memory.
LEMMA MemoryWriters ==
  ASSUME NEW r \in Req, Handle(r)
  PROVE  /\ Arrive(r) \/ hits' = hits
         /\ Forgot(r) \/ TakeReset(r) \/ Consume(r) \/ resets' = resets
BY DEF Handle, Arrive, Authenticate, Check, Checked, Insert, Load, Update, Login, GoogleRead,
       GoogleName, ReadToken, Revoke, Issue, Forgot, TakeReset, Consume, Commit, Abort

\* A request that has ended takes no step.
LEMMA DoneStays ==
  ASSUME NEW r \in Req, RequestOK(r), Handle(r)
  PROVE  req[r].pc # "done"
<1> SUFFICES ASSUME req[r].pc = "done" PROVE FALSE
  OBVIOUS
<1>1. req[r].write = <<>> /\ req[r].revoke = None /\ req[r].new = None
  BY DEF RequestOK, Writing
<1> QED
  BY <1>1
     DEF Handle, Arrive, Authenticate, Check, Checked, Insert, Load, Update, Login, GoogleRead,
         GoogleName, ReadToken, Revoke, Issue, Forgot, TakeReset, Consume, Commit, Abort, At

\* No action of a request but its commit breaks a row, a time or a reset token.
LEMMA RowsHandled ==
  ASSUME NEW r \in Req, TypeInv, Handle(r), ~Commit(r)
  PROVE  RowsOK'
<1>0. RowsOK /\ RequestOK(r)
  BY DEF TypeInv
<1>1. Alone(r)
  BY HandledOK
<1>2. req[r].pc # "done"
  BY <1>0, DoneStays
<1>3. /\ DOMAIN hits' = DOMAIN Limit
      /\ \A p \in DOMAIN hits' : \A q \in DOMAIN hits'[p] : hits'[p][q] \in 0 .. now
  <2>1. CASE hits' = hits
    BY <1>0, <2>1 DEF RowsOK
  <2>2. CASE Arrive(r)
    <3>1. PICK mix \in Mixes : \E c \in mix : Admit(r, c)
      BY <2>2 DEF Arrive
    <3>2. PICK c \in mix : Admit(r, c)
      BY <3>1
    <3>3. now \in 0 .. now
      BY <1>0 DEF RowsOK
    <3> QED
      BY <1>0, <3>2, <3>3 DEF RowsOK, Admit, Over, Recent
  <2> QED
    BY <2>1, <2>2, MemoryWriters
<1>4. \A x \in DOMAIN resets' : resets'[x].user \in DOMAIN users
  <2>1. CASE resets' = resets
    BY <1>0, <2>1 DEF RowsOK
  <2>2. CASE Forgot(r)
    BY <1>0, <2>2 DEF Forgot, RowsOK, Over, Known
  <2>3. CASE TakeReset(r) \/ Consume(r)
    BY <1>0, <2>3 DEF TakeReset, Consume, RowsOK, Without
  <2> QED
    BY <2>1, <2>2, <2>3, MemoryWriters
<1> QED
  BY <1>0, <1>1, <1>2, <1>3, <1>4 DEF RowsOK, Alone

\* What a commit does to the tables and to the requests.
LEMMA CommitEffect ==
  ASSUME NEW r \in Req, TypeInv, Commit(r)
  PROVE  /\ DOMAIN users \subseteq DOMAIN users'
         /\ DOMAIN users' \subseteq DOMAIN users \cup {r}
         /\ req[r].write # <<>> => req[r].user \in DOMAIN users'
         /\ \A u \in DOMAIN users' : DOMAIN users'[u] = Columns
         /\ \A u \in DOMAIN users : u # req[r].user => users'[u] = users[u]
         /\ \A u \in DOMAIN users : \A c \in Columns :
              users'[u][c] = IF u = req[r].user /\ c \in DOMAIN req[r].write
                             THEN req[r].write[c] ELSE users[u][c]
         /\ r \notin DOMAIN users /\ r \in DOMAIN users' =>
              /\ req[r].user = r /\ DOMAIN req[r].write = Columns
              /\ \A c \in Columns : users'[r][c] = req[r].write[c]
<1> DEFINE q == req[r]
<1>0. /\ RowsOK /\ RequestOK(r) /\ q.pc = "commit" /\ DOMAIN q.write \subseteq Columns
      /\ q.user \in DOMAIN users \/ (q.user = r /\ DOMAIN q.write = Columns) \/ q.write = <<>>
  BY DEF TypeInv, RequestOK, HasRow, Commit, At
<1>1. CASE q.write = <<>>
  <2>1. users' = users /\ DOMAIN q.write = {}
    BY <1>1 DEF Commit
  <2> QED
    BY <1>0, <1>1, <2>1 DEF RowsOK
<1>2. CASE q.write # <<>> /\ q.user \in DOMAIN users
  <2>1. users' = [users EXCEPT ![q.user] = Over(q.write, @)]
    BY <1>2 DEF Commit
  <2> QED
    BY <1>0, <1>2, <2>1 DEF RowsOK, Over
<1>3. CASE q.write # <<>> /\ q.user \notin DOMAIN users
  <2>1. users' = Over([u \in {q.user} |-> q.write], users)
    BY <1>3 DEF Commit
  <2> QED
    BY <1>0, <1>3, <2>1 DEF RowsOK, Over
<1> QED
  BY <1>1, <1>2, <1>3

\* Of the requests, a commit ends one; the others only see more committed.
LEMMA CommitRequests ==
  ASSUME NEW r \in Req, DOMAIN req = Req, Commit(r)
  PROVE  /\ DOMAIN req' = Req /\ DOMAIN req'[r] = Fields
         /\ req'[r].pc = "done" /\ req'[r].body = req[r].body /\ req'[r].passed = req[r].passed
         /\ req'[r].status = 200 /\ req'[r].write = <<>>
         /\ req'[r].new = None /\ req'[r].revoke = None
         /\ \A q \in Req \ {r} :
              /\ DOMAIN req'[q] = DOMAIN req[q]
              /\ \A x \in Fields \ {"held"} : x \in DOMAIN req[q] => req'[q][x] = req[q][x]
BY DEF Commit, Refused, Blank, Body, Fields

\* A commit adds whole rows that refer to committed accounts.
LEMMA CommitOK ==
  ASSUME NEW r \in Req, TypeInv, Commit(r)
  PROVE  TypeInv'
<1>0. RowsOK /\ RequestOK(r) /\ req[r].pc = "commit"
  BY DEF TypeInv, Commit, At
<1>1. ASSUME NEW p \in Req
      PROVE  RequestOK(p)'
  <2>1. CASE p = r
    <3>1. req[r].body.kind \in DOMAIN FirstStep
      BY <1>0 DEF RequestOK
    <3> QED
      BY <1>0, <2>1, <3>1, CommitRequests, DoneOK DEF RowsOK
  <2>2. CASE p # r
    <3>1. RequestOK(p)
      BY DEF TypeInv
    <3>2. DOMAIN req'[p] = Fields /\ \A x \in Fields \ {"held"} : req'[p][x] = req[p][x]
      BY <1>0, <2>2, <3>1, CommitRequests DEF RowsOK, RequestOK
    <3>3. now' = now /\ now \in Nat
      BY <1>0 DEF Commit, RowsOK
    <3> QED
      BY <3>1, <3>2, <3>3, CommitEffect, KeptOK
  <2> QED
    BY <2>1, <2>2
<1>2. \A t \in DOMAIN tokens' : /\ DOMAIN tokens'[t] = {"hash", "revoked"}
                                /\ tokens'[t].hash.at \in 0 .. now
                                /\ tokens'[t].hash.user \in DOMAIN users'
  <2> DEFINE q == req[r]
             kept == [t \in DOMAIN tokens |-> [tokens[t] EXCEPT !.revoked = @ \/ t = q.revoke]]
             new == [hash |-> q.new, revoked |-> FALSE]
  <2>1. /\ DOMAIN kept = DOMAIN tokens
        /\ \A t \in DOMAIN tokens : /\ DOMAIN kept[t] = {"hash", "revoked"}
                                    /\ kept[t].hash = tokens[t].hash
    BY <1>0 DEF RowsOK
  <2>2. tokens' = kept \/ (q.new # None /\ tokens' = Over([t \in {r} |-> new], kept))
    BY DEF Commit
  <2> HIDE DEF kept
  <2>3. \A t \in DOMAIN kept : /\ DOMAIN kept[t] = {"hash", "revoked"}
                               /\ kept[t].hash.at \in 0 .. now
                               /\ kept[t].hash.user \in DOMAIN users'
    BY <1>0, <2>1, CommitEffect DEF RowsOK
  <2>4. CASE q.new # None /\ tokens' = Over([t \in {r} |-> new], kept)
    <3>1. q.new.at \in 0 .. now
      BY <1>0, <2>4 DEF RequestOK
    <3>2. q.new.user \in DOMAIN users'
      <4>1. CASE q.new.user \in DOMAIN users
        BY <4>1, CommitEffect
      <4>2. CASE q.new.user = q.user /\ DOMAIN q.write = Columns
        <5>1. q.write # <<>>
          BY <4>2 DEF Columns
        <5> QED
          BY <4>2, <5>1, CommitEffect
      <4> QED
        BY <1>0, <2>4, <4>1, <4>2 DEF RequestOK
    <3>3. DOMAIN new = {"hash", "revoked"} /\ new.hash = q.new
      OBVIOUS
    <3> HIDE DEF new
    <3> QED
      BY <2>3, <2>4, <3>1, <3>2, <3>3 DEF Over
  <2> QED
    BY <2>2, <2>3, <2>4
<1>3. ASSUME NEW u \in Req \cap DOMAIN users' PROVE req'[u].pc = "done"
  <2>1. CASE u = r
    BY <1>0, <2>1, CommitRequests DEF RowsOK
  <2>2. CASE u # r
    <3>1. u \in DOMAIN users /\ DOMAIN req[u] = Fields
      BY <2>2, CommitEffect DEF TypeInv, RequestOK
    <3> QED
      BY <1>0, <2>2, <3>1, CommitRequests DEF RowsOK, Fields
  <2> QED
    BY <2>1, <2>2
<1>4. UNCHANGED <<now, life, hits, resets>>
  BY DEF Commit
<1> QED
  BY <1>0, <1>1, <1>2, <1>3, <1>4, CommitEffect, CommitRequests DEF TypeInv, RowsOK

\* A restart ends the open requests, answers nobody, and forgets lists and tokens.
LEMMA RestartEffect ==
  ASSUME TypeInv, Restart, NEW r \in Req
  PROVE  \/ req'[r] = req[r] /\ req[r].pc \in {"idle", "done"}
         \/ /\ req[r].pc \notin {"idle", "done"}
            /\ DOMAIN req'[r] = Fields /\ req'[r].pc = "done" /\ req'[r].status = 0
            /\ req'[r].body = req[r].body /\ req'[r].passed = req[r].passed
            /\ req'[r].write = <<>> /\ req'[r].revoke = None /\ req'[r].new = None
BY DEF Restart, Running, Refused, Blank, Body, Fields

\* A restart forgets the process's memory and ends what was running.
LEMMA RestartOK ==
  ASSUME TypeInv, Restart
  PROVE  TypeInv'
<1>0. RowsOK /\ UNCHANGED <<now, users, tokens>> /\ DOMAIN req' = Req
  BY DEF TypeInv, Restart
<1>1. ASSUME NEW r \in Req PROVE RequestOK(r)'
  <2>0. RequestOK(r)
    BY DEF TypeInv
  <2>1. CASE req'[r] = req[r]
    BY <1>0, <2>0, <2>1 DEF RequestOK, HasRow
  <2>2. CASE req'[r] # req[r]
    <3>1. req[r].body.kind \in DOMAIN FirstStep
      BY <2>0, <2>2, RestartEffect DEF RequestOK
    <3> QED
      BY <2>2, <3>1, RestartEffect, DoneOK
  <2> QED
    BY <2>1, <2>2
<1>2. \A r \in Req \cap DOMAIN users' : req'[r].pc = "done"
  BY <1>0, RestartEffect DEF RowsOK
<1>3. /\ life' \in Nat /\ DOMAIN hits' = DOMAIN Limit /\ DOMAIN resets' = {}
      /\ \A p \in DOMAIN hits' : DOMAIN hits'[p] = {}
  BY <1>0 DEF Restart, RowsOK
<1> QED
  BY <1>0, <1>1, <1>2, <1>3 DEF TypeInv, RowsOK

\* Time passing breaks no type.
LEMMA TickOK ==
  ASSUME TypeInv, Tick
  PROVE  TypeInv'
<1>0. RowsOK /\ now' \in Nat /\ now <= now' /\ \A i \in 0 .. now : i \in 0 .. now'
  BY DEF TypeInv, RowsOK, Tick
<1>1. ASSUME NEW r \in Req PROVE RequestOK(r)'
  <2>1. RequestOK(r) /\ req' = req /\ users' = users
    BY DEF TypeInv, Tick
  <2> QED
    BY <1>0, <2>1, KeptOK DEF RequestOK, RowsOK
<1>2. UNCHANGED <<life, hits, resets, users, tokens, req>>
  BY DEF Tick
<1> QED
  BY <1>0, <1>1, <1>2 DEF TypeInv, RowsOK

\* Before the first request the rows are those of earlier requests, which are whole.
LEMMA TypeInit == Init => TypeInv
<1> SUFFICES ASSUME Init PROVE TypeInv
  OBVIOUS
<1>1. /\ now = 0 /\ life = 0 /\ DOMAIN req = Req /\ DOMAIN hits = DOMAIN Limit
      /\ \A p \in DOMAIN hits : DOMAIN hits[p] = {}
      /\ resets = Resets0 /\ users = Accounts0 /\ tokens = Tokens0
  BY DEF Init
<1>2. \A r \in Req : req[r] = Blank
  BY DEF Init
<1>3. RowsOK
  BY <1>1, RowsAreWhole, NamesAreApart DEF RowsOK
<1>4. /\ DOMAIN Blank = Fields /\ DOMAIN Blank.write = {}
      /\ Blank.pc = "idle" /\ Blank.status = 0
      /\ Blank.write = <<>> /\ Blank.revoke = None /\ Blank.new = None
  BY DEF Blank, Fields
<1>5. ASSUME NEW r \in Req PROVE RequestOK(r)
  BY <1>2, <1>4 DEF RequestOK, Writing
<1> QED
  BY <1>3, <1>5 DEF TypeInv

\* The types are kept by every step.
LEMMA TypeStep == TypeInv /\ [Next]_vars => TypeInv'
<1> SUFFICES ASSUME TypeInv, [Next]_vars PROVE TypeInv'
  OBVIOUS
<1>1. ASSUME NEW r \in Req, Handle(r), ~Commit(r) PROVE TypeInv'
  <2>1. RowsOK' /\ Alone(r) /\ RequestOK(r)'
    BY <1>1, RowsHandled, HandledOK
  <2>2. ASSUME NEW p \in Req, p # r PROVE RequestOK(p)'
    <3>1. RequestOK(p) /\ req'[p] = req[p] /\ users' = users /\ now' = now
      BY <2>1, <2>2 DEF Alone, TypeInv
    <3> QED
      BY <3>1 DEF RequestOK, HasRow
  <2> QED
    BY <2>1, <2>2 DEF TypeInv
<1>2. CASE UNCHANGED vars
  <2>1. ASSUME NEW p \in Req PROVE RequestOK(p)'
    <3>1. RequestOK(p) /\ req' = req /\ users' = users /\ now' = now
      BY <1>2 DEF vars, TypeInv
    <3> QED
      BY <3>1 DEF RequestOK, HasRow
  <2> QED
    BY <1>2, <2>1 DEF vars, TypeInv, RowsOK
<1> QED
  BY <1>1, <1>2, CommitOK, RestartOK, TickOK DEF Next

\* The types hold throughout.
LEMMA TypeAlways == Spec => []TypeInv
BY TypeInit, TypeStep, PTL DEF Spec

\* Rows are whole and refer to rows that are there, nothing is dated after the clock.
THEOREM AccountsTyped == Spec => []TypeOK
<1>1. TypeInv => TypeOK
  BY DEF TypeInv, TypeOK, RowsOK, RequestOK, Fields, Blank
<1> QED
  BY <1>1, TypeAlways, PTL

-----------------------------------------------------------------------------
(* Unique keys.  What two open transactions have written is apart, and what one *)
(* of them has written is free in the committed table: the constraint looked at *)
(* the committed rows, and the wait at the other writers.                       *)

\* Only one open transaction writes to an account.
RowsExclusive ==
  \A r, q \in Req : r # q /\ req[r].write # <<>> /\ req[q].write # <<>> =>
                      req[r].user # req[q].user
\* A key that is written but not committed belongs to no other account ...
KeysFree ==
  \A r \in Req : \A k \in KeysOf(req[r].write) : \A u \in DOMAIN users \ {req[r].user} :
    users[u][k] # req[r].write[k]
\* ... and to no other transaction.
KeysApart ==
  \A r, q \in Req : r # q =>
    \A k \in KeysOf(req[r].write) \cap DOMAIN req[q].write : req[q].write[k] # req[r].write[k]

KeysInv == UniqueKeys /\ RowsExclusive /\ KeysFree /\ KeysApart

\* Request r may hold w, written to account u.
MayHold(r, u, w) ==
  /\ \A q \in Req \ {r} : w # <<>> /\ req[q].write # <<>> => req[q].user # u
  /\ \A k \in KeysOf(w) : \A v \in DOMAIN users \ {u} : users[v][k] # w[k]
  /\ \A q \in Req \ {r} : \A k \in KeysOf(w) \cap DOMAIN req[q].write : req[q].write[k] # w[k]

\* While no request writes and no row is added, the keys stay held as they are.
LEMMA KeysHeld ==
  ASSUME NEW r \in Req, KeysInv, users' = users, \A q \in Req \ {r} : req'[q] = req[q],
         NEW u, NEW w, req'[r].user = u, req'[r].write = w, MayHold(r, u, w)
  PROVE  KeysInv'
<1>1. UniqueKeys'
  BY DEF KeysInv, UniqueKeys
<1>2. RowsExclusive'
  BY DEF KeysInv, RowsExclusive, MayHold
<1>3. KeysFree'
  BY DEF KeysInv, KeysFree, MayHold
<1>4. KeysApart'
  <2> SUFFICES ASSUME NEW p \in Req, NEW q \in Req, p # q,
                      NEW k \in KeysOf(req'[p].write) \cap DOMAIN req'[q].write
               PROVE  req'[q].write[k] # req'[p].write[k]
    BY DEF KeysApart
  <2>1. CASE p # r /\ q # r
    BY <2>1 DEF KeysInv, KeysApart
  <2>2. CASE p = r
    BY <2>2 DEF MayHold
  <2>3. CASE q = r
    <3> SUFFICES ASSUME w[k] = req[p].write[k] PROVE FALSE
      BY <2>3
    <3>1. k \in KeysOf(w) \cap DOMAIN req[p].write
      BY <2>3 DEF KeysOf
    <3> QED
      BY <2>3, <3>1 DEF MayHold
  <2> QED
    BY <2>1, <2>2, <2>3
<1> QED
  BY <1>1, <1>2, <1>3, <1>4 DEF KeysInv

\* The limiter lets a request through to its first step, with nothing written.
LEMMA ArriveEffect ==
  ASSUME NEW r \in Req, TypeInv, Arrive(r)
  PROVE  \E mix \in Mixes : \E b \in mix :
           /\ Holds(b) /\ Admit(r, b) /\ b.kind \in DOMAIN FirstStep
           /\ req'[r].body = b /\ req'[r].write = <<>>
           /\ \/ req'[r].pc = "done" /\ req'[r].status = 429
              \/ req'[r].pc = FirstStep[b.kind] /\ req'[r].status = 0
                 /\ req'[r].held = {Committed}
<1>0. DOMAIN req = Req /\ req[r].write = <<>>
  BY DEF TypeInv, RowsOK, RequestOK, Arrive, At, Writing
<1>1. PICK mix \in Mixes : \E b \in mix : Holds(b) /\ Admit(r, b)
  BY DEF Arrive
<1>2. PICK b \in mix : Holds(b) /\ Admit(r, b)
  BY <1>1
<1>3. /\ req'[r].body = b /\ req'[r].write = <<>>
      /\ \/ req'[r].pc = "done" /\ req'[r].status = 429
         \/ req'[r].pc = FirstStep[b.kind] /\ req'[r].status = 0 /\ req'[r].held = {Committed}
  BY <1>0, <1>2, SetFields DEF Admit, Fields
<1> QED
  BY <1>2, <1>3, BodiesHaveHandlers

\* A request flushes only keys that no account and no open transaction has.
LEMMA KeysHandled ==
  ASSUME NEW r \in Req, TypeInv, KeysInv, Handle(r), ~Commit(r)
  PROVE  KeysInv'
<1> DEFINE q == req[r]
<1>0. /\ users' = users /\ DOMAIN req = Req /\ \A p \in Req \ {r} : req'[p] = req[p]
      /\ RequestOK(r) /\ (Arrive(r) \/ Advances(r))
  BY HandledOK DEF Alone, TypeInv, RowsOK
<1>1. CASE req'[r].write = <<>>
  <2>1. MayHold(r, req'[r].user, <<>>)
    BY DEF MayHold, KeysOf
  <2> QED
    BY <1>0, <1>1, <2>1, KeysHeld
<1>2. CASE req'[r].write = q.write /\ req'[r].user = q.user
  <2>1. MayHold(r, q.user, q.write)
    BY DEF MayHold, KeysInv, RowsExclusive, KeysFree, KeysApart
  <2> QED
    BY <1>0, <1>2, <2>1, KeysHeld
<1>3. CASE Insert(r) /\ req'[r].write # <<>>
  <2>1. ~Clashes(r, q.row) /\ ~Contended(r, q.row) /\ req'[r].write = q.row /\ req'[r].user = r
    BY <1>0, <1>3, SetFields, RefuseFields DEF Insert, Fields
  <2>2. r \notin DOMAIN users /\ \A p \in Req \ {r} : req[p].write # <<>> => req[p].user # r
    BY <1>3 DEF TypeInv, RowsOK, RequestOK, HasRow, Insert, At, Writing
  <2>3. MayHold(r, r, q.row)
    BY <2>1, <2>2 DEF MayHold, Clashes, Contended, Known
  <2> QED
    BY <1>0, <2>1, <2>3, KeysHeld
<1>4. CASE Update(r) /\ req'[r].write # <<>>
  <2> DEFINE w == Flushed(r)
  <2>1. /\ ~Clashes(q.user, w) /\ req'[r].write = w /\ req'[r].user = q.user
        /\ ~RowLocked(r) /\ ~Contended(r, w)
    <3> HIDE DEF w
    <3> QED
      BY <1>0, <1>4, SetFields, RefuseFields DEF Update, Fields, w
  <2>2. MayHold(r, q.user, w)
    BY <2>1 DEF MayHold, Clashes, Contended, Known, RowLocked
  <2> QED
    BY <1>0, <2>1, <2>2, KeysHeld
<1> QED
  BY <1>0, <1>1, <1>2, <1>3, <1>4, ArriveEffect DEF Advances, RequestOK, Writing

\* The keys a commit publishes were held free of every other row until then.
LEMMA KeysCommitted ==
  ASSUME NEW r \in Req, TypeInv, KeysInv, Commit(r)
  PROVE  KeysInv'
<1> DEFINE q == req[r]
<1>0. /\ DOMAIN req = Req /\ RowsOK /\ RequestOK(r) /\ q.pc = "commit" /\ req'[r].write = <<>>
  BY CommitRequests DEF TypeInv, RowsOK, Commit, At
<1>1. ASSUME NEW p \in Req, p # r
      PROVE  req'[p].write = req[p].write /\ req'[p].user = req[p].user
  <2>1. DOMAIN req[p] = Fields
    BY DEF TypeInv, RequestOK
  <2> QED
    BY <1>0, <1>1, <2>1, CommitRequests DEF Fields
\* A key of an account is as it was, or as the request has written it.
<1>2. ASSUME NEW u \in DOMAIN users', NEW k \in Key
      PROVE  \/ u \in DOMAIN users /\ users'[u][k] = users[u][k]
             \/ u = q.user /\ k \in DOMAIN q.write /\ users'[u][k] = q.write[k]
  <2>1. k \in Columns
    BY DEF Key, Columns
  <2>2. CASE u \in DOMAIN users
    BY <2>1, <2>2, CommitEffect
  <2>3. CASE u \notin DOMAIN users
    <3>1. u = r /\ r \notin DOMAIN users /\ r \in DOMAIN users'
      BY <2>3, CommitEffect
    <3>2. q.user = r /\ users'[r][k] = q.write[k]
      BY <2>1, <3>1, CommitEffect
    <3>3. DOMAIN q.write = Columns
      BY <3>1, CommitEffect
    <3> QED
      BY <2>1, <3>1, <3>2, <3>3
  <2> QED
    BY <2>2, <2>3
<1>3. UniqueKeys'
  <2> SUFFICES ASSUME NEW u \in DOMAIN users', NEW v \in DOMAIN users', u # v,
                      NEW k \in KeysOf(users'[u]), users'[u][k] = users'[v][k]
               PROVE  FALSE
    BY DEF UniqueKeys
  <2>1. k \in Key /\ users'[u][k] # None
    BY DEF KeysOf
  <2>2. CASE \E x \in {u, v} : /\ x = q.user /\ k \in DOMAIN q.write
                               /\ users'[x][k] = q.write[k]
    <3>1. PICK x \in {u, v} : /\ x = q.user /\ k \in DOMAIN q.write
                              /\ users'[x][k] = q.write[k]
      BY <2>2
    <3>2. PICK y \in {u, v} : y # x
      OBVIOUS
    <3>3. y \in DOMAIN users /\ users'[y][k] = users[y][k]
      BY <1>2, <2>1, <3>1, <3>2
    <3>4. k \in KeysOf(q.write)
      BY <2>1, <3>1 DEF KeysOf
    <3> QED
      BY <3>1, <3>2, <3>3, <3>4 DEF KeysInv, KeysFree
  <2>3. CASE ~\E x \in {u, v} : /\ x = q.user /\ k \in DOMAIN q.write
                                /\ users'[x][k] = q.write[k]
    <3>1. /\ u \in DOMAIN users /\ users'[u][k] = users[u][k]
          /\ v \in DOMAIN users /\ users'[v][k] = users[v][k]
      BY <1>2, <2>1, <2>3
    <3>2. k \in KeysOf(users[u])
      BY <1>0, <2>1, <3>1 DEF KeysOf, RowsOK, Key, Columns
    <3> QED
      BY <3>1, <3>2 DEF KeysInv, UniqueKeys
  <2> QED
    BY <2>2, <2>3
<1>4. RowsExclusive'
  BY <1>0, <1>1 DEF RowsExclusive, KeysInv
<1>5. KeysFree'
  <2> SUFFICES ASSUME NEW p \in Req, NEW k \in KeysOf(req'[p].write),
                      NEW u \in DOMAIN users' \ {req'[p].user}
               PROVE  users'[u][k] # req'[p].write[k]
    BY DEF KeysFree
  <2>1. p # r /\ k \in Key
    BY <1>0 DEF KeysOf
  <2>2. req'[p].write = req[p].write /\ req'[p].user = req[p].user
    BY <1>1, <2>1
  <2>3. CASE u \in DOMAIN users /\ users'[u][k] = users[u][k]
    BY <2>2, <2>3 DEF KeysInv, KeysFree
  <2>4. CASE k \in DOMAIN q.write /\ users'[u][k] = q.write[k]
    BY <2>1, <2>2, <2>4 DEF KeysInv, KeysApart
  <2> QED
    BY <1>2, <2>1, <2>3, <2>4
<1>6. KeysApart'
  <2> SUFFICES ASSUME NEW p \in Req, NEW o \in Req, p # o,
                      NEW k \in KeysOf(req'[p].write) \cap DOMAIN req'[o].write
               PROVE  req'[o].write[k] # req'[p].write[k]
    BY DEF KeysApart
  <2>1. p # r /\ o # r
    BY <1>0 DEF KeysOf
  <2> QED
    BY <1>1, <2>1 DEF KeysInv, KeysApart
<1> QED
  BY <1>3, <1>4, <1>5, <1>6 DEF KeysInv

\* Nothing is flushed at first, and the earlier rows' keys are unique.
LEMMA KeysInit == Init => KeysInv
<1> SUFFICES ASSUME Init PROVE KeysInv
  OBVIOUS
<1>1. users = Accounts0 /\ \A r \in Req : req[r].write = <<>>
  BY DEF Init, Blank
<1> QED
  BY <1>1, RowsAreWhole DEF KeysInv, UniqueKeys, RowsExclusive, KeysFree, KeysApart, KeysOf

\* The keys stay apart in every step.
LEMMA KeysStep == TypeInv /\ KeysInv /\ [Next]_vars => KeysInv'
<1> SUFFICES ASSUME TypeInv, KeysInv, [Next]_vars PROVE KeysInv'
  OBVIOUS
<1>1. CASE Restart
  <2>1. /\ users' = users
        /\ \A r \in Req : req'[r].write = <<>> \/ req'[r] = req[r]
    BY <1>1, RestartEffect DEF Restart
  <2> QED
    BY <2>1 DEF KeysInv, UniqueKeys, RowsExclusive, KeysFree, KeysApart, KeysOf
<1>2. CASE Tick \/ UNCHANGED vars
  <2>1. users' = users /\ req' = req
    BY <1>2 DEF Tick, vars
  <2> QED
    BY <2>1 DEF KeysInv, UniqueKeys, RowsExclusive, KeysFree, KeysApart
<1> QED
  BY <1>1, <1>2, KeysHandled, KeysCommitted DEF Next

\* No two accounts ever share an e-mail address, a phone number or a user name.
THEOREM KeysAreUnique == Spec => []UniqueKeys
<1>1. Spec => []KeysInv
  BY TypeAlways, KeysInit, KeysStep, PTL DEF Spec
<1>2. KeysInv => UniqueKeys
  BY DEF KeysInv
<1> QED
  BY <1>1, <1>2, PTL

-----------------------------------------------------------------------------
(* Password resets.  From the moment a request deletes its token from memory,   *)
(* the token is nowhere and comes back no more: a forgot-password request stores *)
(* a token once, and ends.                                                       *)

Spent(r) == (At(r, "commit") \/ req[r].status = 200) /\ Kind(r) = "reset"

ResetInv ==
  /\ \A r \in Req : Spent(r) => Body(r).token \notin DOMAIN resets
  /\ \A r, q \in Req : Spent(r) /\ Spent(q) /\ Body(r).token = Body(q).token => r = q
  /\ \A x \in Req \cap DOMAIN resets : At(x, "done")
  /\ \A r \in Req : Spent(r) /\ Body(r).token \in Req => At(Body(r).token, "done")

\* A step of request r spends no token but the one it deletes.
LEMMA SpendsWhenConsumed ==
  ASSUME NEW r \in Req, TypeInv, Handle(r), ~Commit(r), Spent(r)'
  PROVE  Consume(r) /\ Body(r)' = Body(r)
<1>0. RequestOK(r) /\ (Arrive(r) \/ Advances(r)) /\ req[r].pc # "done"
  BY HandledOK, DoneStays DEF TypeInv
<1>1. ~Arrive(r)
  BY ArriveEffect DEF Spent, At, FirstStep
<1>2. ~Forgot(r)
  BY <1>0, <1>1 DEF Forgot, Advances, Spent, Kind, Body
<1> QED
  BY <1>0, <1>1, <1>2 DEF Advances, Spent, At, Kind, Body, RequestOK

\* A reset goes to its commit only by taking its token out of memory.
LEMMA ResetHandled ==
  ASSUME NEW r \in Req, TypeInv, ResetInv, Handle(r), ~Commit(r)
  PROVE  ResetInv'
<1>0. /\ DOMAIN req' = Req /\ \A q \in Req \ {r} : req'[q] = req[q]
      /\ ~At(r, "done")
  BY HandledOK, DoneStays DEF Alone, TypeInv, At
<1>1. \A q \in Req \ {r} : /\ Spent(q)' <=> Spent(q)
                          /\ Body(q)' = Body(q)
                          /\ At(q, "done")' <=> At(q, "done")
  BY <1>0 DEF Spent, Body, Kind, At
<1>2. /\ \A x \in Req \cap DOMAIN resets' : At(x, "done")'
      /\ \A x \in DOMAIN resets' : x \in DOMAIN resets \/ (x = r /\ Forgot(r))
  <2>1. CASE resets' = resets
    BY <1>0, <1>1, <2>1 DEF ResetInv
  <2>2. CASE Forgot(r)
    <3>1. At(r, "done")' /\ \A x \in DOMAIN resets' : x \in DOMAIN resets \cup {r}
      BY <2>2, RefuseFields DEF Forgot, TypeInv, RowsOK, At, Over
    <3> QED
      BY <1>1, <2>2, <3>1 DEF ResetInv
  <2>3. CASE TakeReset(r) \/ Consume(r)
    <3>1. DOMAIN resets' \subseteq DOMAIN resets
      BY <2>3 DEF TakeReset, Consume, Without
    <3> QED
      BY <1>0, <1>1, <3>1 DEF ResetInv
  <2> QED
    BY <2>1, <2>2, <2>3, MemoryWriters
<1>3. ASSUME NEW q \in Req, Spent(q), q # r
      PROVE  /\ Body(q).token \notin DOMAIN resets'
             /\ Body(q).token \in Req => req'[Body(q).token].pc = "done"
  <2>1. Body(q).token \in Req => req[Body(q).token].pc = "done" /\ Body(q).token # r
    BY <1>0, <1>3 DEF ResetInv, At
  <2>2. Body(q).token \notin DOMAIN resets
    BY <1>3 DEF ResetInv
  <2> QED
    BY <1>0, <1>2, <2>1, <2>2
<1>4. ASSUME Spent(r)'
      PROVE  /\ Body(r)' = Body(r) /\ Body(r).token \notin DOMAIN resets'
             /\ Body(r).token \in Req => req'[Body(r).token].pc = "done"
             /\ Body(r).token \in DOMAIN resets
  <2>1. Consume(r) /\ Body(r)' = Body(r)
    BY <1>4, SpendsWhenConsumed
  <2>2. Body(r).token \in DOMAIN resets /\ Body(r).token \notin DOMAIN resets'
    BY <1>4, <2>1, RefuseFields DEF Consume, Without, TypeInv, RowsOK, Spent, At
  <2>3. Body(r).token \in Req => req[Body(r).token].pc = "done" /\ Body(r).token # r
    BY <1>0, <2>2 DEF ResetInv, At
  <2> QED
    BY <1>0, <2>1, <2>2, <2>3
<1>5. ASSUME NEW p \in Req, Spent(p)'
      PROVE  /\ p # r => Spent(p)
             /\ Body(p)' = Body(p) /\ Body(p).token \notin DOMAIN resets'
             /\ Body(p).token \in Req => req'[Body(p).token].pc = "done"
  <2>1. CASE p = r
    BY <1>4, <1>5, <2>1
  <2>2. CASE p # r
    <3>1. Spent(p) /\ Body(p)' = Body(p)
      BY <1>0, <1>5, <2>2 DEF Spent, Body, Kind, At
    <3> QED
      BY <1>3, <2>2, <3>1
  <2> QED
    BY <2>1, <2>2
<1>6. ASSUME NEW p \in Req, NEW q \in Req, Spent(p)', Spent(q)',
             Body(p).token = Body(q).token, p # q
      PROVE  FALSE
  <2>1. CASE p # r /\ q # r
    BY <1>5, <1>6, <2>1 DEF ResetInv
  <2>2. CASE p = r
    BY <1>4, <1>5, <1>6, <2>2 DEF ResetInv
  <2>3. CASE q = r
    BY <1>4, <1>5, <1>6, <2>3 DEF ResetInv
  <2> QED
    BY <2>1, <2>2, <2>3
<1>7. \A p, q \in Req : Spent(p)' /\ Spent(q)' /\ req'[p].body.token = req'[q].body.token => p = q
  BY <1>5, <1>6 DEF Body
<1> QED
  BY <1>2, <1>5, <1>7 DEF ResetInv, At, Body

\* A token that was spent stays spent in every step.
LEMMA ResetStep == TypeInv /\ ResetInv /\ [Next]_vars => ResetInv'
<1> SUFFICES ASSUME TypeInv, ResetInv, [Next]_vars PROVE ResetInv'
  OBVIOUS
\* What spends no token and brings none back.
<1>1. ASSUME DOMAIN resets' \subseteq DOMAIN resets,
             \A r \in Req : /\ Spent(r)' => Spent(r) /\ Body(r)' = Body(r)
                            /\ At(r, "done") => At(r, "done")'
      PROVE  ResetInv'
  BY <1>1 DEF ResetInv
<1>2. ASSUME NEW r \in Req, Commit(r) PROVE ResetInv'
  <2>0. DOMAIN req = Req /\ \A q \in Req : RequestOK(q)
    BY DEF TypeInv, RowsOK
  <2>1. ASSUME NEW q \in Req, q # r
        PROVE  /\ req'[q].body = req[q].body /\ req'[q].pc = req[q].pc
               /\ req'[q].status = req[q].status
    BY <1>2, <2>0, <2>1, CommitRequests DEF RequestOK, Fields
  <2>2. At(r, "commit") /\ req'[r].body = req[r].body /\ req'[r].pc = "done"
    BY <1>2, <2>0, CommitRequests DEF Commit
  <2>3. resets' = resets
    BY <1>2 DEF Commit
  <2> QED
    BY <1>1, <2>1, <2>2, <2>3 DEF Spent, At, Kind, Body
<1>3. CASE Restart
  <2>1. DOMAIN resets' = {}
    BY <1>3 DEF Restart
  <2> QED
    BY <1>1, <1>3, <2>1, RestartEffect DEF Spent, At, Kind, Body
<1>4. CASE Tick \/ UNCHANGED vars
  BY <1>1, <1>4 DEF Tick, vars, Spent, At, Kind, Body
<1> QED
  BY <1>2, <1>3, <1>4, ResetHandled DEF Next

\* However many requests carry a reset token, and whenever the server restarts, one
\* of them at most changes the password.
THEOREM TokensResetOnce == Spec => []ResetOnce
<1>1. Init => ResetInv
  BY NamesAreApart DEF Init, Blank, ResetInv, Spent, At
<1>2. ResetInv => ResetOnce
  BY DEF ResetInv, ResetOnce, Spent
<1> QED
  BY <1>1, <1>2, ResetStep, TypeAlways, PTL DEF Spec

-----------------------------------------------------------------------------
(* The rate limit.  The list of a path holds every request that this life of     *)
(* the server let through in the last window; what was cleaned out of it is too  *)
(* old to count from then on.                                                    *)

Through(p, t) == {r \in Req : /\ req[r].passed # None /\ Kind(r) = p
                              /\ req[r].passed[1] = life
                              /\ req[r].passed[2] \in (t - Window + 1) .. t}

Counted(p, r) ==
  \/ r \in DOMAIN hits[p] /\ hits[p][r] = req[r].passed[2]
  \/ now - req[r].passed[2] >= Window

RateInv ==
  /\ \A p \in DOMAIN Limit : \A t \in 0 .. now :
       IsFiniteSet(Through(p, t)) /\ Cardinality(Through(p, t)) <= Limit[p]
  /\ \A p \in DOMAIN Limit : IsFiniteSet(DOMAIN hits[p])
  /\ \A r \in Req : req[r].passed # None =>
       /\ req[r].pc # "idle"
       /\ req[r].passed[1] \in 0 .. life /\ req[r].passed[2] \in 0 .. now
       /\ \A p \in DOMAIN Limit : Kind(r) = p /\ req[r].passed[1] = life => Counted(p, r)

\* The requests of the last window are in the list.
LEMMA LastWindowListed ==
  ASSUME TypeInv, RateInv, NEW p \in DOMAIN Limit
  PROVE  Through(p, now) \subseteq Recent(p)
BY TimesAreNatural DEF Through, Recent, RateInv, Counted, TypeInv, RowsOK

\* What leaves the limiter's lists and the requests it has let through as they are.
LEMMA RateKept ==
  ASSUME TypeInv, RateInv, UNCHANGED <<now, life, hits>>,
         \A q \in Req : /\ req'[q].passed = req[q].passed /\ req'[q].body = req[q].body
                        /\ req[q].pc # "idle" => req'[q].pc # "idle"
  PROVE  RateInv'
<1>1. \A p, t : Through(p, t)' = Through(p, t)
  BY DEF Through, Kind
<1> QED
  BY <1>1 DEF RateInv, Counted, Kind

\* The limiter lets a request through only while the last window has room.
LEMMA RateArrive ==
  ASSUME NEW r \in Req, TypeInv, RateInv, Arrive(r)
  PROVE  RateInv'
<1>0. /\ RowsOK /\ Window \in Nat \ {0} /\ \A p \in DOMAIN Limit : Limit[p] \in Nat
      /\ UNCHANGED <<now, life>>
  BY TimesAreNatural, LimitsAreNatural DEF TypeInv, Arrive
<1>1. PICK mix \in Mixes : \E b \in mix : Admit(r, b) /\ b.kind \in DOMAIN FirstStep
  BY ArriveEffect
<1>2. PICK b \in mix : Admit(r, b) /\ b.kind \in DOMAIN FirstStep
  BY <1>1
<1> DEFINE k == b.kind
           let == k \in DOMAIN Limit /\ Cardinality(Recent(k)) < Limit[k]
<1>4. ASSUME NEW p \in DOMAIN Limit
      PROVE  IsFiniteSet(DOMAIN hits[p]) /\ Recent(p) \subseteq DOMAIN hits[p]
             /\ IsFiniteSet(Recent(p)) /\ Cardinality(Recent(p)) \in Nat
             /\ IsFiniteSet(Recent(p) \cup {r})
             /\ Cardinality(Recent(p) \cup {r}) <= Cardinality(Recent(p)) + 1
  <2>1. IsFiniteSet(DOMAIN hits[p]) /\ Recent(p) \subseteq DOMAIN hits[p]
    BY DEF RateInv, Recent
  <2>2. IsFiniteSet(Recent(p)) /\ Cardinality(Recent(p)) \in Nat
    BY <2>1, FS_Subset, FS_CardinalityType
  <2>3. /\ IsFiniteSet(Recent(p) \cup {r})
        /\ Cardinality(Recent(p) \cup {r}) = IF r \in Recent(p) THEN Cardinality(Recent(p))
                                             ELSE Cardinality(Recent(p)) + 1
    BY <2>2, FS_AddElement
  <2> QED
    BY <2>1, <2>2, <2>3
<1>3. /\ \A q \in Req \ {r} : req'[q] = req[q]
      /\ req'[r].body = b /\ req'[r].pc # "idle"
      /\ req'[r].passed = IF let THEN <<life, now>> ELSE None
  <2>1. ASSUME k \in DOMAIN Limit PROVE Cardinality(Recent(k)) >= Limit[k] <=> ~let
    <3>1. Limit[k] \in Nat /\ Cardinality(Recent(k)) \in Nat
      BY <1>0, <1>4, <2>1
    <3> QED
      BY <2>1, <3>1
  <2>2. FirstStep[k] # "idle"
    BY <1>2 DEF FirstStep
  <2>3. CASE let
    BY <1>0, <1>2, <2>1, <2>2, <2>3, SetFields DEF Admit, Fields, RowsOK
  <2>4. CASE ~let
    BY <1>0, <1>2, <2>1, <2>2, <2>4, SetFields DEF Admit, Fields, RowsOK
  <2> QED
    BY <2>3, <2>4
<1>5. ASSUME NEW p \in DOMAIN Limit
      PROVE  \/ /\ p = k /\ DOMAIN hits'[p] = IF let THEN Recent(p) \cup {r} ELSE Recent(p)
                /\ \A q \in DOMAIN hits'[p] : hits'[p][q] = IF let /\ q = r THEN now ELSE hits[p][q]
             \/ p # k /\ hits'[p] = hits[p]
  <2>1. CASE p = k
    <3> DEFINE recent == [q \in Recent(k) |-> hits[k][q]]
               full == Cardinality(Recent(k)) >= Limit[k]
    <3>1. full <=> ~let
      <4>1. k \in DOMAIN Limit /\ Limit[k] \in Nat /\ Cardinality(Recent(k)) \in Nat
        BY <1>0, <1>4, <1>5, <2>1
      <4> QED
        BY <4>1
    <3>2. hits'[p] = IF full THEN recent ELSE Over([q \in {r} |-> now], recent)
      BY <1>0, <1>2, <1>5, <2>1 DEF Admit, RowsOK
    <3>3. CASE full
      BY <2>1, <3>1, <3>2, <3>3 DEF Recent
    <3>4. CASE ~full
      BY <2>1, <3>1, <3>2, <3>4 DEF Over, Recent
    <3> QED
      BY <3>3, <3>4
  <2>2. CASE p # k
    BY <1>0, <1>2, <1>5, <2>2 DEF Admit, RowsOK
  <2> QED
    BY <2>1, <2>2
<1>6. req[r].passed = None
  BY DEF RateInv, Arrive, At
\* The request counts in the window that ends now, of its own path.
<1>7. ASSUME NEW p \in DOMAIN Limit, NEW t \in 0 .. now
      PROVE  \/ Through(p, t)' \subseteq Through(p, t)
             \/ let /\ p = k /\ t = now /\ Through(p, t)' \subseteq Through(p, t) \cup {r}
  BY <1>0, <1>3, <1>7 DEF Through, Kind, Body, RowsOK
<1>8. ASSUME NEW p \in DOMAIN Limit, NEW t \in 0 .. now
      PROVE  IsFiniteSet(Through(p, t)') /\ Cardinality(Through(p, t)') <= Limit[p]
  <2>1. /\ Cardinality(Through(p, t)) <= Limit[p]
        /\ IsFiniteSet(Through(p, t)) /\ Cardinality(Through(p, t)) \in Nat
    BY <1>8, FS_CardinalityType DEF RateInv
  <2>2. CASE Through(p, t)' \subseteq Through(p, t)
    <3>1. Cardinality(Through(p, t)') <= Cardinality(Through(p, t))
      BY <2>1, <2>2, FS_Subset
    <3>2. IsFiniteSet(Through(p, t)') /\ Cardinality(Through(p, t)') \in Nat
      BY <2>1, <2>2, FS_Subset, FS_CardinalityType
    <3> QED
      BY <1>0, <2>1, <3>1, <3>2
  <2>3. CASE let /\ p = k /\ t = now /\ Through(p, t)' \subseteq Through(p, t) \cup {r}
    <3> DEFINE S == Recent(p) \cup {r}
    <3>1. Through(p, t)' \subseteq S
      BY <2>3, LastWindowListed
    <3>2. IsFiniteSet(S) /\ Cardinality(S) <= Cardinality(Recent(p)) + 1
      BY <1>4, <1>8
    <3>3. /\ IsFiniteSet(Through(p, t)') /\ Cardinality(Through(p, t)') <= Cardinality(S)
          /\ Cardinality(Through(p, t)') \in Nat /\ Cardinality(S) \in Nat
      BY <3>1, <3>2, FS_Subset, FS_CardinalityType
    <3> QED
      BY <1>0, <1>4, <2>3, <3>2, <3>3
  <2> QED
    BY <1>7, <2>2, <2>3
<1>9. \A p \in DOMAIN Limit : IsFiniteSet(DOMAIN hits'[p])
  BY <1>4, <1>5
<1>10. ASSUME NEW q \in Req, req'[q].passed # None
       PROVE  /\ req'[q].pc # "idle"
              /\ req'[q].passed[1] \in 0 .. life /\ req'[q].passed[2] \in 0 .. now
              /\ \A p \in DOMAIN Limit : Kind(q)' = p /\ req'[q].passed[1] = life => Counted(p, q)'
  <2>1. CASE q = r
    <3>1. let /\ req'[r].passed = <<life, now>>
      BY <1>3, <1>10, <2>1
    <3> QED
      BY <1>0, <1>3, <1>5, <2>1, <3>1 DEF Counted, Kind, Body, RowsOK
  <2>2. CASE q # r
    <3>1. req'[q] = req[q]
      BY <1>3, <2>2
    <3>2. /\ req[q].pc # "idle"
          /\ req[q].passed[1] \in 0 .. life /\ req[q].passed[2] \in 0 .. now
          /\ \A p \in DOMAIN Limit : Kind(q) = p /\ req[q].passed[1] = life => Counted(p, q)
      BY <1>10, <3>1 DEF RateInv
    <3>3. ASSUME NEW p \in DOMAIN Limit, Counted(p, q)
          PROVE  Counted(p, q)'
      <4>1. CASE p = k
        <5>1. CASE q \in Recent(p) /\ hits[p][q] = req[q].passed[2]
          BY <1>5, <2>2, <3>1, <4>1, <5>1 DEF Counted
        <5>2. CASE now - req[q].passed[2] >= Window
          BY <1>0, <3>1, <5>2 DEF Counted
        <5>3. q \in DOMAIN hits[p] /\ q \notin Recent(p) => now - hits[p][q] >= Window
          <6>1. q \in DOMAIN hits[p] => hits[p][q] \in Int /\ now \in Int
            BY <1>0 DEF RowsOK
          <6> QED
            BY <1>0, <6>1 DEF Recent
        <5> QED
          BY <3>3, <5>1, <5>2, <5>3 DEF Counted
      <4>2. CASE p # k
        BY <1>0, <1>5, <2>2, <3>1, <3>3, <4>2 DEF Counted
      <4> QED
        BY <4>1, <4>2
    <3> QED
      BY <1>0, <3>1, <3>2, <3>3 DEF Kind, Body
  <2> QED
    BY <2>1, <2>2
<1> QED
  BY <1>0, <1>8, <1>9, <1>10 DEF RateInv

\* A window that ends later begins later: time passing brings no request into it.
LEMMA RateTick ==
  ASSUME TypeInv, RateInv, Tick
  PROVE  RateInv'
<1>0. /\ RowsOK /\ Window \in Nat \ {0} /\ \A p \in DOMAIN Limit : Limit[p] \in Nat
      /\ now' = now + 1 /\ UNCHANGED <<life, hits, req>>
  BY TimesAreNatural, LimitsAreNatural DEF TypeInv, Tick
<1>1. ASSUME NEW p \in DOMAIN Limit, NEW t \in 0 .. now'
      PROVE  IsFiniteSet(Through(p, t)') /\ Cardinality(Through(p, t)') <= Limit[p]
  <2>1. CASE t \in 0 .. now
    <3>1. Through(p, t)' = Through(p, t)
      BY <1>0 DEF Through, Kind, Body
    <3> QED
      BY <2>1, <3>1 DEF RateInv
  <2>2. CASE t = now + 1
    <3>1. Through(p, t)' \subseteq Through(p, now)
      BY <1>0, <2>2 DEF Through, Kind, Body, RateInv, RowsOK
    <3>2. IsFiniteSet(Through(p, now)) /\ Cardinality(Through(p, now)) <= Limit[p]
      BY <1>0 DEF RateInv, RowsOK
    <3>3. /\ IsFiniteSet(Through(p, t)')
          /\ Cardinality(Through(p, t)') <= Cardinality(Through(p, now))
          /\ Cardinality(Through(p, t)') \in Nat /\ Cardinality(Through(p, now)) \in Nat
      BY <3>1, <3>2, FS_Subset, FS_CardinalityType
    <3> QED
      BY <1>0, <3>2, <3>3
  <2> QED
    BY <1>0, <2>1, <2>2 DEF RowsOK
<1>2. \A r \in Req : req[r].passed # None =>
        /\ req[r].passed[2] \in 0 .. now'
        /\ \A p \in DOMAIN Limit : Counted(p, r) => Counted(p, r)'
  BY <1>0 DEF RateInv, Counted, RowsOK
<1> QED
  BY <1>0, <1>1, <1>2 DEF RateInv, Kind, Body

\* A new life of the server has let no request through.
LEMMA RateRestart ==
  ASSUME TypeInv, RateInv, Restart
  PROVE  RateInv'
<1>0. /\ RowsOK /\ \A p \in DOMAIN Limit : Limit[p] \in Nat
      /\ now' = now /\ life' = life + 1 /\ DOMAIN hits' = DOMAIN Limit
      /\ \A p \in DOMAIN Limit : hits'[p] = <<>>
  BY LimitsAreNatural DEF TypeInv, Restart
<1>1. ASSUME NEW r \in Req, req'[r].passed # None
      PROVE  /\ req'[r].pc # "idle"
             /\ req'[r].passed[1] \in 0 .. life /\ req'[r].passed[2] \in 0 .. now
             /\ req'[r].passed[1] # life' /\ req'[r].passed[1] \in 0 .. life'
  <2>1. req'[r].passed = req[r].passed /\ (req[r].pc # "idle" => req'[r].pc # "idle")
    BY RestartEffect
  <2>2. req[r].pc # "idle" /\ req[r].passed[1] \in 0 .. life /\ req[r].passed[2] \in 0 .. now
    BY <1>1, <2>1 DEF RateInv
  <2> QED
    BY <1>0, <2>1, <2>2 DEF RowsOK
<1>2. ASSUME NEW p, NEW t
      PROVE  IsFiniteSet(Through(p, t)') /\ Cardinality(Through(p, t)') = 0
  <2>1. Through(p, t)' = {}
    BY <1>1 DEF Through
  <2> QED
    BY <2>1, FS_EmptySet
<1>3. \A p \in DOMAIN Limit : IsFiniteSet(DOMAIN hits'[p])
  BY <1>0, FS_EmptySet
<1> QED
  BY <1>0, <1>1, <1>2, <1>3 DEF RateInv

\* The limiter's lists count what was let through in every step.
LEMMA RateStep == TypeInv /\ RateInv /\ [Next]_vars => RateInv'
<1> SUFFICES ASSUME TypeInv, RateInv, [Next]_vars PROVE RateInv'
  OBVIOUS
<1>0. DOMAIN req = Req /\ \A q \in Req : RequestOK(q)
  BY DEF TypeInv, RowsOK
<1>1. ASSUME NEW r \in Req, Handle(r), ~Commit(r), ~Arrive(r) PROVE RateInv'
  <2>1. Alone(r) /\ Advances(r) /\ hits' = hits /\ RequestOK(r)'
    BY <1>1, HandledOK, MemoryWriters
  <2> QED
    BY <2>1, RateKept DEF Alone, Advances
<1>2. ASSUME NEW r \in Req, Commit(r) PROVE RateInv'
  <2>1. ASSUME NEW q \in Req
        PROVE  /\ req'[q].body = req[q].body /\ req'[q].passed = req[q].passed
               /\ req[q].pc # "idle" => req'[q].pc # "idle"
    BY <1>0, <1>2, <2>1, CommitRequests DEF RequestOK, Fields
  <2> QED
    BY <1>2, <2>1, RateKept DEF Commit
<1>3. CASE UNCHANGED vars
  BY <1>3, RateKept DEF vars
<1> QED
  BY <1>1, <1>2, <1>3, RateArrive, RateTick, RateRestart DEF Next

\* At first no request has been let through.
LEMMA RateInit == Init => RateInv
<1> SUFFICES ASSUME Init PROVE RateInv
  OBVIOUS
<1>1. /\ now = 0 /\ \A r \in Req : req[r].passed = None
      /\ \A p \in DOMAIN Limit : hits[p] = <<>>
  BY DEF Init, Blank
<1>2. ASSUME NEW p, NEW t
      PROVE  IsFiniteSet(Through(p, t)) /\ Cardinality(Through(p, t)) = 0
  <2>1. Through(p, t) = {}
    BY <1>1 DEF Through
  <2> QED
    BY <2>1, FS_EmptySet
<1>3. \A p \in DOMAIN Limit : IsFiniteSet(DOMAIN hits[p])
  BY <1>1, FS_EmptySet
<1> QED
  BY <1>1, <1>2, <1>3, LimitsAreNatural DEF RateInv

\* No life of the server lets more requests through to a path, in any window of time,
\* than RATE_LIMITS allows.
THEOREM RateIsKept == Spec => []WithinRate
<1>1. RateInv => WithinRate
  BY DEF RateInv, WithinRate, Through
<1> QED
  BY <1>1, RateInit, RateStep, TypeAlways, PTL DEF Spec

-----------------------------------------------------------------------------
(* Justified success.  A running request holds what was committed since it came, *)
(* the present state of the tables included; once it is past its look at the     *)
(* account or the token, one of the states it holds justifies it.                *)

Past(r) ==
  \/ req[r].pc \in {"check", "load", "update", "revoke", "issue", "consume", "commit"}
  \/ req[r].pc = "insert" /\ req[r].body.kind # "google"

JustInv ==
  \A r \in Req : /\ Running(r) => Committed \in req[r].held
                 /\ Past(r) => \E s \in req[r].held : Justifies(s, r)

\* What justifies a request is committed when its handler reads it.
LEMMA JustHandled ==
  ASSUME NEW r \in Req, TypeInv, JustInv, Handle(r), ~Commit(r)
  PROVE  JustInv'
<1> DEFINE q == req[r]
           b == Body(r)
<1>0. /\ DOMAIN req = Req /\ RequestOK(r) /\ RequestOK(r)' /\ (Arrive(r) \/ Advances(r))
      /\ Alone(r) /\ q.pc # "done"
  BY HandledOK, DoneStays DEF TypeInv, RowsOK
<1>1. Committed' = Committed
  BY <1>0 DEF Alone, Committed
<1>2. ASSUME NEW p \in Req, p # r
      PROVE  /\ Running(p)' => Committed' \in req'[p].held
             /\ Past(p)' => \E s \in req'[p].held : Justifies(s, p)'
  <2>1. req'[p] = req[p]
    BY <1>0, <1>2 DEF Alone
  <2>2. Running(p)' => Committed' \in req'[p].held
    BY <1>1, <2>1 DEF JustInv, Running
  <2>3. ASSUME Past(p)' PROVE \E s \in req'[p].held : Justifies(s, p)'
    <3>1. PICK s \in req[p].held : Justifies(s, p)
      BY <2>1, <2>3 DEF JustInv, Past
    <3> QED
      BY <2>1, <3>1 DEF Justifies, Body
  <2> QED
    BY <2>2, <2>3
<1>3. Running(r)' => Committed \in req'[r].held
  BY <1>0, ArriveEffect DEF Advances, JustInv, Running
\* What is committed now justifies the request.
<1>4. ASSUME Running(r)', Justifies(Committed, r)'
      PROVE  \E s \in req'[r].held : Justifies(s, r)'
  BY <1>1, <1>3, <1>4
\* What justified the request still does.
<1>5. ASSUME Advances(r), Past(r), req'[r].pc # "done", req'[r].stored = q.stored,
             req'[r].user = q.user \/ b.kind \notin {"login", "admin_login", "google"}
      PROVE  \E s \in req'[r].held : Justifies(s, r)'
  <2>1. PICK s \in q.held : Justifies(s, r)
    BY <1>5 DEF JustInv
  <2>2. s \in req'[r].held /\ req'[r].body = b
    BY <1>5 DEF Advances, Body
  <2>3. Justifies(s, r)'
    BY <1>5, <2>1, <2>2 DEF Justifies, Body
  <2> QED
    BY <2>2, <2>3
<1>6. ASSUME Past(r)' PROVE \E s \in req'[r].held : Justifies(s, r)'
  <2>0. Running(r)' /\ req'[r].pc # "done"
    BY <1>6 DEF Past, Running
  <2>1. CASE Arrive(r)
    <3>1. req'[r].body.kind = "register"
      BY <1>6, <2>1, ArriveEffect DEF Past, FirstStep
    <3>2. Justifies(Committed, r)'
      BY <3>1 DEF Justifies, Body
    <3> QED
      BY <1>4, <2>0, <3>2
  <2>2. ASSUME ~Arrive(r)
        PROVE  /\ Advances(r) /\ req'[r].body = b
               /\ \A c : ~Refuse(r, c)
    <3>1. Advances(r) /\ req'[r].body = b
      BY <1>0, <2>2 DEF Advances, Body
    <3>2. \A c : Refuse(r, c) => req'[r].pc = "done"
      BY <1>0, RefuseFields
    <3> QED
      BY <2>0, <3>1, <3>2
  <2>3. CASE Authenticate(r)
    <3>1. /\ users[b.caller].active
          /\ b.kind \in {"create_staff", "update_user"} => users[b.caller].role = "admin"
          /\ b.kind \in {"create_staff", "update_user", "update_me"}
      BY <1>0, <2>0, <2>3, RefuseFields DEF Authenticate
    <3>2. ~Arrive(r)
      BY <2>3 DEF Authenticate, Arrive, At
    <3>3. Justifies(Committed, r)'
      BY <1>1, <2>2, <3>1, <3>2 DEF Justifies, Body, Committed
    <3> QED
      BY <1>4, <2>0, <3>3
  <2>4. CASE Login(r)
    <3>1. ~Arrive(r) /\ b.kind \in {"login", "admin_login"}
      BY <2>4 DEF Login, Arrive, At, Kind, Body
    <3>2. PICK u \in Admitted(b) : Set(r, [user |-> u, row |-> users[u], pc |-> "issue"])
      BY <2>2, <2>4, <3>1 DEF Login
    <3>3. /\ u \in DOMAIN users /\ users[u].active /\ users[u].pw = b.pw
          /\ b.kind = "admin_login" => users[u].role = "admin"
      BY DEF Admitted, Authentic, Named, Known
    <3>4. req'[r].user = u
      BY <1>0, <3>2, SetFields DEF Fields
    <3>5. Justifies(Committed, r)'
      BY <1>1, <2>2, <3>1, <3>3, <3>4 DEF Justifies, Body, Committed
    <3> QED
      BY <1>4, <2>0, <3>5
  <2>5. CASE GoogleRead(r)
    <3>1. ~Arrive(r) /\ b.kind = "google"
      BY <2>5 DEF GoogleRead, Arrive, At, Kind, Body
    <3>2. ~Set(r, [pc |-> "name"])
      BY <1>0, <1>6, SetFields DEF Past, Fields
    <3>3. PICK u \in Known("email", b.email) :
            /\ users[u].active
            /\ Set(r, [user |-> u, row |-> users[u],
                       pc |-> IF b.picture \in {None, users[u].avatar} THEN "issue" ELSE "update"])
      BY <2>2, <2>5, <3>1, <3>2 DEF GoogleRead
    <3>4. u \in DOMAIN users /\ req'[r].user = u
      BY <1>0, <3>3, SetFields DEF Fields, Known
    <3>5. Justifies(Committed, r)'
      BY <1>1, <2>2, <3>1, <3>3, <3>4 DEF Justifies, Body, Committed
    <3> QED
      BY <1>4, <2>0, <3>5
  <2>6. CASE ReadToken(r)
    <3>1. ~Arrive(r) /\ b.kind = "refresh"
      BY <2>6 DEF ReadToken, Arrive, At, Kind, Body
    <3>2. PICK t \in Unrevoked(b.token) : Set(r, [stored |-> t, pc |-> "revoke"])
      BY <2>2, <2>6, <3>1 DEF ReadToken
    <3>3. t \in DOMAIN tokens /\ ~tokens[t].revoked /\ req'[r].stored = t
      BY <1>0, <3>2, SetFields DEF Fields, Unrevoked
    <3>4. Justifies(Committed, r)'
      BY <1>1, <2>2, <3>1, <3>3 DEF Justifies, Body, Committed
    <3> QED
      BY <1>4, <2>0, <3>4
  <2>7. CASE TakeReset(r)
    <3>1. ~Arrive(r) /\ b.kind = "reset"
      BY <2>7 DEF TakeReset, Arrive, At, Kind, Body
    <3>2. Justifies(Committed, r)'
      BY <2>2, <3>1 DEF Justifies, Body
    <3> QED
      BY <1>4, <2>0, <3>2
  <2>8. CASE GoogleName(r)
    <3>1. req'[r].pc = "insert" /\ req'[r].body.kind = "google"
      BY <1>0, <2>8, SetFields DEF GoogleName, Fields, RequestOK, At
    <3> QED
      BY <1>6, <3>1 DEF Past
  <2>9. CASE Insert(r)
    <3>1. ~Arrive(r) /\ q.pc = "insert"
      BY <2>9 DEF Insert, Arrive, At
    <3>2. CASE b.kind = "google"
      <4>1. req'[r].user = r
        BY <1>0, <2>2, <2>9, <3>1, SetFields DEF Insert, Fields
      <4>2. Justifies(Committed, r)'
        BY <2>2, <3>1, <3>2, <4>1 DEF Justifies, Body
      <4> QED
        BY <1>4, <2>0, <4>2
    <3>3. CASE b.kind # "google"
      <4>1. Past(r) /\ req'[r].stored = q.stored
        BY <2>0, <2>2, <3>1, <3>3 DEF Past, Body, Advances
      <4>2. b.kind \notin {"login", "admin_login"}
        BY <1>0, <3>1 DEF RequestOK, Body
      <4> QED
        BY <1>5, <2>0, <2>2, <3>1, <3>3, <4>1, <4>2
    <3> QED
      BY <3>2, <3>3
  <2>10. CASE \/ Check(r) \/ Checked(r) \/ Load(r) \/ Update(r)
              \/ Revoke(r) \/ Issue(r) \/ Consume(r)
    <3>1. /\ q.pc \in {"check", "load", "update", "revoke", "issue", "consume"}
          /\ ~Arrive(r) /\ ~Insert(r)
      BY <2>10
         DEF Check, Checked, Load, Update, Revoke, Issue, Consume, Arrive, Insert, At
    <3>2. Past(r) /\ req'[r].stored = q.stored /\ req'[r].user = q.user
      BY <2>0, <2>2, <3>1 DEF Past, Advances
    <3> QED
      BY <1>5, <2>0, <2>2, <3>1, <3>2
  <2>11. CASE Forgot(r) \/ Abort(r)
    BY <1>0, <2>0, <2>11, RefuseFields DEF Forgot, Abort
  <2> QED
    BY <2>1, <2>3, <2>4, <2>5, <2>6, <2>7, <2>8, <2>9, <2>10, <2>11 DEF Handle
<1> QED
  BY <1>1, <1>2, <1>3, <1>6 DEF JustInv

\* A commit adds to what the others may rely on, and takes nothing from it.
LEMMA JustCommitted ==
  ASSUME NEW r \in Req, TypeInv, JustInv, Commit(r)
  PROVE  JustInv'
<1>0. DOMAIN req = Req /\ At(r, "commit") /\ req'[r].pc = "done"
  BY CommitRequests DEF TypeInv, RowsOK, Commit
<1>1. ASSUME NEW p \in Req, p # r
      PROVE  /\ Running(p)' => Committed' \in req'[p].held
             /\ Past(p)' => \E s \in req'[p].held : Justifies(s, p)'
  <2>1. RequestOK(p)
    BY DEF TypeInv
  <2>2. /\ req'[p].pc = req[p].pc /\ req'[p].body = req[p].body /\ req'[p].user = req[p].user
        /\ req'[p].stored = req[p].stored
    BY <1>0, <1>1, <2>1, CommitRequests DEF RequestOK, Fields
  <2>3. Running(p) => req'[p].held = req[p].held \cup {Committed'}
    BY <1>0, <1>1, <2>1 DEF Commit, RequestOK, Fields
  <2>4. Past(p) => Running(p)
    BY DEF Past, Running
  <2>5. ASSUME Past(p)' PROVE \E s \in req'[p].held : Justifies(s, p)'
    <3>1. Past(p)
      BY <2>2, <2>5 DEF Past
    <3>2. PICK s \in req[p].held : Justifies(s, p)
      BY <3>1 DEF JustInv
    <3> QED
      BY <2>2, <2>3, <2>4, <3>1, <3>2 DEF Justifies, Body
  <2> QED
    BY <2>2, <2>3, <2>5 DEF Running
<1>2. ~Running(r)' /\ ~Past(r)'
  BY <1>0 DEF Running, Past
<1> QED
  BY <1>1, <1>2 DEF JustInv

\* What justifies a running request was committed since its arrival, after every step.
LEMMA JustStep == TypeInv /\ JustInv /\ [Next]_vars => JustInv'
<1> SUFFICES ASSUME TypeInv, JustInv, [Next]_vars PROVE JustInv'
  OBVIOUS
\* Requests that are as they were, or have ended.
<1>1. ASSUME Committed' = Committed, \A r \in Req : req'[r] = req[r] \/ req'[r].pc = "done"
      PROVE  JustInv'
  <2>1. ASSUME NEW r \in Req, req'[r].pc = "done" PROVE ~Running(r)' /\ ~Past(r)'
    BY <2>1 DEF Running, Past
  <2>2. ASSUME NEW r \in Req, req'[r] = req[r]
        PROVE  /\ Running(r)' => Committed' \in req'[r].held
               /\ Past(r)' => \E s \in req'[r].held : Justifies(s, r)'
    <3>1. ASSUME Past(r)' PROVE \E s \in req'[r].held : Justifies(s, r)'
      <4>1. PICK s \in req[r].held : Justifies(s, r)
        BY <2>2, <3>1 DEF JustInv, Past
      <4> QED
        BY <2>2, <4>1 DEF Justifies, Body
    <3> QED
      BY <1>1, <2>2, <3>1 DEF JustInv, Running
  <2> QED
    BY <1>1, <2>1, <2>2 DEF JustInv
<1>2. CASE Restart
  BY <1>1, <1>2, RestartEffect DEF Restart, Committed
<1>3. CASE Tick \/ UNCHANGED vars
  BY <1>1, <1>3 DEF Tick, vars, Committed
<1> QED
  BY <1>2, <1>3, JustHandled, JustCommitted DEF Next

\* At first no request runs.
LEMMA JustInit == Init => JustInv
BY DEF Init, Blank, JustInv, Running, Past

\* Whatever else is committed meanwhile, a request succeeds only on the strength of
\* something that was committed while it ran: credentials, a live token, an active
\* administrator.
THEOREM SuccessIsJustified == Spec => SuccessJustified
<1>1. Spec => []JustInv
  BY TypeAlways, JustInit, JustStep, PTL DEF Spec
<1>2. JustInv =>
        [\A r \in Req : Succeeds(r) => \E s \in req[r].held : Justifies(s, r)]_vars
  BY DEF JustInv, Succeeds, Past
<1> QED
  BY <1>1, <1>2, PTL DEF SuccessJustified, Spec

-----------------------------------------------------------------------------
(* Columns written as asked.  What an open transaction has written to an account *)
(* that is there is what its body assigns.                                       *)

WritesInv ==
  \A r \in Req : req[r].user \in DOMAIN users =>
    \A c \in DOMAIN req[r].write :
      c \in DOMAIN Assigned(Body(r)) /\ req[r].write[c] = Assigned(Body(r))[c]

\* What a request flushes to an account that is there is assigned by its body.
LEMMA WritesHandled ==
  ASSUME NEW r \in Req, TypeInv, WritesInv, Handle(r), ~Commit(r)
  PROVE  WritesInv'
<1> DEFINE q == req[r]
<1>0. /\ users' = users /\ DOMAIN req = Req /\ \A p \in Req \ {r} : req'[p] = req[p]
      /\ RequestOK(r) /\ (Arrive(r) \/ Advances(r)) /\ q.pc # "done"
  BY HandledOK, DoneStays DEF Alone, TypeInv, RowsOK
<1>1. ASSUME req'[r].user \in DOMAIN users', NEW c \in DOMAIN req'[r].write
      PROVE  c \in DOMAIN Assigned(req'[r].body) /\ req'[r].write[c] = Assigned(req'[r].body)[c]
  <2>1. req'[r].write # <<>>
    BY <1>1
  <2>2. Advances(r) /\ req'[r].body = q.body
    BY <1>0, <2>1, ArriveEffect DEF Advances
  <2>3. CASE req'[r].write = q.write /\ req'[r].user = q.user
    BY <1>0, <1>1, <2>2, <2>3 DEF WritesInv, Body
  <2>4. CASE Insert(r)
    <3>1. req'[r].user = r
      BY <1>0, <2>1, <2>4, SetFields, RefuseFields DEF Insert, Fields
    <3> QED
      BY <1>0, <1>1, <3>1 DEF TypeInv, RowsOK
  <2>5. CASE Update(r)
    <3> DEFINE w == Flushed(r)
    <3>1. req'[r].write = w
      <4> HIDE DEF w
      <4> QED
        BY <1>0, <2>1, <2>5, SetFields, RefuseFields DEF Update, Fields, w
    <3> QED
      BY <1>1, <2>2, <3>1 DEF Flushed, Body
  <2> QED
    BY <1>0, <2>1, <2>2, <2>3, <2>4, <2>5 DEF Advances, RequestOK, Writing
<1> QED
  BY <1>0, <1>1 DEF WritesInv, Body

\* An account that a commit adds is not one that another request has written to.
LEMMA WritesCommitted ==
  ASSUME NEW r \in Req, TypeInv, WritesInv, Commit(r)
  PROVE  WritesInv'
<1>0. DOMAIN req = Req /\ req'[r].write = <<>>
  BY CommitRequests DEF TypeInv, RowsOK
<1>1. ASSUME NEW p \in Req, p # r, req[p].user \in DOMAIN users' PROVE
        req[p].write = <<>> \/ req[p].user \in DOMAIN users
  <2>1. RequestOK(p)
    BY DEF TypeInv
  <2> QED
    BY <1>1, <2>1, CommitEffect DEF RequestOK, HasRow, Writing
<1>2. ASSUME NEW p \in Req, p # r
      PROVE  /\ req'[p].write = req[p].write /\ req'[p].user = req[p].user
             /\ req'[p].body = req[p].body
  <2>1. DOMAIN req[p] = Fields
    BY DEF TypeInv, RequestOK
  <2> QED
    BY <1>0, <1>2, <2>1, CommitRequests DEF Fields
<1> QED
  BY <1>0, <1>1, <1>2 DEF WritesInv, Body

\* What is flushed stays as asked in every step.
LEMMA WritesStep == TypeInv /\ WritesInv /\ [Next]_vars => WritesInv'
<1> SUFFICES ASSUME TypeInv, WritesInv, [Next]_vars PROVE WritesInv'
  OBVIOUS
<1>1. CASE Restart
  <2>1. users' = users /\ \A r \in Req : req'[r] = req[r] \/ req'[r].write = <<>>
    BY <1>1, RestartEffect DEF Restart
  <2> QED
    BY <2>1 DEF WritesInv, Body
<1>2. CASE Tick \/ UNCHANGED vars
  BY <1>2 DEF Tick, vars, WritesInv, Body
<1> QED
  BY <1>1, <1>2, WritesHandled, WritesCommitted DEF Next

\* A column changes only to what the request that commits was sent to write.
THEOREM ColumnsWrittenAsAsked == Spec => WritesAsAsked
<1>1. Init => WritesInv
  <2>1. Init => \A r \in Req : req[r].write = <<>>
    BY DEF Init, Blank
  <2> QED
    BY <2>1 DEF WritesInv
<1>2. TypeInv /\ WritesInv /\ [Next]_vars =>
        [\A u \in DOMAIN users : \A c \in Columns :
           users'[u][c] # users[u][c] =>
             \E r \in Req : /\ Succeeds(r) /\ req[r].user = u
                            /\ c \in DOMAIN Assigned(Body(r))
                               /\ users'[u][c] = Assigned(Body(r))[c]]_vars
  <2> SUFFICES ASSUME TypeInv, WritesInv, Next, NEW u \in DOMAIN users, NEW c \in Columns,
                      users'[u][c] # users[u][c]
               PROVE  \E r \in Req : /\ Succeeds(r) /\ req[r].user = u
                                     /\ c \in DOMAIN Assigned(Body(r))
                                     /\ users'[u][c] = Assigned(Body(r))[c]
    OBVIOUS
  <2>1. ASSUME NEW r \in Req, Handle(r), ~Commit(r) PROVE FALSE
    BY <2>1, HandledOK DEF Alone
  <2>2. PICK r \in Req : Commit(r)
    BY <2>1 DEF Next, Restart, Tick
  <2>3. u = req[r].user /\ c \in DOMAIN req[r].write /\ users'[u][c] = req[r].write[c]
    BY <2>2, CommitEffect
  <2>4. Succeeds(r)
    BY <2>2, CommitRequests DEF Succeeds, Commit, At, TypeInv, RowsOK
  <2> QED
    BY <2>3, <2>4 DEF WritesInv
<1> QED
  BY <1>1, <1>2, WritesStep, TypeAlways, PTL DEF Spec, WritesAsAsked
=============================================================================
