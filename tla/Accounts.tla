------------------------------ MODULE Accounts ------------------------------
(***************************************************************************)
(* routers/auth.py: accounts, sign-in, rotation of refresh tokens and      *)
(* password reset, by concurrent requests, behind the rate limiter of      *)
(* middleware.py.  An action of a request is what its handler does between *)
(* two database statements; its writes are visible when it commits.        *)
(* PostgreSQL at READ COMMITTED: an UPDATE waits for the row lock of       *)
(* another open transaction, an INSERT or UPDATE of a unique key for an    *)
(* open transaction that sets or gives up that key.  Reset tokens and the  *)
(* limiter's lists live in the memory of the one server process.           *)
(***************************************************************************)
EXTENDS Integers, Sequences, FiniteSets

CONSTANTS
  Req, None,
  Accounts0, Tokens0, Resets0,  \* the rows and reset tokens of earlier requests
  Mixes,         \* the sets of bodies that may be asked for together
  NameOf,        \* the local part of an e-mail address
  Limit, Window, \* RATE_LIMITS: requests per path and window
  RefreshTTL, ResetTTL,
  MaxTime, MaxRestarts  \* bounds on the clock and the crashes

ASSUME TimesAreNatural ==
  /\ Window \in Nat \ {0}
  /\ {RefreshTTL, ResetTTL, MaxTime, MaxRestarts} \subseteq Nat
ASSUME LimitsAreNatural == \A p \in DOMAIN Limit : Limit[p] \in Nat
ASSUME NamesAreApart == None \notin Req /\ Req \cap (DOMAIN Accounts0 \cup DOMAIN Resets0) = {}

Columns == {"email", "phone", "username", "pw", "active", "avatar", "role"}
Key == {"email", "phone", "username"}
KeysOf(w) == {k \in Key \cap DOMAIN w : w[k] # None}

\* f with what g holds written over it.
Over(g, f) == [x \in DOMAIN g \cup DOMAIN f |-> IF x \in DOMAIN g THEN g[x] ELSE f[x]]

\* What earlier requests left keeps the constraints of the tables.
ASSUME RowsAreWhole ==
  /\ \A u \in DOMAIN Accounts0 : DOMAIN Accounts0[u] = Columns
  /\ \A u, v \in DOMAIN Accounts0 : \A k \in KeysOf(Accounts0[u]) :
       Accounts0[u][k] = Accounts0[v][k] => u = v
  /\ \A t \in DOMAIN Tokens0 :
       /\ DOMAIN Tokens0[t] = {"hash", "revoked"}
       /\ Tokens0[t].hash.at = 0 /\ Tokens0[t].hash.user \in DOMAIN Accounts0
  /\ \A x \in DOMAIN Resets0 : Resets0[x].user \in DOMAIN Accounts0

VARIABLES
  now,     \* the clock
  life,    \* restarts of the server so far
  hits,    \* RateLimitMiddleware._requests of one client, by path
  resets,  \* _password_reset_tokens: token to [user, expires]
  users,   \* the committed accounts, by id
  tokens,  \* the committed rows of refresh_tokens, by id
  req      \* the requests

vars == <<now, life, hits, resets, users, tokens, req>>

\* passed tells when the rate limiter let the request through, in which life;
\* write holds the columns a transaction has flushed to the row of user, revoke
\* the token row it has revoked, new the token it has inserted.
Blank == [pc |-> "idle", body |-> None, passed |-> None, status |-> 0,
          todo |-> <<>>, user |-> None, row |-> None, write |-> <<>>,
          stored |-> None, revoke |-> None, new |-> None, held |-> {}]

Init ==
  /\ now = 0 /\ life = 0
  /\ hits = [p \in DOMAIN Limit |-> <<>>]
  /\ resets = Resets0
  /\ users = Accounts0
  /\ tokens = Tokens0
  /\ req = [r \in Req |-> Blank]

Body(r) == req[r].body
Kind(r) == req[r].body.kind
Running(r) == req[r].pc \notin {"idle", "done"}
At(r, label) == req[r].pc = label

\* The fields of request r change as in f.
Set(r, f) == req' = [req EXCEPT ![r] = [x \in DOMAIN Blank |->
                                          IF x \in DOMAIN f THEN f[x] ELSE req[r][x]]]
\* An answer that ends the transaction with nothing written.
Refused(r, code) ==
  [Blank EXCEPT !.pc = "done", !.body = Body(r), !.passed = req[r].passed, !.status = code]
Refuse(r, code) == req' = [req EXCEPT ![r] = Refused(r, code)]

-----------------------------------------------------------------------------
\* RateLimitMiddleware.dispatch: clean, test and append without an await.
\* The list of a path holds one time for each request it let through, here by request.
Recent_cleans_early(path) == {q \in DOMAIN hits[path] : now - hits[path][q] < Window - 1}
Recent(path) == {q \in DOMAIN hits[path] : now - hits[path][q] < Window}

FirstStep == [register |-> "check", create_staff |-> "auth", login |-> "read",
              admin_login |-> "read", refresh |-> "read", update_me |-> "auth",
              forgot |-> "read", reset |-> "read", google |-> "read",
              update_user |-> "auth"]

\* Each body is sent to one of these endpoints.
ASSUME BodiesHaveHandlers == \A mix \in Mixes : \A b \in mix : b.kind \in DOMAIN FirstStep

KeyOrder == <<"email", "phone", "username">>
KeysGiven(b) == SelectSeq(KeyOrder, LAMBDA k : b[k] # None)

\* A client presents a refresh token it was given, and signs in before it acts.
Holds(b) ==
  /\ b.kind = "refresh" =>
       b.token.type = "access" \/ \E t \in DOMAIN tokens : tokens[t].hash = b.token
  /\ FirstStep[b.kind] = "auth" => b.caller \in DOMAIN users

\* What is committed; held collects it, from the arrival of a request to its end.
Committed == [users |-> users, tokens |-> tokens]

\* The request is let through, to the first step of its handler, or turned away.
Admit(r, b) ==
  LET limited == b.kind \in DOMAIN Limit
      full == limited /\ Cardinality(Recent(b.kind)) >= Limit[b.kind]
      recent == [q \in Recent(b.kind) |-> hits[b.kind][q]] IN
  /\ Set(r, [body |-> b, held |-> IF full THEN {} ELSE {Committed},
             passed |-> IF limited /\ ~full THEN <<life, now>> ELSE None,
             pc |-> IF full THEN "done" ELSE FirstStep[b.kind],
             status |-> IF full THEN 429 ELSE 0,
             todo |-> IF b.kind \in {"register", "create_staff"} THEN KeysGiven(b) ELSE <<>>])
  /\ hits' = IF limited
             THEN [hits EXCEPT ![b.kind] = IF full THEN recent
                                           ELSE Over([q \in {r} |-> now], recent)]
             ELSE hits

Arrive(r) ==
  /\ At(r, "idle")
  /\ \E mix \in Mixes : \E b \in mix :
       /\ \A q \in Req : ~At(q, "idle") => Body(q) \in mix
       /\ Holds(b)
       /\ Admit(r, b)
  /\ UNCHANGED <<now, life, resets, users, tokens>>

-----------------------------------------------------------------------------
\* get_current_user, require_admin: the account is read again, whatever the token says.
Authenticate(r) ==
  /\ At(r, "auth")
  /\ LET b == Body(r)  u == users[b.caller]
         admitted == u.active /\ (b.kind \in {"create_staff", "update_user"} => u.role = "admin") IN
     \/ ~admitted /\ Refuse(r, IF u.active THEN 403 ELSE 401)
     \/ /\ admitted /\ b.kind = "create_staff"
        /\ Set(r, [pc |-> "check"])
     \/ /\ admitted /\ b.kind = "update_user"
        /\ Set(r, [pc |-> "load", user |-> b.user])
     \/ /\ admitted /\ b.kind = "update_me"
        /\ Set(r, [pc |-> "check", user |-> b.caller, row |-> u,
                   todo |-> IF b.username \in {None, u.username} THEN <<>> ELSE <<"username">>])
  /\ UNCHANGED <<now, life, hits, resets, users, tokens>>

Known(k, v) == {u \in DOMAIN users : users[u][k] = v}

\* get_by_email, get_by_phone, get_by_username: one query for each key given.
Check(r) ==
  /\ At(r, "check") /\ req[r].todo # <<>>
  /\ LET k == Head(req[r].todo) IN
     IF Known(k, Body(r)[k]) # {} THEN Refuse(r, 409) ELSE Set(r, [todo |-> Tail(req[r].todo)])
  /\ UNCHANGED <<now, life, hits, resets, users, tokens>>

Checked(r) ==
  /\ At(r, "check") /\ req[r].todo = <<>>
  /\ LET b == Body(r) IN
     \/ /\ b.kind = "register" /\ b.email = None /\ b.phone = None
        /\ Refuse(r, 422)
     \/ /\ \/ b.kind = "register" /\ (b.email # None \/ b.phone # None)
           \/ b.kind = "create_staff"
        /\ Set(r, [pc |-> "insert",
                   row |-> [email |-> b.email, phone |-> b.phone, username |-> b.username,
                            pw |-> b.pw, active |-> TRUE, avatar |-> None,
                            role |-> IF b.kind = "register" THEN "user" ELSE b.role]])
     \/ b.kind = "update_me" /\ Set(r, [pc |-> "update"])
  /\ UNCHANGED <<now, life, hits, resets, users, tokens>>

\* An open transaction sets, or gives up, a key that w needs.
Contended(r, w) ==
  \E q \in Req \ {r} : \E k \in KeysOf(w) \cap DOMAIN req[q].write :
    \/ req[q].write[k] = w[k]
    \/ req[q].user \in DOMAIN users /\ users[req[q].user][k] = w[k]
\* The unique constraints of the users table; integrity_error_handler answers
\* with the code that a check made in time would have given.
UniqueViolation == 409
Clashes_checked_before(u, w) == FALSE
Clashes(u, w) == \E k \in KeysOf(w) : Known(k, w[k]) \ {u} # {}

Insert(r) ==
  /\ At(r, "insert")
  /\ ~Contended(r, req[r].row)
  /\ IF Clashes(r, req[r].row) THEN Refuse(r, UniqueViolation)
     ELSE Set(r, [user |-> r, write |-> req[r].row,
                  pc |-> IF Kind(r) = "google" THEN "issue" ELSE "commit"])
  /\ UNCHANGED <<now, life, hits, resets, users, tokens>>

-----------------------------------------------------------------------------
Load(r) ==
  /\ At(r, "load")
  /\ IF req[r].user \notin DOMAIN users THEN Refuse(r, 404)
     ELSE Set(r, [row |-> users[req[r].user], pc |-> "update"])
  /\ UNCHANGED <<now, life, hits, resets, users, tokens>>

\* The attributes BaseRepository.update sets, those that are given.
Assigned(b) ==
  LET cols == CASE b.kind = "update_me" -> [username |-> b.username]
                [] b.kind = "update_user" -> [role |-> b.role, active |-> b.active]
                [] b.kind = "reset" -> [pw |-> b.pw]
                [] b.kind = "google" -> [avatar |-> b.picture]
  IN  [c \in {x \in DOMAIN cols : cols[x] # None} |-> cols[c]]

\* The unit of work flushes the columns whose value differs from the loaded one.
Flushed_whole_row(r) == Over(Assigned(Body(r)), req[r].row)
Flushed(r) ==
  LET a == Assigned(Body(r)) IN [c \in {x \in DOMAIN a : a[x] # req[r].row[x]} |-> a[c]]

RowLocked(r) == \E q \in Req \ {r} : req[q].user = req[r].user /\ req[q].write # <<>>

Update(r) ==
  /\ At(r, "update")
  /\ LET u == req[r].user  w == Flushed(r) IN
     /\ w # <<>> => ~RowLocked(r) /\ ~Contended(r, w)
     /\ IF Clashes(u, w) THEN Refuse(r, UniqueViolation)
        ELSE Set(r, [write |-> w, row |-> Over(w, users[u]),
                     pc |-> CASE Kind(r) = "reset" -> "consume" [] Kind(r) = "google" -> "issue"
                              [] OTHER -> "commit"])
  /\ UNCHANGED <<now, life, hits, resets, users, tokens>>

-----------------------------------------------------------------------------
\* login takes the first key it is given, admin_login the e-mail address alone.
Named(b) ==
  LET ks == IF b.kind = "admin_login" THEN SelectSeq(KeysGiven(b), LAMBDA k : k = "email")
            ELSE KeysGiven(b)
  IN  IF ks = <<>> THEN {} ELSE Known(Head(ks), b[Head(ks)])
Authentic(b) == {u \in Named(b) : users[u].pw = b.pw}
Admitted(b) ==
  {u \in Authentic(b) : users[u].active /\ (b.kind = "admin_login" => users[u].role = "admin")}

Login(r) ==
  /\ At(r, "read") /\ Kind(r) \in {"login", "admin_login"}
  /\ LET b == Body(r)
         fromRightClient == b.dashboard = (b.kind = "admin_login") IN
     \/ fromRightClient /\ \E u \in Admitted(b) :
          Set(r, [user |-> u, row |-> users[u], pc |-> "issue"])
     \/ /\ Admitted(b) = {} \/ ~fromRightClient
        /\ Refuse(r, IF Authentic(b) = {} /\ (b.kind = "login" \/ b.dashboard) THEN 401 ELSE 403)
  /\ UNCHANGED <<now, life, hits, resets, users, tokens>>

\* google_login: the account of the address, or a new one.
GoogleRead(r) ==
  /\ At(r, "read") /\ Kind(r) = "google"
  /\ LET b == Body(r)  found == Known("email", b.email) IN
     \/ found = {} /\ Set(r, [pc |-> "name"])
     \/ \E u \in found : ~users[u].active /\ Refuse(r, 403)
     \/ \E u \in found :
          /\ users[u].active
          /\ Set(r, [user |-> u, row |-> users[u],
                     pc |-> IF b.picture \in {None, users[u].avatar} THEN "issue" ELSE "update"])
  /\ UNCHANGED <<now, life, hits, resets, users, tokens>>

\* A random password, and a random suffix to a taken user name, are written r.
GoogleName(r) ==
  /\ At(r, "name")
  /\ LET b == Body(r) IN
     Set(r, [pc |-> "insert",
             row |-> [email |-> b.email, phone |-> None, pw |-> r, active |-> TRUE,
                      username |-> IF Known("username", NameOf[b.email]) = {}
                                   THEN NameOf[b.email] ELSE r,
                      avatar |-> b.picture, role |-> "user"]])
  /\ UNCHANGED <<now, life, hits, resets, users, tokens>>

Unrevoked_any(hash) == {t \in DOMAIN tokens : tokens[t].hash = hash}
\* get_by_token_hash
Unrevoked(hash) == {t \in DOMAIN tokens : tokens[t].hash = hash /\ ~tokens[t].revoked}

\* scalar_one_or_none raises when two rows have the hash: claims and second of
\* issue are all a token says.
ReadToken(r) ==
  /\ At(r, "read") /\ Kind(r) = "refresh"
  /\ LET given == Body(r).token
         valid == given.type = "refresh" /\ now <= given.at + RefreshTTL
         rows == Unrevoked(given) IN
     \/ (~valid \/ rows = {}) /\ Refuse(r, 401)
     \/ valid /\ Cardinality(rows) > 1 /\ Refuse(r, 500)
     \/ /\ valid /\ Cardinality(rows) = 1
        /\ \E t \in rows : Set(r, [stored |-> t, pc |-> "revoke"])
  /\ UNCHANGED <<now, life, hits, resets, users, tokens>>

Revoke(r) ==
  /\ At(r, "revoke")
  /\ \A q \in Req \ {r} : req[q].revoke # req[r].stored
  /\ Set(r, [revoke |-> req[r].stored, pc |-> "issue"])
  /\ UNCHANGED <<now, life, hits, resets, users, tokens>>

Issue_stamped_with_expiry(r) ==
  /\ At(r, "issue")
  /\ Set(r, [pc |-> "commit",
             new |-> [type |-> "refresh", at |-> now + RefreshTTL, user |-> req[r].user,
                      role |-> "user"]])
  /\ UNCHANGED <<now, life, hits, resets, users, tokens>>
\* A refresh keeps the claims of the token it was given.
Issue(r) ==
  /\ At(r, "issue")
  /\ LET refresh == Kind(r) = "refresh" IN
     Set(r, [pc |-> "commit",
             new |-> [type |-> "refresh", at |-> now,
                      user |-> IF refresh THEN Body(r).token.user ELSE req[r].user,
                      role |-> IF refresh THEN Body(r).token.role ELSE req[r].row.role]])
  /\ UNCHANGED <<now, life, hits, resets, users, tokens>>

-----------------------------------------------------------------------------
\* The answer does not tell whether the account exists.
Forgot(r) ==
  /\ At(r, "read") /\ Kind(r) = "forgot"
  /\ LET found == Known("email", Body(r).email) IN
     \/ found = {} /\ UNCHANGED resets
     \/ \E u \in found :
          resets' = Over([x \in {r} |-> [user |-> u, expires |-> now + ResetTTL]], resets)
  /\ Refuse(r, 200)
  /\ UNCHANGED <<now, life, hits, users, tokens>>

Without(token) == [x \in DOMAIN resets \ {token} |-> resets[x]]

TakeReset(r) ==
  /\ At(r, "read") /\ Kind(r) = "reset"
  /\ LET x == Body(r).token IN
     \/ x \notin DOMAIN resets /\ Refuse(r, 400) /\ UNCHANGED resets
     \/ /\ x \in DOMAIN resets /\ now > resets[x].expires
        /\ Refuse(r, 400) /\ resets' = Without(x)
     \/ /\ x \in DOMAIN resets /\ now <= resets[x].expires
        /\ Set(r, [user |-> resets[x].user, pc |-> "load"]) /\ UNCHANGED resets
  /\ UNCHANGED <<now, life, hits, users, tokens>>

\* del raises KeyError when the token is gone, and the transaction is rolled back.
Consume_without_error(r) ==
  /\ At(r, "consume")
  /\ resets' = Without(Body(r).token) /\ Set(r, [pc |-> "commit"])
  /\ UNCHANGED <<now, life, hits, users, tokens>>
Consume(r) ==
  /\ At(r, "consume")
  /\ LET x == Body(r).token IN
     \/ x \in DOMAIN resets /\ resets' = Without(x) /\ Set(r, [pc |-> "commit"])
     \/ x \notin DOMAIN resets /\ Refuse(r, 500) /\ UNCHANGED resets
  /\ UNCHANGED <<now, life, hits, users, tokens>>

-----------------------------------------------------------------------------
Commit(r) ==
  /\ At(r, "commit")
  /\ LET q == req[r]
         kept == [t \in DOMAIN tokens |->
                    [tokens[t] EXCEPT !.revoked = @ \/ t = q.revoke]] IN
     /\ users' = IF q.write = <<>> THEN users
                 ELSE IF q.user \in DOMAIN users
                      THEN [users EXCEPT ![q.user] = Over(q.write, @)]
                      ELSE Over([u \in {q.user} |-> q.write], users)
     /\ tokens' = IF q.new = None THEN kept
                  ELSE Over([t \in {r} |-> [hash |-> q.new, revoked |-> FALSE]], kept)
  /\ req' = [q \in Req |-> IF q = r THEN Refused(r, 200)
                           ELSE IF Running(q)
                                THEN [req[q] EXCEPT !.held = @ \cup {Committed'}]
                                ELSE req[q]]
  /\ UNCHANGED <<now, life, hits, resets>>

\* The connection to the database is lost; before the first write that is a
\* request with another answer.
Abort(r) ==
  /\ req[r].write # <<>> \/ req[r].revoke # None \/ req[r].new # None
  /\ Refuse(r, 500)
  /\ UNCHANGED <<now, life, hits, resets, users, tokens>>

\* The process restarts: open transactions and everything in its memory are gone.
Restart ==
  /\ life < MaxRestarts
  /\ life' = life + 1
  /\ hits' = [p \in DOMAIN Limit |-> <<>>]
  /\ resets' = <<>>
  /\ req' = [r \in Req |-> IF Running(r) THEN Refused(r, 0) ELSE req[r]]
  /\ UNCHANGED <<now, users, tokens>>

Tick ==
  /\ now < MaxTime
  /\ now' = now + 1
  /\ UNCHANGED <<life, hits, resets, users, tokens, req>>

Handle(r) ==
  \/ Arrive(r) \/ Authenticate(r) \/ Check(r) \/ Checked(r) \/ Insert(r) \/ Load(r) \/ Update(r)
  \/ Login(r) \/ GoogleRead(r) \/ GoogleName(r) \/ ReadToken(r) \/ Revoke(r) \/ Issue(r)
  \/ Forgot(r) \/ TakeReset(r) \/ Consume(r) \/ Commit(r) \/ Abort(r)

Next == (\E r \in Req : Handle(r)) \/ Restart \/ Tick

Spec == Init /\ [][Next]_vars

-----------------------------------------------------------------------------
\* Every variable keeps its type: rows are whole, times do not pass the clock.
TypeOK ==
  /\ \A u \in DOMAIN users : DOMAIN users[u] = Columns
  /\ \A t \in DOMAIN tokens : /\ DOMAIN tokens[t] = {"hash", "revoked"}
                              /\ tokens[t].hash.at \in 0 .. now
                              /\ tokens[t].hash.user \in DOMAIN users
  /\ \A p \in DOMAIN hits : \A q \in DOMAIN hits[p] : hits[p][q] \in 0 .. now
  /\ \A x \in DOMAIN resets : resets[x].user \in DOMAIN users
  /\ \A r \in Req : /\ DOMAIN req[r] = DOMAIN Blank
                    /\ DOMAIN req[r].write \subseteq Columns

\* No two accounts share an e-mail address, a phone number or a user name,
\* whatever requests looked at the table before they wrote.
UniqueKeys ==
  \A u, v \in DOMAIN users : \A k \in KeysOf(users[u]) : users[u][k] = users[v][k] => u = v

Succeeds(r) == req[r].pc = "commit" /\ req'[r].status = 200

\* What justifies success at some moment of the request: the credentials of an
\* active account, a token row not yet revoked, an active administrator.
Justifies(s, r) ==
  LET b == Body(r)  u == req[r].user IN
  /\ b.kind \in {"login", "admin_login"} =>
       u \in DOMAIN s.users /\ s.users[u].active /\ s.users[u].pw = b.pw
  /\ b.kind = "admin_login" => s.users[u].role = "admin"
  /\ b.kind = "google" /\ u # r => u \in DOMAIN s.users /\ s.users[u].active
  /\ b.kind = "refresh" => req[r].stored \in DOMAIN s.tokens /\ ~s.tokens[req[r].stored].revoked
  /\ b.kind \in {"create_staff", "update_user"} =>
       s.users[b.caller].active /\ s.users[b.caller].role = "admin"
\* A request that succeeds was justified by something committed between its
\* arrival and its commit, whatever was committed in between.
SuccessJustified == [][\A r \in Req : Succeeds(r) => \E s \in req[r].held : Justifies(s, r)]_vars

\* A column of an account changes only to what the request that commits was sent
\* to write: a rename, a new picture or a password reset that read the row before
\* a deactivation does not undo it.
WritesAsAsked ==
  [][\A u \in DOMAIN users : \A c \in Columns :
       users'[u][c] # users[u][c] =>
         \E r \in Req : /\ Succeeds(r) /\ req[r].user = u
                        /\ c \in DOMAIN Assigned(Body(r)) /\ users'[u][c] = Assigned(Body(r))[c]]_vars

\* A reset token changes a password at most once, however many requests carry it
\* at the same time.
ResetOnce ==
  \A r, q \in Req : /\ req[r].status = 200 /\ req[q].status = 200
                    /\ Kind(r) = "reset" /\ Kind(q) = "reset" /\ Body(r).token = Body(q).token
                    => r = q

\* In no window of time does one life of the server let more than Limit requests
\* through to a limited path.
WithinRate ==
  \A p \in DOMAIN Limit : \A t \in 0 .. now :
    Cardinality({r \in Req : /\ req[r].passed # None /\ Kind(r) = p
                             /\ req[r].passed[1] = life
                             /\ req[r].passed[2] \in (t - Window + 1) .. t}) <= Limit[p]
=============================================================================
