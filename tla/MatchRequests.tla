--------------------------- MODULE MatchRequests ----------------------------
(***************************************************************************)
(* The handlers of MatchRow under concurrency: several HTTP requests on    *)
(* one match, each in its own session and transaction (database.get_db),   *)
(* on a bounded connection pool, over PostgreSQL at READ COMMITTED.        *)
(*                                                                         *)
(* A handler loads the row, computes on that copy, and flushes: SQLAlchemy *)
(* writes the columns whose value differs from the loaded one.  A write    *)
(* waits for the row lock of another open transaction and then applies to  *)
(* the newest row; the lock is kept until commit or rollback.  A read takes *)
(* no lock and is not repeated.  record_event counts the events after the  *)
(* flush that the count query triggers, and inserts.                       *)
(***************************************************************************)
EXTENDS MatchRow

CONSTANTS Req,        \* the requests, each sent at most once
          Bodies,     \* what they may ask for
          StartRows,  \* the rows a behaviour may start from
          PoolSize    \* pool_size + max_overflow connections

ASSUME BodiesAreBodies == Bodies \subseteq Body
ASSUME StartRowsAreRows ==
  /\ StartRows \subseteq Row
  /\ \A m \in StartRows : /\ m.home = 0 /\ m.away = 0
                          /\ m.status = "walkover" => m.forfeit # None
ASSUME PoolSizeIsPositive == PoolSize \in Nat \ {0}
ASSUME NoneIsNoRequest == None \notin Req

VARIABLES
  match, present, events,   \* the committed rows, as in MatchLifecycle
  recorded, byHand,         \* as in MatchLifecycle
  pc,       \* where each request is
  body,     \* what it asks for
  seen,     \* the row it loaded, its session's identity map
  seqno,    \* the sequence number it computed
  holder    \* the request that holds the row lock of the match, or None

db == <<match, present, events, recorded, byHand>>
vars == <<db, pc, body, seen, seqno, holder>>

\* loaded: the row is read.  written: the UPDATE or DELETE, if any, is done.
\* counted: the sequence number is known.  inserted: the event row is flushed,
\* which shares the row lock of the match (a foreign key).
InFlight == {"loaded", "written", "counted", "inserted"}
Answers  == {"ok", "not_found", "conflict", "error"}

Init ==
  /\ match \in StartRows
  /\ present = TRUE
  /\ events = <<>>
  /\ recorded = {}
  /\ byHand = {}
  /\ pc = [r \in Req |-> "idle"]
  /\ body = [r \in Req |-> None]
  /\ seen = [r \in Req |-> None]
  /\ seqno = [r \in Req |-> 0]
  /\ holder = None

Is(r, kind) == body[r].kind = kind
Goto(r, l) == pc' = [pc EXCEPT ![r] = l]
Release(r) == holder' = IF holder = r THEN None ELSE holder

\* The flush of r writes some column.
Dirty(r) == After(body[r], seen[r]) # seen[r] \/ Stamps(body[r])

-----------------------------------------------------------------------------
Arrive(r) ==
  /\ pc[r] = "idle"
  /\ \E b \in Bodies : body' = [body EXCEPT ![r] = b]
  /\ Goto(r, "queued")
  /\ UNCHANGED <<db, seen, seqno, holder>>

PoolFull_off_by_one == Cardinality({q \in Req : pc[q] \in InFlight}) > PoolSize
PoolFull == Cardinality({q \in Req : pc[q] \in InFlight}) >= PoolSize

\* A connection is free: the authorisation query and _require_match run on it.
Load(r) ==
  /\ pc[r] = "queued" /\ ~PoolFull
  /\ \/ /\ RaisesEarly(body[r]) /\ (present \/ Is(r, "batch")) /\ Goto(r, "error")
        /\ UNCHANGED seen
     \/ /\ ~present /\ ~Is(r, "batch") /\ Goto(r, "not_found")
        /\ UNCHANGED seen
     \/ /\ ~RaisesEarly(body[r]) /\ present /\ Refuses(body[r], match)
        /\ Goto(r, "conflict")
        /\ UNCHANGED seen
     \/ /\ ~RaisesEarly(body[r]) /\ present /\ ~Refuses(body[r], match)
        /\ seen' = [seen EXCEPT ![r] = match]
        /\ Goto(r, "loaded")
  /\ UNCHANGED <<db, body, seqno, holder>>

\* The pool's own timeout, while every connection is in use.
PoolTimeout(r) ==
  /\ pc[r] = "queued" /\ PoolFull
  /\ Goto(r, "error")
  /\ UNCHANGED <<db, body, seen, seqno, holder>>

Flush_without_lock(r) ==
  /\ pc[r] = "loaded" /\ ~Is(r, "delete") /\ Dirty(r)
  /\ Goto(r, IF present THEN "written" ELSE "error")
  /\ UNCHANGED <<db, body, seen, seqno, holder>>
\* The UPDATE of the changed columns waits for the lock; one that meets a row
\* deleted meanwhile matches nothing (StaleDataError).
Flush(r) ==
  /\ pc[r] = "loaded" /\ ~Is(r, "delete") /\ Dirty(r) /\ holder = None
  /\ \/ present /\ holder' = r /\ Goto(r, "written")
     \/ ~present /\ Goto(r, "error") /\ UNCHANGED holder
  /\ UNCHANGED <<db, body, seen, seqno>>

\* Nothing changed: no statement, no lock.  All but events read the row again
\* for their answer, and fail when it is gone.
FlushNothing(r) ==
  /\ pc[r] = "loaded" /\ ~Is(r, "delete") /\ ~Dirty(r)
  /\ Goto(r, IF present \/ Is(r, "event") THEN "written" ELSE "error")
  /\ UNCHANGED <<db, body, seen, seqno, holder>>

Sharing == {q \in Req : pc[q] = "inserted"}

\* DELETE waits for every lock on the row.  The foreign key refuses it while
\* events exist; a row already deleted is no error, only "not found", and the
\* audit entry written before is committed all the same.
FlushDelete(r) ==
  /\ pc[r] = "loaded" /\ Is(r, "delete") /\ holder = None /\ Sharing = {}
  /\ \/ ~present /\ Goto(r, "written") /\ UNCHANGED holder
     \/ present /\ events # <<>> /\ Goto(r, "conflict") /\ UNCHANGED holder
     \/ present /\ events = <<>> /\ Goto(r, "written") /\ holder' = r
  /\ UNCHANGED <<db, body, seen, seqno>>

_next_event_sequence_from_zero == Len(events)
_next_event_sequence == Len(events) + 1
Count(r) ==
  /\ pc[r] = "written" /\ Is(r, "event")
  /\ seqno' = [seqno EXCEPT ![r] = _next_event_sequence]
  /\ Goto(r, "counted")
  /\ UNCHANGED <<db, body, seen, holder>>

Deleting == holder # None /\ Is(holder, "delete")

Insert_without_foreign_key_lock(r) ==
  /\ pc[r] = "counted"
  /\ IF present THEN Goto(r, "inserted") ELSE Goto(r, "conflict")
  /\ UNCHANGED <<db, body, seen, seqno, holder>>
\* The INSERT locks the referenced match against deletion, and fails without it.
Insert(r) ==
  /\ pc[r] = "counted" /\ ~Deleting
  /\ IF present THEN Goto(r, "inserted") ELSE Goto(r, "conflict")
  /\ UNCHANGED <<db, body, seen, seqno, holder>>

CommitRow_swallows_exception(r) ==
  /\ pc[r] = "written" /\ ~Is(r, "event") /\ ~Is(r, "delete")
  /\ match' = IF present THEN Stored(body[r], seen[r], match) ELSE match
  /\ recorded' = Audited(body[r], seen[r])
  /\ byHand' = byHand \cup ByHand(body[r])
  /\ Goto(r, "ok") /\ Release(r)
  /\ UNCHANGED <<present, events, body, seen, seqno>>
CommitRow(r) ==
  /\ pc[r] = "written" /\ ~Is(r, "event") /\ ~Is(r, "delete") /\ ~RaisesLate(body[r])
  /\ match' = IF present THEN Stored(body[r], seen[r], match) ELSE match
  /\ recorded' = Audited(body[r], seen[r])
  /\ byHand' = byHand \cup ByHand(body[r])
  /\ Goto(r, "ok") /\ Release(r)
  /\ UNCHANGED <<present, events, body, seen, seqno>>

CommitEvent(r) ==
  /\ pc[r] = "inserted"
  /\ match' = Stored(body[r], seen[r], match)
  /\ events' = Append(events, [seq |-> seqno[r], type |-> body[r].type, team |-> body[r].team])
  /\ recorded' = Audited(body[r], seen[r])
  /\ Goto(r, "ok") /\ Release(r)
  /\ UNCHANGED <<present, byHand, body, seen, seqno>>

CommitDelete(r) ==
  /\ pc[r] = "written" /\ Is(r, "delete")
  /\ present' = (present /\ holder # r)
  /\ recorded' = Audited(body[r], seen[r])
  /\ Goto(r, IF holder = r THEN "ok" ELSE "not_found") /\ Release(r)
  /\ UNCHANGED <<match, events, byHand, body, seen, seqno>>

Raise_without_rollback(r) ==
  /\ pc[r] = "written"
  /\ \/ RaisesLate(body[r])
     \/ ~present /\ ~Is(r, "event") /\ ~Is(r, "delete")
  /\ Goto(r, "error")
  /\ UNCHANGED <<db, body, seen, seqno, holder>>
\* The handler of add_time raises; a request that wrote nothing may find the
\* row gone when it reads it again.
Raise(r) ==
  /\ pc[r] = "written"
  /\ \/ RaisesLate(body[r])
     \/ ~present /\ ~Is(r, "event") /\ ~Is(r, "delete")
  /\ Goto(r, "error") /\ Release(r)
  /\ UNCHANGED <<db, body, seen, seqno>>

\* A lost connection, a cancelled request, a restart: get_db rolls back, or the
\* database does.
Abort(r) ==
  /\ pc[r] \in InFlight
  /\ Goto(r, "error") /\ Release(r)
  /\ UNCHANGED <<db, body, seen, seqno>>

\* Every request is answered and nothing is left to do.
AllAnswered == (\A r \in Req : pc[r] \in Answers) /\ UNCHANGED vars

Handle(r) ==
  \/ Load(r) \/ Flush(r) \/ FlushNothing(r) \/ FlushDelete(r) \/ Count(r) \/ Insert(r)
  \/ CommitRow(r) \/ CommitEvent(r) \/ CommitDelete(r) \/ Raise(r)

Next ==
  \/ \E r \in Req : Arrive(r) \/ Handle(r) \/ PoolTimeout(r) \/ Abort(r)
  \/ AllAnswered

Spec == Init /\ [][Next]_vars

\* The event loop runs every task that can go on, and the database grants a
\* free lock: no handler step that stays possible is put off for ever.  No
\* request need arrive, no timeout or crash need happen.
FairSpec == Spec /\ \A r \in Req : WF_vars(Handle(r))

-----------------------------------------------------------------------------
\* Every variable keeps its type.
TypeOK ==
  /\ match \in Row
  /\ present \in BOOLEAN
  /\ events \in Seq(Event)
  /\ recorded \in SUBSET AuditAction
  /\ byHand \in SUBSET {"clock", "score"}
  /\ pc \in [Req -> {"idle", "queued"} \cup InFlight \cup Answers]
  /\ body \in [Req -> Body \cup {None}]
  /\ seen \in [Req -> Row \cup {None}]
  /\ seqno \in [Req -> Nat]
  /\ holder \in Req \cup {None}

ScoringEvents == {i \in DOMAIN events : events[i].type \in SCORE_EVENT_TYPES}

\* Goals keep their order: of two scoring events the one committed first has the
\* smaller sequence number, although each number is only a count of rows.  It is
\* the row lock, taken when the count query flushes the new score, that orders
\* them; a card takes none and may share a goal's number.
ScoringOrdered ==
  \A i, j \in ScoringEvents : i < j => events[i].seq < events[j].seq

\* No number is ahead of the event's place: numbers repeat, they never skip.
SequenceWithinCount == \A i \in DOMAIN events : events[i].seq \in 1 .. i

\* Racing goals are lost, never invented: until a score is entered by hand, no
\* side's score exceeds its recorded goals.
NeverOvercounts ==
  "score" \notin byHand => /\ match.home <= Goals(events, "home")
                           /\ match.away <= Goals(events, "away")

\* An event is never committed for a deleted match, in whatever order the
\* insertion and the deletion check each other.
NoOrphanEvents == ~present => events = <<>>

\* A walkover keeps its forfeiting team under column-wise writes of others.
WalkoverHasForfeiter ==
  match.status = "walkover" /\ "clock" \notin byHand => match.forfeit # None

\* Requests on one match never wait for one another in a circle and never for
\* ever: each one that arrives is answered.
EveryRequestAnswered == \A r \in Req : pc[r] = "queued" ~> pc[r] \in Answers

-----------------------------------------------------------------------------
\* What the committed rows go through is one request at a time, whole or not at
\* all, computed from the row that request loaded.
Store == INSTANCE MatchStore
           WITH begun <- [r \in Req |-> IF pc[r] \in InFlight THEN seen[r] ELSE None]
ImplementsStore == Store!Spec

\* With one connection the requests are served one after the other: this module
\* then implements MatchLifecycle, and whatever holds there holds here.
Serial == INSTANCE MatchLifecycle WITH MaxEvents <- Cardinality(Req)
ImplementsLifecycle == Serial!Spec
=============================================================================
