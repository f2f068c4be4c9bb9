# Verification of the Babile soccer backend

The repository is a FastAPI service: operators enter matches, results, players and
articles, a mobile app reads them. It keeps everything in PostgreSQL (SQLAlchemy's
asynchronous session) except two dictionaries in the memory of the server process. This
directory holds TLA+ models of its state-changing core, the TLC configurations that check
them, and proofs checked by TLAPS.

Run a model with `tlc -workers 2 -config MCRequests.cfg MCMatchRequests`, a proof with
`tlapm MatchRequestsProofs.tla`.

## 1. Inventory

| Part (source under `src/app`) | State it keeps | Operations | What makes it correct | Module |
|---|---|---|---|---|
| Match row (`services/match.py`, `routers/matches.py`, `models/match.py`) | `matches`: status, period, clock, score, record status, forfeiter; `match_events` | start … abandoned, walkover, minute, hydration, add-time, result-only, event, batch, dispute, resolve, PATCH, delete | status and period agree; the score is the count of goals; published records change only with an audit entry; events keep their order | `MatchRow`, `MatchLifecycle`, `MatchRequests` |
| Sessions and pool (`database.py`, `repositories/base.py`) | open transactions, row locks, connections | load, flush of changed columns, commit, rollback, pool time-out | a request has all of its effect or none; everyone is answered | `MatchRequests`, `MatchStore` |
| Audit trail (`services/audit.py`) | `audit_logs` | append in the request's transaction | edits of published records are recorded | `MatchRow` |
| League table (`services/standings.py`) | a local dictionary while one request runs | one pass over the finished matches, sort | independent of the order of the query; counts what was played; the ledger balances | `Standings` |
| Accounts and sessions (`routers/auth.py`, `services/auth.py`, `repositories/user.py`) | `users`, `refresh_tokens`; `_password_reset_tokens` in memory | register, staff creation, three sign-ins, refresh, profile, password reset, admin's changes | unique keys; a reset link works once; success is justified by committed state | `Accounts` |
| Rate limiter (`middleware.py`) | a list of arrival times per path and client, in memory | clean, test, append | never more than the limit in a window | `Accounts` |
| Fixtures, lineups, statistics, players (`services/match.py`, `routers/players.py`) | `matches`, `lineup_entries`, `match_statistics`, `match_events`, `players` | create with duplicate detection, delete, replace a lineup or the statistics, record an event, add, change and dismiss a player | no two alike in a team; references hold; a replacement is whole; a known fixture is refused | `Records`, `Fixtures`, `RecordStore` |
| Competitions, seasons, stages, groups (`routers/competitions.py`), teams (`routers/teams.py`) | one table each | create, update, delete behind checks of existence and ownership; the standings of a competition | parents of committed rows are there; what is created or deleted belongs to the competition of the URL; standings fail only when the seasons are in disorder | `Records`, `Catalogue` |
| News (`routers/news.py`), moderation (`routers/moderation.py`), favourites (`routers/auth.py`) | `articles`, `moderation_items`, `favorites` | create (with a free slug), update, publish, delete; report, review; add, remove | slugs are unique and refused only for a rival; a decision carries the name of who took it; an update brings no deleted row back | `Records`, `Desk` |
| Head to head (`services/h2h.py`) | none | one query and a count over the meetings of two teams in every stage | its wins are those of the tables of all stages, walkovers left out | `HeadToHead` |
| Search, player statistics, match lists, audit listing | none | read-only queries | pure I/O | none |
| Uploads, e-mail, server-sent events, health, configuration, start-up | none | I/O; the event stream is dead code (no router is included, nothing publishes) | — | none |

**Interaction.** Every request runs as a task of one event loop and opens one session with
one transaction (`get_db`): it is committed when the handler returns and rolled back when it
raises. Handlers interact only through committed rows, the row locks their flushes take, the
foreign keys and unique constraints, the pool of connections, and (password reset, rate
limiter) the memory of the process. The league table reads what the match handlers wrote;
`Standings` therefore takes its rows from the operators of `MatchRow`.

**What is hard.** A handler loads rows, awaits, and writes later, at PostgreSQL's READ
COMMITTED: what it decided on may be stale. The unit of work writes only columns that differ
from those loaded, so two requests mix column by column. Sequence numbers are counts. Checks
for duplicates precede the inserts. Status endpoints hardly look at one another. Two
dictionaries vanish at a restart. PROJECT.json lists each hazard with its line.

## 2. Modules and the code

`MatchRow` holds no variables: it defines the row, the requests (`Body`) and one operator per
handler of `services/match.py`, named as in the source, with what each refuses
(`Refuses`), where it raises (`RaisesEarly`, `RaisesLate`), what it audits (`Audited`) and how
changed columns meet a newer row (`Merged`, `Stored`). Two modules are built on it:

* `MatchLifecycle` serves one request at a time. A step is a whole handler. It carries the
  rules of the match itself.
* `MatchRequests` takes the handlers apart between their statements: `Load` (authorisation,
  `_require_match`), `Flush` or `FlushNothing` (the UPDATE of changed columns, which waits for
  the row lock), `Count` and `Insert` (`_next_event_sequence`, the event row, whose foreign key
  shares the match), `CommitRow/Event/Delete`, `Raise`, `Abort`, `PoolTimeout`. `holder` is the
  row lock, `seen` the session's copy.
* `MatchStore` is the abstract promise: a request begins by looking at the row and ends
  with its whole effect, computed from what it saw, or with none. `MatchRequests` implements it
  (`begun` is the row seen while a request is in flight). With a pool of one connection
  `MatchRequests` implements `MatchLifecycle`.

`Standings` is `compute_for_stage`: `ApplyMatch` and `ApplyWalkover` are turns of its loop, in
any order because the query has no ORDER BY; `Rank` adds the differences and sorts. Names count
by their lower-case form, as in the sort key. `Fixtures` are the matches of every stage;
`StageOf` says of which, and `Confirmed` keeps those of the stage of the table, as the query does
(`standings.py:168`). No caller passes a group.

`Accounts` has one action per stretch of code between two statements: `Arrive` (the limiter),
`Authenticate`, `Check` (a uniqueness query per key), `Insert`, `Load`, `Update`, `Login`,
`ReadToken`, `Revoke`, `Issue`, `TakeReset`, `Consume`, `Commit`; plus `Tick`, `Restart`,
`Abort`. A token is what it says (type, user, role, second), so two issued in one second are
equal, as JWTs are. `held` collects the committed states during a request.

The rest of the back office is rows in tables, written by handlers that are sequences of
statements, and is modelled in that form:

* `Records` is the common part: the committed `rows` of all tables by id, and for each request
  the statements still to run (`todo`), what it loaded, and what its transaction has
  inserted (`new`), changed (`set`) and deleted (`gone`). Its actions are `BaseRepository`'s
  methods as PostgreSQL runs them at READ COMMITTED: `Get`, `Insert`, `Change` (the columns that
  differ from those loaded), `EnterKey` (the unique index), `Delete`, `LetGo` (the referential
  check at the end of a DELETE), `Commit`, `Abort`. What `new`, `set` and `gone` hold are also
  the locks: `Updatable`, `Removable`, `Shareable`, `Contended` say who must wait. A check of a
  foreign key locks the parent if it is there (`Referred`); an id that is no parent waits for
  nobody.
* `Fixtures`, `Catalogue` and `Desk` define each handler, under its name in the source, as a
  sequence of statements, and the statements that are not `BaseRepository`'s:
  `FindDuplicate`; `Aim`/`Clear` (a DELETE chooses its rows when it starts, waits for the other
  deleter, and does not look again) and `Fill` (player by player); `FindMember`; `CheckJersey`;
  `Climb` (one query a level from a row to its season); `FindSeason`, `FindTables`; `Review`;
  `ChooseSlug`; `EditArticle`; `FindOwn`, `Discard`.
* `Backoffice` runs them all on one database and states the properties. A request carries
  the body that the schemas allow and, as history, the rows its property compares with.
  `IsRequest` says what a body may be: its handler's table (`Entity`), no column that no update
  may write (`Fixed`), a competition only where the URL has one (`Placing`), a report that is
  open (`IsOpen`), a slug made of words (`IsTitle`). What a committing request must have done
  is a predicate of its own: `IsReplaced`, `IsFirstOfItsDay`, `KeepsTheRest`, `IsDecidedBy`.
* `RecordStore` is the abstract promise of `Backoffice`, without statements, locks or
  transactions: a request is asked (`Ask`), may look once (`Look`: the row to update, the sheet
  to replace), and is answered once, with `Refuse` and no effect, or with `Accept` and one whole
  effect on its own rows alone: `Create`, `Set`, `Delete`, `Discard`, `Replace` or `Read`. An
  update writes what differs from the row it looked at, which may have changed since, and a
  submission may leave what others have put into its sheet since: the code promises no more.
  `Backoffice` implements it (`Store`, `SeenBy`): a request has looked once its `Get` has run,
  it takes its effect at its `Commit`, and all its other statements are stutters.

`HeadToHead` adds `compute` of `services/h2h.py` to the rows of `Standings`: `MeetingsOf`, the
lists that the query may return (`Lists`), and the count over one. This query has no condition on
the stage (`h2h.py:45`), so `MeetingsOf` takes the meetings of every stage, season and competition,
and a win in another stage counts here and not in the table.

`MC*` modules give the constants; `*Proofs` modules hold the theorems.

## 3. Runs

| Run | Question | Outcome |
|---|---|---|
| `lifecycle` | Every endpoint, accepted and refused, in every order, two events | Status and period agree until the clock is typed in by hand; full time is published; disputes are flagged; the score counts the goals; corrections are audited; only a dispute or a restart withdraws a record |
| `requests` | Three requests, two connections, every interleaving and abort | Goals are numbered in the order of their commits; numbers never run ahead; scores are never too high; no event survives its match; a walkover keeps its forfeiter; the transactions implement `MatchStore` |
| `requests_live` | Does anybody wait for ever? | Every request that arrives is answered |
| `requests_serial` | Does one connection give the sequential model? | The transactions implement `MatchLifecycle` |
| `standings` | Three teams, three matches of a stage and one of another, every mix of results and walkovers, every order | Entries add up, count the results, balance, and the ranking follows the results alone; the wins that the head to head counts are those of the table and of the tables of other stages, without the walkovers |
| `accounts` | Three requests, a clock, a restart, lost connections | Unique keys, single use of reset links, the rate limit, justified success, columns written as asked |
| `fixtures` | Three or four requests on the records around the matches, in nine mixes | Unique numbers and slugs, references that hold, whole replacements, known duplicates of a UTC day refused, updates that keep the rest of the row, first reviews that stay whole, titles refused for a rival only, nothing created or deleted in another competition, standings that fail only when seasons come or go, and where circles of waits come from; the requests implement `RecordStore` |

Five runs refute what a text of the repository says; PROJECT.json quotes the lines:

| Run | Said | What happens |
|---|---|---|
| `lost_goal` | a recorded goal raises the score by one | two goals loaded before either commits raise it by one together |
| `unaudited_correction` | edits after publication are audited | an event that loaded the match before full time commits after it without an entry |
| `restart` | a completed match is not restarted | half time, extra time or penalties are accepted after full time, and then the start is |
| `walkover_score` | a walkover is credited a standard scoreline | it is credited whatever the score stood at, 0-0 or the winner's deficit |
| `duplicate_fixture` | the same fixture is refused | the date is taken in the kickoff's own offset and searched for as a UTC day: 01:00+03:00 is accepted twice |

### Bounds, and why they are enough

* `lifecycle`: two events (the first goal, and one whose effect depends on an earlier one).
  Request bodies lie on both sides of every test; numbers are few so that hand-typed and
  counted ones coincide. There is no bound on the number of requests.
* `requests`: three requests on two connections: two that race and one that waits or comes
  after, from the three rows that differ in what the handlers test (new, live, at full time).
  Symmetric in the requests; the liveness and refinement-to-lifecycle runs use no symmetry.
* `standings`: three teams, two of which meet twice in the stage of the table and once in
  another, up to two goals a match, walkovers at 0-0 and at 0-1 with either forfeiter or none.
  Ties at every level of the sort key occur; two names are equal. The head to head is cut at one
  meeting instead of ten, so that the cut happens. A second meeting in the stage and one in
  another are the least with which a list may hold, or lack, wins of both.
* `accounts`: three requests out of one of six mixes, each a set of operations that touch the
  same keys, columns or tokens; a full product would repeat the same interleavings. `Window`
  is 2, the two lifetimes 1, `MaxTime` 2 and `MaxRestarts` 1: a window, a token and a
  link each expire within a run, and a restart falls between any two steps.
* `fixtures`: three requests out of one of eight mixes (calendar, replacements, sheets, numbers,
  structure, groups, office, news) or four out of a ninth (exchanges of numbers), each mix a set
  of bodies that touch the same rows; bodies of different mixes hardly meet, and all of them
  together would repeat the same interleavings.
  A third request is needed for two copies of a fixture to meet `scalar_one_or_none`, and
  for a row to be deleted between the check of one and the insert of another. Four requests
  that exchange numbers are the least that close a circle on the unique index. The
  kickoffs cover the same hour, the same day, another group, and an offset that moves the date.

Deadlock checking is off where the requests end and the system may rest (`standings`,
`accounts`, `fixtures`). `MatchRequests` says when everything is answered and is checked
for deadlock. In `Backoffice` requests really can wait for each other in a circle: PostgreSQL's
DELETE takes its row before it waits for the rows that refer to it, so the deletion of a match
or a player and the submission of a lineup may block one another, and so may two players who
exchange numbers; PostgreSQL then fails one of them (`Abort`). `Awaits` says, statement by
statement, what a request waits for: rows that it takes (`AwaitsRow`), parents of its new rows
(`AwaitsParent`), a key (`AwaitsKey`), rows that refer to the one it deletes (`AwaitsChildren`).
`WaitsAreLocks` compares it with ENABLED: whoever waits for none of these can go on.
`CirclesNeedLeavers` says that there is no other way to a circle: when all that run wait, one
of them waits for a row or a number that somebody is giving up.

### Fairness

Only `requests_live` assumes any: weak fairness of each request's `Handle`. The event loop
runs every ready task and PostgreSQL grants a free lock to a waiter, so a step that stays
possible is taken. Arrivals, the pool's time-out and aborts are not assumed to happen; a
request that waits for a connection waits for steps that are themselves fair.

## 4. Proofs

Every safety property that a passing run checks is also a theorem, but for one that speaks of
ENABLED (below), and all three refinements are (`RequestsImplementStore`, `OneConnectionIsSerial`,
`RequestsAreAtomic`). The theorems hold for any number of requests and connections, any set of
bodies, any teams, fixtures and rows that the assumptions allow. `WalkoversForfeit` is about the
sequential model; the run `requests` checks the same of concurrent requests.

| Module | Theorems | Inductive invariant |
|---|---|---|
| `MatchRowProofs` | lemmas on the handlers: types, what they do to score and forfeiter | none (pure) |
| `MatchLifecycleProofs` | `TypeCorrect`, `ClockStaysConsistent`, `FullTimeIsPublished`, `DisputesAreFlagged`, `ScoreIsCount`, `WalkoversForfeit`, `CorrectionsAreAudited`, `RecordsStayPublished` | `IInv`: the invariants together; full time and walkovers lean on the clock's consistency, one step lemma per group of handlers. `RecordsStayPublished` is a property of steps and needs the types only |
| `MatchRequestsProofs` | `TypeCorrect`, `GoalsKeepOrder`, `NumbersNeverSkip`, `NoEventOutlivesMatch`, `RacesNeverInventGoals`, `WalkoverKeepsForfeiter`, `RequestsImplementStore`, `OneConnectionIsSerial` | `TInv`, `OInv`, `DInv`, `GInv`, `WInv`, `SInv` |
| `StandingsProofs` | `TypeCorrect`, `TableCountsResults`, `LedgerAlwaysBalances`, `TablesRankResults`, `WinsAgree` | `IInv` (every entry sound), `CInv`, `LInv`, `CountsGoals`, `Ordered` |
| `AccountsProofs` | `AccountsTyped`, `KeysAreUnique`, `TokensResetOnce`, `RateIsKept`, `SuccessIsJustified`, `ColumnsWrittenAsAsked` | `TypeInv`, `KeysInv`, `ResetInv`, `RateInv`, `JustInv`, `WritesInv` |
| `BackofficeProofs` | `BackofficeTyped`, `RowKeysUnique`, `NoRowIsOrphaned` | `TypeInv`, `LocksInv`, `KeysInv`, `TargetsInv`, `RefsInv` |
| `BackofficeStepsProofs` | `UpdatesOverwriteNothing`, `SheetsAreReplaced`, `DuplicatesAreSeen`, `CirclesAreOfLeavers` | `SheetInv`, `FixtureInv`, `InsertionInv`, `WritingInv` |
| `BackofficeEntriesProofs` | `FirstReviewsAreWhole`, `RivalsAloneRefuse`, `EntriesAreInPlace`, `TablesFailOnlyIfUnsettled`, `RequestsAreAtomic` | `ReportInv`, `SlugsInv` with `ArticleInv`, `NamesInv`, `ClimbInv`, `DeletedInv`, `SeasonInv`, `OriginInv`, `TablesInv`, `AskedInv`, `DiscardInv` |

Hardly any of the properties is inductive alone. What the invariants add, and why:

**`MatchRequests`**

* `TInv` adds `Carried`: a request in flight carries a body the handlers did not refuse on the
  row it saw.
* `OInv` adds `LockHeld` (a flushed change of the row holds its lock) and `NumbersFit` (a
  number already counted fits the events): a scoring request that has counted holds the lock, so
  no other scoring event commits before it. This is why goals are ordered and cards are not.
* `DInv` adds `Excluded`: a deletion that has flushed and an event that has been inserted
  never coexist.
* `GInv` bounds not only the committed score but the score each request is about to write.
* `WInv` says that a row loaded as a walkover, and the row it will be merged into, both name
  a forfeiter.
* `RequestsImplementStore` maps each commit to one atomic effect, `Load` to `Begin`, every
  failure to `Drop`, and all else to a stutter.
* `OneConnectionIsSerial` maps each commit to a step of `MatchLifecycle` and all else to a
  stutter, for one connection, finitely many requests and a new match. `SInv` says why: one
  request is in flight (`Alone`), so what it saw is the row (`Current`) and the number it counted
  is the next (`NumberIsNext`); a deletion that has flushed found no events (`DeletionHolds`); an
  answered request stands behind each event (`EventsServed`), so the requests bound their number.

**`Standings` and `HeadToHead`**

* `CInv`: the entries count the appearances met. An appearance is a match and a side, enters
  the count once, and moves one of three counters.
* `LInv`: over all entries, won equals lost and goals for equal goals against. A turn of
  the loop credits two sides of one match, and what both get is balanced.
* `CountsGoals`: an entry's goals are the sum over its team's appearances; `Ordered`: a table
  is sorted by entries whose differences were taken. Together they rank by results.
* `WinsAgree`: a list of the head to head numbers some or all meetings of two teams, each
  once; the meetings won, opponent by opponent, part the matches won in all stages; a won match is
  one appearance that was not walked over, either met by the loop of the table (`AwardedTo` taken
  away) or of another stage (`WonElsewhere`). The theorem holds for any assignment of matches to
  stages. It assumes `OpponentsDiffer`: finitely many teams, and no
  match of a team with itself. The code does not refuse such a match (`MatchCreate`,
  `schemas/match.py`, compares nothing): the table would count it and no head to head would.
* Sums are folds in an order that CHOOSE picks. That the order does not matter is an
  induction over subsets; the library's induction theorems take a predicate as a parameter,
  which the provers cannot instantiate, so `SubsetInduction` takes a set instead: a set of
  subsets that lacked one would lack a smallest one (`LeastNumber`, from `WFMin`).

**`Accounts`**

* `TypeInv` ties the fields of a request to the statement it is at.
* `KeysInv` adds to the unique keys that an account is written by one open transaction at a
  time, and that a key such a transaction writes is neither a committed account's nor another
  transaction's. The uniqueness queries of the handlers are not in it: the index alone does it.
* `ResetInv`: a token that was spent is in the dictionary no more, and comes back no more, because
  the request that made it has ended.
* `RateInv`: each request let through in this life of the server is still in its list or older
  than the window, so the list counts at least the window; the bound is kept for every window of
  the past.
* `JustInv`: what justifies a request was committed at some time since it arrived, from the
  statement on that read it. `WritesInv`: an open transaction has written what its body assigns.

**`Backoffice`**

* `TypeInv`: a request's statements are a tail of its handler's, so that where it is tells
  what it loaded. `LocksInv`: no row is changed or deleted by two transactions.
* `KeysInv`: a key a transaction has claimed is no other row's and no other claim.
* `TargetsInv` and `RefsInv`: what a transaction inserts refers to rows that nobody deletes, and
  what it deletes, once `LetGo` has looked, nobody refers to.
* `SheetInv`: a submission has in its hands all that remains of the sheet it found.
  `FixtureInv`: a creation past its search has seen every fixture of its day that was there
  when it arrived and still is. `InsertionInv`: what is inserted is the row of the body, up to
  a slug.
* `WritingInv`: what a transaction inserts or deletes it does in its last statements, so whoever
  holds a row waits at the end of a deletion, at a new number or in the middle of a sheet. The
  first two wait for a leaver (nobody claims a number while all wait: `NothingHeld`), and the
  third for nobody, because the rows of a sheet refer to tables (`Parents`) from which only the
  first delete (`RefsInv`). With those gone nobody holds anything, and nobody waits.
* `ReportInv`: an open report has no reviewer, and none is opened again; so of two first reviews
  both write all three columns. `SlugsInv`, `ArticleInv`: a slug is a title or a title with the
  name of its own article, so only a rival of the same title can take it.
* `ClimbInv`: what a climb has reached lies above the entry for good, since no update moves an
  entry (`Fixed`); `DeletedInv`, `SeasonInv`: the deleted row is the one that was climbed from,
  and a new season was compared. `OriginInv`: an active season was there at the start or made by a
  request that succeeded; `TablesInv`: so `get_standings` can fail to find its seasons in order
  only after a creation or a deletion.
* `RequestsAreAtomic` maps every commit to the effect of its kind, an arrival to `Ask`, the `Get`
  of an update to `Look`, every failure to `Refuse`, and all else to a stutter. `AskedInv` says
  that what a transaction has written is what was asked: an update the columns that differ
  from the row it loaded, or nothing when none does; a deletion its row; a submission its items;
  and that no request comes to its end without that. `DiscardInv`: a favourite that was found
  among its user's stays his, because nobody changes a favourite. The lemmas `CreateEffect`
  to `ReplaceEffect` combine them with the invariants above, one for each effect.

**Assumptions.** Bodies are bodies and the pool is not empty; match rows at the start name a
forfeiter when walked over and have no goals (`MatchRequests`); `None` is nobody. What earlier
requests have left keeps the constraints of the schema and of the handlers (`RowsAreWhole` in
`Records` and `Accounts`, `SeasonsAreSingle`, `ReportsAreWhole`, `SlugsAreTitles`); names of
requests are fresh (`IdsAreApart`, `NamesAreApart`: UUIDs); bodies are what schemas and paths
allow (`BodiesAreRequests`, `BodiesHaveHandlers`); days, limits and times are numbers
(`DaysAreLong`, `LimitsAreNatural`, `TimesAreNatural`). TLC evaluates each in the passing runs.

**Only model-checked.** `EveryRequestAnswered`, because it is liveness, and
`WaitsAreLocks`, because it speaks of ENABLED; neither is in the provers' reach. So
`CirclesNeedLeavers` is a theorem about `Awaits`, and that `Awaits` is what the actions wait
for is checked on the nine mixes. The five
runs that expect a violation refute their properties, so there is nothing to prove.

## 5. Abstractions, and what is not modelled

* Every module assumes the schema that `models/` declares, as `create_all` makes it in the
  tests; start-up itself runs Alembic, whose single migration creates none of these constraints.
* Authorisation is a condition that does not change during a request for the match endpoints;
  `Accounts` models it. Passwords and signatures are ideal.
* The rows are read for the answer after most writes; reading is modelled only where it fails.
* `Backoffice` and `MatchRequests` share the table `matches` but not their variables: the former
  has no scores, the latter no lineups. `record_event` is split between them: in `Fixtures` it
  leaves the match as it is (no goal, nothing published) and names players, in `MatchRequests`
  it changes the score and the record status.
* Users are a constant of `Backoffice` (no endpoint deletes one; `Accounts` has them). Columns
  that no handler tests stand for each other: a name, a country, a title.
* PostgreSQL finishes a DELETE by checking the tables that may refer to the row one after the
  other; `LetGo` waits while any referring row is being deleted by another, unless some other
  referring row is there to stay.
* A moderator may review an item again; two such reviews mix column by column, and
  `FirstReviewWhole` is about the first only.
* The parts without module are listed with reasons in PROJECT.json: they only read, or only
  talk to the outside. The league table of a competition is a concatenation of the tables of
  its stages, one query each (`FindTables`, `Standings`).

Seen while reading, without a run:

* `match.py:399` and `:283` pass a UUID to `uuid.UUID` and raise, so every offline batch and every
  result with scorers fails; `match.py:253` calls `record_audit` with an argument it does not
  have, so add-time fails. The models raise there too.
* Several edits leave no audit entry: the start (`match.py:100`), the minute (`:204`) and PATCH
  (`routers/matches.py:229`), although `audit.py:3` says every edit is recorded.
* A disputed result still counts as confirmed in the table (`standings.py:168`), and the
  head-to-head tiebreak promised at `standings.py:40` is not applied.
* A second fixture may also slip in by a race (`match.py:60`), after which every further
  attempt fails with an internal error; two lineups submitted together may both stay.
* `models/match.py:110` declares cascades that `BaseRepository.delete` passes by: a match with
  events cannot be deleted.
* Two active seasons of a competition make its standings fail (`repositories/competition.py:49`);
  so does a season deleted between the two reads of `get_standings`.
* `update_group` (`routers/competitions.py:234`) does not compare the group with the competition
  of its URL, as `delete_group` does.
* `README.md` describes a `staff` role, server-sent events and `create_all` at start-up; the code
  has two roles, no event router, and Alembic. `tests/test_auth.py` registers without the
  `confirm_password` that the schema demands.

## 6. Plan

Order of work, most important first:

1. (done) `MatchRow`, `MatchLifecycle`, `MatchRequests`, `MatchStore` and their proofs.
2. (done) `Standings` with its proofs; `Accounts`; `HeadToHead`.
3. (done) `Records` with `Fixtures`, `Catalogue`, `Desk`, composed by `Backoffice`.
4. (done) Proofs about `Accounts`, `Backoffice` with its circles of waits, the sums of
   `Standings`, `HeadToHead`, and the refinement of `MatchLifecycle` by one connection.
5. (done) `RecordStore`, the abstract specification of whole, atomic requests that `Backoffice`
   implements, with its proof. Next: one of sessions (a token has a line of successors, at
   most so many as refreshes overlapped) for `Accounts` to implement.
6. Later: one module that composes `Backoffice` and `MatchRequests` over a shared row.
