# bugrail: a TLA+ model of the server

bugrail is a small, Sentry-compatible error tracker: SDKs post envelopes of
events and attachments to a Go process, which groups the events into issues in
SQLite or PostgreSQL and shows them on a dashboard that refreshes itself. This
directory holds TLA+ modules translated from the code in `src/`, TLC
configurations that check them on small instances, and TLAPS proofs of the
properties that matter most for every instance.

## 1. Inventory of the system

| Component | Code | State | Operations |
|---|---|---|---|
| Store (SQLite) | `internal/storage/sqlite_store.go`, `sqlitegen/` | tables issues, events, attachments, source_maps, users, sessions, projects, project_keys | RecordProcessedEvent, UpdateIssueStatus, StoreAttachment, StoreSourceMap, sessions, Bootstrap, listings |
| Store (PostgreSQL) | `internal/storage/postgres_store.go`, `postgresgen/` | the same tables | the same operations, under READ COMMITTED |
| Ingestion | `internal/ingest` | the local variables of each request | HandleStore, HandleEnvelope |
| Processor | `internal/processor` | none of its own | Process: event id, grouping key, store call, alert |
| Notifiers | `internal/notify` | the list of notifiers | Multi.Notify |
| Hub | `internal/hub` | channels of the open streams, a mutex | Subscribe, Notify |
| Dashboard | `internal/web` | none in the server, the page in the browser | list and show issues, HandleIssueStatus, HandleStream |
| Sessions | `internal/auth` | sessions table, cookies | SessionMiddleware, CSRFMiddleware, RequireUser, Login, Logout |
| Rate limiter | `internal/ratelimit` | a token bucket per project | Allow |
| Commands | `cmd/bugrail` | the process | init, serve, migrate |

How they interact. `net/http` runs every request in a goroutine of its own. An
ingestion request passes the key check and the rate limiter, then walks the
items of its envelope. For an event it calls `Service.Process`, which calls
`RecordProcessedEvent` (one database transaction) and, when the transaction
created an issue, `Multi.Notify` (a webhook at a time). Then it calls
`hub.Notify`, which puts a signal in the channel of every open SSE stream that
has none. The goroutine of the stream takes the signal and writes `refresh`;
the script in `base.html` then fetches the page again and replaces `<main>`.
Dashboard requests read and write the same store.

What is hard here, and what correctness means:

- *Retries.* SDKs send an envelope again when they see no answer, perhaps
  while the first request is still running. An event id must be recorded once,
  counted once, alerted at most once, and a retry must not reopen an issue.
- *Interleaving.* Events of one grouping key arrive together; lookup and insert
  must be one unit, or an issue is created twice or an event is not counted.
- *Crashes and partial failures.* The process can die, the client can leave
  and the database can fail between any two steps of a request; what was
  answered with 200 must be in the database.
- *Order.* Arrival times are read before the transaction; a click on Resolve
  races with an event; answers to a browser overtake each other.
- *Two processes.* `bugrail init` and `bugrail serve` migrate on their own, and
  nothing but the database stands between two of them: there must be one whole
  installation or none, and nothing served on half a schema.
- *Sessions and cookies.* Requests of one browser overlap and their answers
  arrive in any order, or not; the session row, the cookie and the token in a
  form must still fit together, and a session that was ended must stay ended.
- *Limits.* The token bucket is created and locked by requests in any order;
  bodies are cut at 2 MiB; pages are cut by a time that many issues share.
- *Reads in several steps.* A list read page by page, or a detail page read in
  two calls, shows rows that change in between.
- *Wake-ups.* The hub drops a signal for a channel that is full, streams come
  and go: an open page must still see the latest event.

Every hazard, with its line and the properties that cover it, is listed in
`PROJECT.json`.

## 2. Modules

| Module | Models | Composes |
|---|---|---|
| `IssueTables` | tables issues and events, what the statements do to a row, what the tables promise | |
| `SqliteStore` | the SQLite back end: each store call that writes, one atomic step each | `IssueTables` |
| `PostgresStore` | the PostgreSQL back end: `RecordProcessedEvent` statement by statement | `IssueTables` |
| `Hub` | `internal/hub` | |
| `Ingest` | `HandleEnvelope`, `HandleStore`, `Service.Process`, `Multi.Notify` as steps of concurrent handlers | `SqliteStore`, `Hub` |
| `Server` | the process: handlers, triage clicks, SSE streams and browser tabs, crashes | `Ingest` |
| `IssueLedger` | abstract specification: what the tracker promises about issues | |
| `Installation` | `bugrail init` and `bugrail serve` as processes: migrations, `Bootstrap` | |
| `Accounts` | `internal/auth`: browsers, cookies, sessions, CSRF, over an installation | `Installation` |
| `Limiter` | the token bucket of `internal/ratelimit` | |
| `Envelope` | `readRequestBody`, `parseEnvelope` as operators | |
| `Grouping` | `normalizeEvent`, `buildGroupingKey` as operators | |
| `Reception` | the way of a request from its first byte to its parsed body, on both endpoints | `Limiter`, `Envelope`, `Grouping` |
| `Paging` | the issue list and the detail page in a browser tab, over changing tables | `SqliteStore` |
| `MCServer`, `MCPostgres`, `MCAccounts`, `MCReception`, `MCPaging` | constants and bounds of the small instances | the modules of these names |
| `IssueTablesProofs` | lemmas: what a row and its event do to the tables, and to the ledger they stand for | `IssueTables` |
| `SqliteStoreProofs` | lemmas: each store operation keeps the tables consistent | `SqliteStore`, `IssueTablesProofs` |
| `ServerProofs` | theorems: types, consistent tables, answers, alerts, wake-ups, files, status changes, the ledger | `Server`, `SqliteStoreProofs` |
| `PostgresProofs` | theorems: what survives READ COMMITTED, no deadlock, the ledger | `PostgresStore`, `IssueTablesProofs` |
| `AccountsProofs` | theorems: one installation, sessions, cookies, CSRF | `Accounts` |
| `ContentProofs` | theorems about operators: envelopes are read as written, the key groups by problem | `Envelope`, `Grouping` |
| `ReceptionProofs` | theorems: the limiter's budget, keys, envelopes and grouping of what arrives | `Reception`, `ContentProofs` |
| `PagingProofs` | theorems: the issue list and the detail page | `Paging`, `SqliteStoreProofs` |

### IssueTables and SqliteStore

`issues` and `events` are functions from the stored ids to rows, `attachments`
counts the rows per event id and file name, `sourceMaps` is the set of
(release, filename) pairs. `RecordProcessedEvent` appears as the three outcomes
it can commit, `RecordDuplicate`, `RecordNewIssue` and `RecordKnownIssue`; a
failure rolls back and changes no table.

- `open.go` limits the pool to one connection. A transaction keeps the
  connection until it commits or rolls back, so no other statement runs in
  between. This is why each store call is one step.
- The UNIQUE constraints on (project, grouping key) and (project, event id) are
  *not* guards. The invariants then show that the lookups inside the
  transaction suffice and that no constraint is ever reached on this back end.
- The project column is left out, since only project "1" can exist: Bootstrap is
  the only insert into projects and refuses a second run. The columns that
  copy the text of the latest event are represented by `last_event_id`.
- A fresh random id is any id not in use.

### PostgresStore

The code of `postgres_store.go` is that of `sqlite_store.go`, line for line, but
`BeginTx(ctx, nil)` on PostgreSQL means READ COMMITTED and the pool is not
limited, so the statements of concurrent transactions interleave. `tx[r]` holds
what the Go function keeps between statements (the item, the time, the issue id
and the `EventCount` that was read) and the uncommitted row of `issues` (`writes`).
That row is at the same time the lock: `RowLocked`, `KeyLocked` and
`EventLocked` say when a statement has to wait. An UPDATE applies to the row as
committed last; the CASE on the status therefore sees the latest status, while
the count is a parameter computed from the row read earlier. A unique violation
aborts the transaction, so the `Commit` that follows it fails (`EventTaken`).
`Commit` may succeed without the caller hearing of it. `Fail` at any statement
stands for a lost connection, a client that leaves or a crash of the process.

The schema is taken to be in place. At this commit `migrations/003_attachments.sql`
declares a BLOB column, which PostgreSQL does not know, so `Migrate` stops there
unless the type is supplied by hand; the model is about the store code, not about that script.

### Ingest

A handler is one request. A retry, a duplicated request or a delayed one is
another handler with the same envelope; nothing is assumed about when it runs.
`HandleStore` is the case of an envelope with a single event. The steps of a
handler are those between which another goroutine can observe a change:

| Action | Code |
|---|---|
| `Refuse`, `Accept` | early returns before the loop; start of the loop |
| `BeginProcess` | event decoded, `time.Now()` read |
| `ProcessNewIssue`, `ProcessKnownIssue`, `ProcessDuplicate`, `ProcessFails` | the transaction by its outcome, and what the handler does with it |
| `AlertNotifier` | one call in `Multi.Notify`, delivered or not |
| `SignalHub` | `hub.Notify` |
| `SkipUndecodable` | an event that does not decode: nothing is reset, the loop goes on |
| `KeepSourceMap`, `KeepAttachment`, `PassOver` | attachment items; items that are skipped or whose store call failed |
| `Respond` | 200 with the last event id |

The verdict of the key check, the limiter and the parser is a free choice
here; `Reception` has them (its status "accepted" is `Accept`, the others are
`Refuse`). The bytes of an envelope are abstracted to what the code branches on: item
type, event id (possibly missing), grouping key, release, file name and whether
it is a source map.

### Server

`triage` holds the two steps of `HandleIssueStatus`: the UPDATE (`ClickStatus`),
then the read for the row that is shown (`ReloadIssue`); either may fail
(`ClickFails`, the error reply of `ReloadIssue`). A tab has the page it
shows (`page`), the `refresh` messages not acted on (`pending`) and the
answers on their way (`replies`, a set, so they arrive in any order; two
answers with the same content are one). The fetch that a `refresh` starts reads
the page (`FetchPage`) or fails, at the server or on its way (`FetchFails`); the
script drops what is no page and does not ask again. `Crash` empties the memory of the
process: handlers and streams are gone, tables and pages stay, clients see no
answer. A restart keeps the database file, so it needs no step of its own.

`unread`, `missed` and `lastRead` are history variables: the events committed
while a tab's stream was open that no page read for it contains, those of them for
which a fetch was made and failed, and the latest page read for the tab. No action
depends on them.

`Quiet` lets the model idle when every request and click has been answered, so
TLC's deadlock check is on in every run: a handler that could not continue
would be reported.

### Installation and Accounts

A process is one run of the command. `init` and `serve` first apply what is
pending: `ReadVersion` is goose's look at the version, `Apply` one migration
with its entry in the version table, in one transaction. `Refusals` lists the
migrations a back end may refuse: on PostgreSQL that is
`003_attachments.sql`, whose column type BLOB PostgreSQL does not have, so at
this commit `Migrate` fails there unless a type of that name has been made by
hand. `Bootstrap` is modelled statement by statement under READ COMMITTED, since
SQLite's single writer allows fewer interleavings; as in `PostgresStore`, a row of an
open transaction makes an INSERT of the same unique key wait, which the `pc`
of the other process tells (`EmailPending`, `SlugPending`, `ProjectPending`).
`projectNumericID` makes "1" of a count of zero: the primary key of `projects`
is what keeps two installations apart, when emails and slugs differ.

`Accounts` adds browsers. A request goes through `SessionMiddleware`
(`ReadTime`, `FindSession`, `FindExpired`, `FindNothing`, `DeleteExpired`: the
clock, the SELECT and the DELETE are steps of their own), `CSRFMiddleware`,
`RequireUser` and its handler; its answer changes the cookies and the page of the
browser when, and if, it arrives (`Receive`, `Lose`). Database errors are
outcomes of every step that looks at one (`ServeFails`, `LogoutFails` and others); an INSERT
or DELETE that reports an error may have been done. A token is named by the request that
drew it. `jar` holds the two cookies, `form` the CSRF token in the forms of the
page shown; an HTMX button takes the token from the cookie, a form from itself.
Browsers are not assumed to drop a cookie at the end of its Max-Age.

### Limiter, Envelope, Grouping and Reception

`Limiter` counts tokens in parts of 1/`Minute`, so that a second refills
`PerMinute` of them and arithmetic stays in the integers; the rounding of
float64 is left out. Other projects cannot exist, so one bucket is enough.
`granted` and `filled` are history variables: how many calls had been let
through, and how many full buckets had been put in the map, by each second. They are running
totals, so that what happened in an interval is a difference and no sum.

`Envelope` and `Grouping` are pure operators. A body is a sequence of symbols:
newlines, payload bytes, and the two halves of a line of JSON, so that a cut can
tear a header. Parsing is compared with writing: `ArrivesWholeOrCut` says that
what the protocol writes is what the server reads. A payload may be any symbols,
those of further headers included. Texts are sequences of
words, so that white space and the separator of a title can matter; SHA-256 is
taken to be injective. `GroupedAlike` says in both directions what the key amounts to:
fingerprints decide alone, and without them two events are one issue if and only if
they are the same problem (`SameProblem`: first exception, or else message; place; platform). An
event that names no place counts as being at the place named like its title, because the code hashes
the title there. `ItemsFrom`, `HashParts` and `Sent` recurse by recursive functions and
the folds of the community modules, so that they can be proved about.

`Reception` takes a request through the steps of its handler. `After` is their
order: the envelope handler reads the body before it looks for a key (which may be in the
envelope's DSN), the store handler after it has asked the limiter. `Allow` is
split where goroutines can overtake each other: the time of a new bucket,
`LoadOrStore`, the part under the bucket's lock. A slot is a connection that
serves one request after another.

### Paging

One tab. `OpenIssues`, `LoadMore` and `OpenIssue`/`ListEvents` are the store
calls of `HandleIssues` and `HandleIssue`; in between, events and clicks change
the tables by the steps of `SqliteStore`. An event may carry a time that is older than
one already stored, since arrival times are read before the transaction. Rows
with the same time come in any order. `shown`, `repeated`, `lastRows`,
`movedBack` and `quiet` are history variables. The refresh that a stream causes
fetches `window.location.href`, which is the address of neither the filter nor a
later page: it takes the reader back to the first page, and is `OpenIssues("")`.

### IssueLedger

The promise behind the tables: an append-only map from event ids to grouping
keys, and for every key seen a status and an exact count. A new event sets the
status to open when its key is new or resolved, and leaves it alone otherwise.
`Server` implements it (`ImplementsLedger`) by reading the tables
through their grouping keys.

## 3. What is checked

| Run | Instance | Shows |
|---|---|---|
| `requests` | 3 requests over 2 envelopes that share an event id under different keys, 1 notifier, 1 click, 2 seconds; or 2 requests over envelopes with events with and without id, files before, between and after them, a source map, an ignored item, an event that does not decode; 1 crash | the tables stay consistent (`OneIssuePerGroupingKey`, `EventCountIsEventRows`, `SeenColumnsAreEvents`), `AcknowledgedEventsAreStored`, `AlertedAtMostOnce`, `AttachmentsHaveEvents`, `FiledUnderPrecedingEvent`, `OnlyNewEventsReopen`, refinement of `IssueLedger` |
| `live_pages` | 1 tab, 2 requests, 1 click, 1 crash, fetches that may fail, with fairness | `NoLostWakeup`, and the liveness property `UnreadEventsAreFetched` |
| `postgres_races` | 3 transactions over 2 keys and 2 event ids, with a retry under another key, failures, 1 click, 2 seconds | what survives READ COMMITTED: `OneIssuePerGroupingKey` (by the constraint), `SeenColumnsAreEvents`, `CountsAreBounded`, `RecordedOrKnown`, `OneCreatorPerKey`, `SomeCallRuns` (no deadlock, no lock left behind), and the refinement of `IssueLedger` with the true number of rows as its count |
| `accounts` | 2 processes with 2 emails and 2 slugs, 2 migrations of which the second may be refused; then 1 browser, 4 requests, sessions of one second, 2 seconds | `OneWholeInstallation`, `RepliesAreTrue`, `SchemaFirst`; `LoggedOutStaysOut`, `NotServedAfterExpiry`, `SessionsEndForAReason`, `CookiesAreBacked`, `SequentialBrowsersAreNotForbidden` |
| `reception` | 2 connections, 2 tokens in a minute of 2 seconds, 4 times, 1 restart; all envelopes of up to 2 items with up to 4 symbols of payload, cut at 10 symbols; about 60 events | `WithinBudget`, `NeverLimitedWithoutReason`, `OnlyKnownKeysSpend`, `EnvelopesArriveWholeOrCut`, `EventsAreGroupedByIdentity` |
| `paging` | 3 issues, 4 events, pages of one issue and of two events, 3 seconds, 1 click | `RepeatsMeanTimeWentBack`, `QuietIssuesAreShown`, `DetailAgreesWithItself` |
| `ignored_issues` | 2 events, 1 click | violation of `NewEventsReopenIssues` |
| `status_not_streamed` | 1 event, 1 click, 1 tab | violation of `StatusChangesReachOpenPages` |
| `reordered_refresh` | 2 events, 1 tab | violation of `LatestReadIsShown` |
| `failed_refresh` | 1 event, 1 tab, a fetch that fails | violation of `OpenPagesCatchUp` |
| `postgres_counts` | 3 events of one issue | violation of `EventCountIsEventRows` |
| `postgres_duplicates` | an event and its retry | violation of `LateDuplicatesAreReported` |

Bounds. Three handlers are the fewest that let a request, its retry and a
third request for the same grouping key overlap. Two keys and two event ids
give every outcome of the transaction (new issue, known issue, duplicate,
duplicate under another key). One crash, anywhere, separates the requests into
those before and those after it. `MaxClock = 1` gives two arrival times,
enough for them to be stored in the wrong order. In `postgres_races` three transactions let one hold a lock while
another waits and a third fails or retries. One tab is enough because
tabs share nothing but the hub, which treats streams independently. The state
constraint `OneSubject` of `requests` keeps a behaviour to one subject: retries, with
everything that can happen around them, or files, with two requests that fail and
crash but without clicks, alerts and time, which files do not depend on. `requests`
and `postgres_races` use symmetry of requests and issue ids;
they check no liveness property, and the one CHOOSE over issue ids
(`TheIssue`) has a single candidate because of `OneIssuePerGroupingKey`.

In `accounts`, two processes are the fewest that race, and a third could only
meet what two leave behind. The state constraint `Bounds` keeps requests
until the commands are over and one has reported the installation, as
`docs/self-hosting.md` has it, and names requests in the order of sending: four are a
login form, a login, and two requests that overlap, expire or log out. Two
migrations stand for the four: what matters is one that is applied before one
that may be refused. In `reception`, two tokens in two seconds let a bucket be
emptied, partly refilled, capped and lost, by two callers that overtake each
other; the longest envelopes exceed ten symbols, so that they are cut at every
symbol. In `paging`, one issue per page makes every issue a last row, three
issues make a page in the middle, and `NamedByKey` fixes the random id of an
issue. These two runs may stop at the bounds of their histories, so they do not
check deadlock. `accounts` and `paging` use symmetry of interchangeable names and
`reception` of its connections; they check no liveness.

Fairness. Weak fairness on each handler, on the second half of a click, on the
stream's loop and on the tab's script: the Go scheduler and the browser
eventually run what can run. The script acts on every `refresh`
(`ActOnRefresh`), but no fetch is bound to succeed: what holds is that an event is
fetched, not that it is read. There is none on arrivals, clicks, streams that open
or close, time and crashes. The `live_pages` run has no notifiers: webhook
clients have no time-out (`notify/webhook.go`), so nothing justifies that
`Multi.Notify` returns, and with a notifier that hangs the tab is not told.

### Findings

1. *Ignored issues are not reopened.* `CHANGELOG.md:36` says resolved and
   ignored issues reopen on a new event; the CASE in `UpdateIssueAfterEvent`
   reopens resolved ones only.
2. *A status change is not streamed.* `HandleStream` is documented to notify
   "whenever issues change"; `HandleIssueStatus` does not call `hub.Notify`, so
   other tabs keep the old status until some event arrives.
3. *An older answer can overwrite a newer one.* Every `refresh` starts its own
   fetch and the last answer to arrive wins; after two quick events a tab may
   keep the page without the second event.
4. *PostgreSQL loses counts.* Two transactions read the same `event_count` and
   both write it plus one. `CountsAreBounded` is what remains true.
5. *A late duplicate is an error on PostgreSQL.* The branch that reports
   `Duplicate` after a unique violation calls `Commit` on an aborted
   transaction, so a retry that overlaps the first request is answered 500.
6. *A refresh that fails is lost.* `base.html` drops an answer that is no page and a fetch
   that fails, without a retry, and the signal is used up. After one failed
   fetch an open page lacks the event for ever, unless another one
   signals; `base.html:73` and `CHANGELOG.md:23` promise the page follows.
   `NoLostWakeup` and `UnreadEventsAreFetched` say that this is the only way.

Not findings, but worth knowing to a reader of the code:

- The limiter lets through a full bucket *and* the refill of the same minute,
  nearly twice the "up to eventsPerMinute" of `limiter.go:23`, and an envelope
  of many events costs one token; a restart fills the bucket again. `WithinBudget` is the bound that holds.
- "Load more" asks for issues older than the last row shown, so issues of the
  same second are on no page. `QuietIssuesAreShown` exempts just these.
- An event that does not decode is passed over without resetting `lastEventID` and `lastRelease`, so
  the files after it join an earlier event of the envelope. No comment or test says what should happen;
  `FiledUnderPrecedingEvent` allows this and nothing else.
- Grouping is finer than `CHANGELOG.md:47` says ("fingerprint or exception type + value"): the key
  also has culprit, platform and title, so one exception raised at two places is two issues.
  `EventsAreGroupedByIdentity` states the rule that the code follows.
- A logout whose DELETE is done but reported as an error leaves the browser with a cookie
  that has no row; `CookiesAreBacked` and `SessionsEndForAReason` count it as a reason.
- A database that is down makes `SessionMiddleware` expire the cookie although
  the session is still there, and makes the ingestion answer 403 instead of 500.
- An empty last item without a newline makes `parseEnvelope` drop the whole
  envelope, answered 200. `EnvelopesArriveWholeOrCut` exempts it (`Terminated`).

## 4. What is proved

Each theorem holds for every value of the constants that satisfies the ASSUMEs:
any number of handlers, envelopes, issues, tabs, notifiers, transactions,
browsers, processes, migrations, crashes and seconds.

| Module | Theorem | States of `Spec` |
|---|---|---|
| `ServerProofs` | `TablesConsistent` | `[](TypeOK /\ StoreInv)`, the inductive invariant |
| | `TypeCorrect` | `[]TypeOK` |
| | `GroupingCorrect` | `[]OneIssuePerGroupingKey` |
| | `CountCorrect` | `[]EventCountIsEventRows` |
| | `SeenCorrect` | `[]SeenColumnsAreEvents` |
| | `ServerInvariant` | `[]SafetyInv`, the inductive invariant |
| | `AnswersAreTrue` | `[]AcknowledgedEventsAreStored` |
| | `AlertsAreNotRepeated` | `[]AlertedAtMostOnce` |
| | `WakeupsAreNotLost` | `[]NoLostWakeup` |
| | `AttachmentsAreOfEvents` | `[]AttachmentsHaveEvents` |
| | `StatusesChangeForAReason` | `OnlyNewEventsReopen` |
| | `ServerImplementsLedger` | `ImplementsLedger` |
| | `FiledCorrectly` | `[]FiledUnderPrecedingEvent` |
| `PostgresProofs` | `PostgresInvariant` | `[]IInv`, the inductive invariant |
| | `PostgresTypeCorrect` | `[]TypeOK` |
| | `PostgresGroupingCorrect` | `[]OneIssuePerGroupingKey` |
| | `PostgresSeenCorrect` | `[]SeenColumnsAreEvents` |
| | `PostgresCountsBounded` | `[]CountsAreBounded` |
| | `PostgresRepliesAreTrue` | `[]RecordedOrKnown` |
| | `PostgresOneCreator` | `[]OneCreatorPerKey` |
| | `PostgresNoDeadlock` | `[]SomeCallRuns` |
| | `PostgresImplementsLedger` | `ImplementsLedger` |
| `AccountsProofs` | `AccountsInvariant` | `[]IInv`, the inductive invariant |
| | `AccountsTypeCorrect` | `[]TypeOK` |
| | `InstallationIsWhole` | `[]OneWholeInstallation` |
| | `InitTellsTheTruth` | `[]RepliesAreTrue` |
| | `MigrationsComeFirst` | `[]SchemaFirst` |
| | `CookiesHaveRows` | `[]CookiesAreBacked` |
| | `SequentialBrowsersPass` | `[]SequentialBrowsersAreNotForbidden` |
| | `LogoutIsFinal` | `[]LoggedOutStaysOut` |
| | `ExpiryIsRespected` | `[]NotServedAfterExpiry` |
| | `SessionsOnlyEndForAReason` | `SessionsEndForAReason` |
| `ReceptionProofs` | `ReceptionInvariant` | `[](TypeOK /\ LimiterInv /\ SlotInv)`, the inductive invariant |
| | `ReceptionTypeCorrect` | `[]TypeOK` |
| | `BudgetIsKept` | `[]WithinBudget` |
| | `LimitedForAReason` | `NeverLimitedWithoutReason` |
| | `StrangersSpendNothing` | `[]OnlyKnownKeysSpend` |
| | `EnvelopesArrive` | `[]EnvelopesArriveWholeOrCut` |
| | `IssuesAreProblems` | `[]EventsAreGroupedByIdentity` |
| `PagingProofs` | `PagingInvariant` | `[](TypeOK /\ StoreInv /\ PagingInv)`, the inductive invariant |
| | `PagingTypeCorrect` | `[]TypeOK` |
| | `NoRepeatsWithoutReason` | `[]RepeatsMeanTimeWentBack` |
| | `QuietIssuesAreNotMissed` | `[]QuietIssuesAreShown` |
| | `DetailsAgree` | `[]DetailAgreesWithItself` |
| `ContentProofs` | `EnvelopeArrives` | no `Spec`: `ArrivesWholeOrCut` of any DSN and any items |
| | `GroupedByIdentity` | no `Spec`: `GroupedAlike` of any two events |

### The arguments

*Tables on SQLite.* `StoreInv` (`SqliteStoreProofs`) is the conjunction of the
three properties with `EventsHaveIssues` and the finiteness of the events
table. None of the properties is inductive alone: that a *new* issue starts
with a count of one row needs `EventsHaveIssues` (no row may refer to the fresh
id), and that a *known* issue gains exactly one needs finiteness, for the
cardinality of a set with one more element. A lemma per store operation shows
that it preserves `StoreInv`; `ServerProofs` shows that each action of the
server either is a store operation (`StoreStep`) or leaves the tables alone.

*Server.* `SafetyInv` adds the local variables of the handlers. `HandlersStore`
says that a handler has stored every event behind its position, and the one at it
when it is alerting or signalling: a 200 answer only reads that off.
`AlertsInv` says that an issue still to be told to notifier n has not been told to it
before and has one handler only, because only the transaction that
created the issue leads there. `WakeupInv` says that a commit leaves its own handler
on the way to `hub.Notify`, which fills the channel of every open stream; the
events of a failed fetch are set apart (`missed`), since nothing is on its way for them. Each
action of a handler is first reduced to one of five effects (`Begins`, `Stores`,
`Skips`, `Alerts`, `Ends`), so that each part is proved over five cases.

*Files.* `FilingInv` relates the two loop variables of `HandleEnvelope` to one
event item, the last one behind the handler that decodes (`OfOneEvent`). Both variables
are set in every branch of `Process`, a duplicate included, and nowhere else: not
when an event does not decode.

*PostgreSQL.* The invariant needs what each open transaction knows. `Right(x)`:
the issue it found is still there under its key, the count it read is at most
the number of rows now, the row it has written is the row that is committed
now plus its own event, and its new id is unused. `Apart(x, y)`: two
transactions hold different rows, keys and events, which is what the locks are
for. With both, a commit by one transaction cannot falsify what another is
about to commit. `SomeCallRuns` follows from the order of the statements: a call
that waits, waits for one that inserts its event or commits, and
that one waits at most for a commit.

*Accounts.* `IInv` is the conjunction of the types, `InstallInv` (one
open transaction at a time is past its INSERT into `projects`, only an `init`
is in `Bootstrap`, and on a complete schema), `SessionInv` (what a request in progress has read of a session, and
since when), `CookieInv` (what an answer under way will do to the jar) and
`CSRFInv` (for a browser that never overlapped its requests, form, jar
and answer agree).

*Limiter.* `LimiterInv` accounts for tokens in both directions. For the budget,
`TokensAreAccounted`: whatever was let through since any moment, together with what
the bucket holds now, came out of full buckets and of the refill
since; `PastIsAccounted` keeps it for intervals that are over. That a
restart empties the map loses tokens and so keeps the inequality. For the
refusals, `NothingIsWasted`: what the bucket would hold without a capacity, together with what was
let through since any moment, is a full bucket or all of the refill since
then; a bucket without a token therefore has let the rate through in the last minute.
`HistoriesAreTotals` and `BucketIsFilled` are the facts about the histories
that both need, and `SlotInv` says that a time read before `LoadOrStore` is not ahead of
the clock, and that a request that gets to the limiter has a key of the
project.

*Envelopes.* `LaidOut` says where in the written body each item starts and what is at
each of its positions; `Cut` that the body read has the same symbols as far as it
goes. Then reading goes along with the layout: `HeaderRead` for the line of an item's
header, `PayloadRead` for its payload (of declared length, or up to the newline behind it),
`ItemRead` for both. After a payload the parser may or may not have
passed the newline, so what is shown for every item (`ReadsOn`) is about both positions; by induction
from the last item to the first, what comes of it is the rest of `Sent`, or an error, or, where the
body is cut, a part of that rest. The function that `ItemsFrom` defines is
shown to exist first (`ItemsFromSteps`): reading never goes back.

*Grouping.* `HashParts` ends each part with a NUL, and no part contains one: so
from the whole the last part is known, with what is before it, and by induction all parts
(`LastBlock`, `BlocksAreUnique`). Trimming twice is trimming once
(`TrimIdempotent`), so parts that are trimmed before they reach the hash
lose nothing more. So two events have one key if and only if their trimmed parts are the same
(`KeyIsParts`). What remains is to show that the last parts say nothing but what
`SameProblem` says: the title is the exception or the message (`SameTitle`,
`MessageIsTitle`), and the culprit the place, or else the title (`CulpritIs`, `SameCulprit`).

*Paging.* On top of `StoreInv`, `ShownAreAboveCursor` says that what has
been shown was, and unless its time fell is, at or above the time the next page
starts from; `QuietIssuesAreAhead` that a quiet issue has been shown, is still to come or
is of the second of a last row that a page followed; `HeaderIsOfEvents` that the count and the last event in the
header of a detail page are still true of the events when the second query reads them, because
events are only added.

*Refinement.* `RecordIsLedgerStep` (`IssueTablesProofs`) shows, for either
back end, that putting a row together with its event is a `Record` of the
ledger, and `SetStatusIsLedgerStep` that a click is a `Triage`. On SQLite the
mapped count is the column, equal to the number of rows by
`EventCountIsEventRows`; on PostgreSQL it is the number of rows itself.

### Assumptions

They are those of the modules. Envelopes are sequences of items and generated
ids are event ids that no envelope carries, since they are random UUIDs
(`EnvelopesAssumption`); items of PostgreSQL calls have an event id and a key
(`ItemsAssumption`); the values that stand for Go's empty string are no ids
(`NoneAssumption`, `NoneAccountsAssumption`); numeric bounds are naturals
(`NumbersAssumption`, `TimesAssumption`, `RestartsAssumption`, `SizesAssumption` and the like). Of what clients
send, `EventsAssumption` and `EnvelopesAssumption` of `Reception` ask for the types and
that an envelope follows the protocol (`Writable`: an item without a declared length holds no newline, one
without a type nothing), and `TextsAssumption` that no text contains a NUL byte: with
one, two different fingerprints can hash alike, and nothing is claimed of them. TLC
evaluates each of them.

### Only model-checked

- `UnreadEventsAreFetched`: liveness under fairness is beyond TLAPS.
- The six properties that the code violates: TLC shows a counterexample.

Every invariant and every action property of the passing runs is proved. Inductions over
the length of a body, of a list of items or of texts are made by hand, with the set of the
numbers that a fact holds of (`NatSetInduction` from the well-founded order of the naturals), since
a schema over an operator cannot be instantiated by the installed provers.

## 5. What is not modelled

- Templates, stack traces, breadcrumbs and source map rendering: pure
  formatting, no state.
- The statistics of the dashboard and the releases page, the downloads: one
  query each, rendered as it comes.
- Configuration: read once at start; what matters of it is a constant of the
  models (the driver, the rate limit).
- `cmd/seed`: a development client.
- `DeleteExpiredSessions`: nothing calls it.
- Filters of the issue list other than the status: they compare columns that
  never change the order of rows.
- Decompression and JSON decoding, passwords and hashes: library calls.

## 6. Plan

1. The statistics queries of the dashboard as sums over the tables, with the
   lemma that they agree with the listings.
2. Several projects, should the code get a second way to insert one: the project column
   of the tables and a bucket per project.
3. A model of the notifiers' clients with time-outs, should the code get them.
