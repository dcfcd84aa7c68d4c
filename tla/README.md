# Omnivore in TLA+

A verification development of Omnivore: TLA+ modules translated from its
source, configurations that check them with TLC, and proofs that TLAPS checks.
Paths below are relative to the repository; `DB` stands for
`dashboard/crates/omnivore-core/src/storage/db.rs` and `routes/` for
`dashboard/crates/omnivore-server/src/routes/`.

## 1. The system

Omnivore measures code coverage and keeps its history. A Gradle plugin and a
JVM/Android agent (`coverage-plugin/`, Kotlin) instrument classes, record which
probes were hit and write reports. A dashboard (`dashboard/`, Rust: axum, tokio,
sqlx on SQLite) accepts reports of several formats over HTTP, stores snapshots,
holds each project to a coverage *ratchet*, prunes old snapshots, comments on
pull requests and renders pages.

| Component | State | Operations | Talks to |
|---|---|---|---|
| Coverage database (`DB`, `schema.sql`) | tables projects, coverage_snapshots, settings, api_keys | one SQL statement each; `delete_project` one transaction | every handler, over a pool of 5 connections |
| Migrations (`DB` 103-295, `main.rs`) | which tables, columns and indexes there are | tables and seed row, guarded `ALTER`s, indexes | the database file, on every start |
| Ingest and project API (`routes/coverage.rs`, `projects.rs`, `api_auth.rs`, `DB` 1186-1320) | locals of each handler | authenticate, parse, create project, insert, ratchet, prune | database, rate limiter, PR comment |
| Coverage ratchet (`DB` 531-575, 1223-1257, 1532-1567) | enabled, line floor, branch floor per project | judge, advance, configure | ingest, settings form |
| Settings pages (`routes/settings.rs`) | none of their own | save settings, ratchet, thresholds, tags; delete project; issue and revoke keys | database |
| Pull-request comments (`github/pr_client.rs`, `comment.rs`) | GitHub's list of comments | find by marker, then PATCH or POST | ingest, GitHub |
| Login, sessions, permissions, CSRF (`routes/auth.rs`, `csrf.rs`) | sessions (7 days), permission cache (5 min), state cookie | login, callback, logout, checks | database, GitHub |
| Rate limiter (`routes/rate_limit.rs`) | a bucket per client, at most 10 000 | check | ingest |
| Source viewer (`github/source.rs`, `pages/file_coverage.rs`) | source cache (1 h for a floating ref), tree cache | fetch, cache, resolve a path | GitHub, database |
| Maintenance (`maintenance.rs`) | none | sweep sessions and caches every 30 min | database |
| Parsers (`parsers/`, `report.rs`, `model/coverage.rs`) | none | six formats to one report, a report to a snapshot | ingest |
| Pages, badge, embed, export, health | none | read-only queries and rendering | database |
| Agent runtime (`agent/runtime`, `OmnivoreAgent.kt`, `OmnivoreTestListener.kt`) | probe arrays by class, probe map | register a class, set a probe, flush at shutdown or end of run | the program under test |
| Agent instrumentation (`agent/instrumentation`) | probe numbering of a class | count, map and insert probes | runtime, report task |
| Report task (`OmnivoreReportTask.kt`, `CoverageAnalyzer.kt`) | merged probes and probe map | merge files, drop stale classes, count | files of the agent |
| Upload task (`OmnivoreUploadTask.kt`) | none | upload each report in turn | ingest |
| Gradle wiring, filters, report writers, CI action | build configuration | task setup, adb, formatting | Gradle |

What is hard about it:

- **Concurrency.** Handlers are async functions over a pool and take no lock.
  Between any two statements of one, any statement of another may run, a
  project may be deleted and created again, a key revoked. Ingest reads the
  project up to three times and writes three tables in up to twelve
  statements that share no transaction.
- **Failure.** A statement may fail in the middle of an ingest (the pool and the
  busy timeout are the two the code itself names); what was stored stays. A client may hang
  up, the server may be restarted (`restart: unless-stopped`), also in the
  middle of a migration. Pruning reads its limits with `unwrap_or_default()`.
- **Ordering.** `created_at` is stamped at parse time, rows are inserted later:
  the time order that pruning uses is not the order of the inserts.
- **Boundaries.** Retention limits are any `i64`; the rate limiter's table and
  the pages of GitHub comments have a maximum.

What makes each component correct: the database keeps references intact and
nothing outlives a project; ingest writes only what the key allows, answers
every request and in closed mode creates no project; the ratchet's floors only
rise by ingest, only for release builds, and no raise or regression is lost;
pruning keeps exactly what it promises; migrations take every older database to
the current schema; comments are not duplicated; sessions and caches do not
outlive their expiry; the limiter bounds each client it tracks; the probe map
and the inserted probes agree; merging does not depend on the order of files.
`PROJECT.json` lists the hazards line by line, each with the properties that would
catch it, or why none does.

## 2. Modules

| Module | Stands for | Contents |
|---|---|---|
| `CoverageDb` | `DB`, `schema.sql` | the tables and one operator per SQL statement |
| `Ingest` | `routes/coverage.rs`, `projects.rs`, `api_auth.rs`, `settings.rs`, `DB::ingest_snapshot` | the handlers and settings pages as a state machine, and its properties |
| `RatchetContract` | what the ratchet promises | an abstract specification over `projects` alone |
| `Migrations` | `DB` 103-295, `schema.sql`, `main.rs` | opening a database of any earlier release |
| `RateLimiter` | `routes/rate_limit.rs` | windows, counts and the full table |
| `Delivery` | `OmnivoreUploadTask.kt`, the upload action, `routes/coverage.rs`, `github/pr_client.rs`, `comment.rs` | CI jobs, their uploads, the handler after the snapshot, and a pull request's comments |
| `Clock` | the wall clock | ticks; shared by the next two |
| `Sessions` | `routes/auth.rs`, `DB` (sessions, permission_cache), `crypto.rs`, `maintenance.rs` | logins, logouts, permissions, the sweep, key changes |
| `SourceView` | `pages/file_coverage.rs`, `github/source.rs`, `DB` (source_cache) | a viewer's request, its two caches, path resolution, pushes |
| `Csrf` | `routes/csrf.rs` | tokens of forms, the cookie, tabs, restarts |
| `Formats` | `parsers/`, `model/coverage.rs` | six parsers, detection and the totals, as operators on documents |
| `Reports` | `pages/project_detail.rs`, `pages/mod.rs`, `export.rs`, `badge.rs`, `embed.rs`, `coverage.rs` (series) | uploads, and the readers of snapshots, query by query |
| `Agent` | `agent/instrumentation`, `agent/runtime`, `OmnivoreReportTask.kt`, `CoverageAnalyzer.kt` | probes, test JVMs, their files and the report |
| `MCIngest`, `MCMigrations`, `MCDelivery`, `MCAccess`, `MCReports` | | instances for TLC |
| `IngestProofs` (with ratchet and retention), `MigrationsProofs`, `DeliveryProofs`, `AccessProofs` (sessions, source pane, forms), `ReportsProofs`, `AgentProofs` | | theorems |
| `FormatsProofs` | | lemmas on the parsers, unions and sums, for `ReportsProofs` |
| `FoldLemmas` | | lemmas on least numbers, sequences and folds for the proofs |

How they compose. `Ingest` EXTENDS `CoverageDb` and has an instance of
`RatchetContract`, over the same variable `projects`, as `Contract`. `Delivery`
EXTENDS `RateLimiter`: every upload passes the limiter first, and both are
restarted together. `Reports` EXTENDS `Formats`: a snapshot is what the parser
made of a document. `MCAccess` puts `Sessions`, `SourceView` and `Csrf` on one
`Clock`, `MCReports` puts `Reports` and `Agent` into one instance; the
components of each of these two share no state but the clock, so a variable
`focus` gives each behaviour to one of them instead of exploring their product.

What storing does to the database is a dozen steps in `Ingest`. `Delivery` and
`Reports` have of them what their readers can tell apart: in `Delivery` the row
(`Store`) and the pruning that ends `ingest_snapshot` (`Prune`), after which a
baseline may be gone; in `Reports` the date, the row, the stripping and the
deletion of older rows, each a step of its own. Both have the deletion of the
project.

An operator introduced by a comment "Mutant of X" is X with one plausible bug. No
definition uses it; putting it in the place of X makes some property fail, which
shows that the property can.

### How `Ingest` corresponds to the code

`req[r]` holds the locals of one handler. `req[r].pc` names the await it is
suspended at:

| pc | statement awaited | code |
|---|---|---|
| keys | `any_api_keys_exist` | `api_auth.rs` 44-63 |
| validate, touch | `validate_api_key`: SELECT, UPDATE | `DB` 721-749 |
| parse | none: body, slug, scope | `coverage.rs` 72-128 |
| known | closed mode's lookup in the handler | `coverage.rs` 133-148 |
| lookup | `get_project` | `DB` 1192 |
| create, readback | `create_project`: INSERT, SELECT | `DB` 327-350 |
| insert | `insert_snapshot` | `DB` 761-793 |
| ratchet, advance | second `get_project`; `advance_ratchet_floor` | `DB` 1223-1257 |
| retention, strip, delete | settings; UPDATE; DELETE | `DB` 1274-1320 |

Each action is the code from one await to the next, with at most one statement.
`StatementFails` (constant `Faults`) is a statement that returns an error,
`HangUp` and `Restart` (constant `MayBreak`) drop one or all handlers in flight.
`ReadRetention` is the one await whose failure the code swallows. A settings
page runs one statement, so each is one action; one that fails changes nothing
and needs none.

Abstractions: a rate is a natural number, since the code only compares rates
and takes maxima; a (target, source) pair is one value; branch names stand for
their case folding; `created_at` is a counter, so time stamps are distinct and
the wall clock does not run backwards; a request's snapshot has the request as
its id (the code draws a UUID per request). `req[r].inserted` and
`req[r].after` are auxiliary: they record that the snapshot was stored once, and
which requests had been answered when this one was sent. The JSON extractor of
`create_project` runs before authentication; the model refuses a body at
`parse` for both handlers, which allows more orders than the code.

### How `Migrations` corresponds to the code

`server[s]` is where a process is in `run_migrations`: which of the three phases,
which statement (`n`), and inside a guard which of its columns. `Migrations` is
the list of guards in their order. Of the tables only those that ever gained a
column are there. `Stop` is a stop of the process or a failing statement, which
ends it (`main` returns the error); `GuardUnread` is a failing guard, which the
code takes for a missing column (`unwrap_or(0)`). `MaxStops` bounds both.

### How `Delivery` and `RateLimiter` correspond to the code

A job is one execution of the Gradle task or of the action; `job[j]` is its loop
over the report files, `up[u]` is upload `<<job, run, file>>` with the locals of
the handler that serves it, suspended at `up[u].pc`:

| pc | awaited | code |
|---|---|---|
| limit, parse | none: the limiter, then body and scope | `coverage.rs` 60-148, `rate_limit.rs` 46-92 |
| store | `ingest_snapshot` up to the row | `coverage.rs` 150-182, `DB` 1192-1220 |
| prune | the rest of it: ratchet, `prune_snapshots` | `DB` 1223-1317 |
| token | `get_project`, `GITHUB_TOKEN` | `coverage.rs` 192-226 |
| baseline | `get_latest_snapshot_for_branch` | `coverage.rs` 227-232 |
| find | `find_existing_comment`: first page, marker | `pr_client.rs` 50-104 |
| write | `update_comment` or `create_comment` | `pr_client.rs` 53-65, 106-172 |

A call to GitHub may fail, or be done and its answer lost. A client that gives
up leaves its handler running until the server notices (`Drop`); a restart takes
all handlers, and the answers not heard yet, along. The two kinds of job differ
as in the code: the Gradle task has a read timeout and stops at the first bad
answer; the action has no timeout, goes on and fails at the end, unless curl
itself fails, which ends its shell. Comments are never deleted, and `looked`,
`after`, `heard` and `failed` are auxiliary.

`Surplus` is what `prune_snapshots` deletes: of the rows of one target and source
(`SeriesOf`), whatever their branch, those beyond the newest k. `Retentions` are
the sums of the two limits that may be in force; any of them may be read by any
upload, since the form can be saved at any time and a failed read gives the
default. `gone` says what became of an inserted row. A branch's only build may be
pruned by other branches' uploads, and `DeleteProject` may take all rows at any
time, so `BaselineIsCurrent` has both as exceptions: a comment may compare with
an older build, or with none, once the base build's series has got as many newer
snapshots as it may keep.

`RateLimiter.Check` is `check` under its mutex, one step: drop the windows that
ended, pass an unknown client through a full table, else count. `Stray` is a
request from elsewhere, so that clients compete. `recent` is auxiliary.

### How `Sessions`, `SourceView` and `Csrf` correspond to the code

`Sessions.req[r].pc` names the await a callback, a logout, `extract_user` or
`require_project_write` is suspended at; each table operator is one SQL
statement with its `expires_at` condition. A sealed token is reduced to the key
it was sealed with: it can be read with that key, or if it was stored without
one. A failed lookup at GitHub counts as no permission and is cached like one,
as in `auth.rs` 304. `born`, `ended`, `able` and `unable` are auxiliary: when a
session was created, which were logged out, and when a user last had, or lacked,
access. GitHub answers within a tick, and what it said is cached in that tick.

`SourceView.view[w]` is one request of the source pane: the text cache, the
tree (cached, or fetched and kept while there is room), the raw file, the write
back. `History` is a repository as a sequence of file sets and `Push` moves its
head between any two awaits. `Resolve` is `resolve_file_path`, with every choice
a hash map's order may make. `seen` is auxiliary: when a version was the head.

`Csrf` has one browser with tabs. A token is its random half and the key it was
signed with: the configured key, or the process's own. `raced` is auxiliary.

### How `Formats` and `Reports` correspond to the code

A document is what its text says, record by record, and a parser is a fold
over the records, with the order and the ends of records (`SF`,
`end_of_record`, `mode:`, segments) that each format has; `Detect` is the
order of the detection. `Plausible` and the recount are
`drop_implausible_lines`. `Int32` (7 in the instance) stands for the largest
`i32`: llvm-cov's `as i32` wraps. In `Reports` every query of a reader is an
action that may fail. An upload is four steps with anything in between:
`Receive` parses and dates it (`model/coverage.rs` 343), `Insert` stores the row
(`DB` 761-793), `Strip` and `Trim` are the two statements of `prune_snapshots`. A
handler that fails or is dropped takes no further step. `created_at` is a place in
the order of parsing, `rows` a set, so that a row dated earlier may come in after
one dated later. Trees are built call by call (`calls`), because the code recurses.

`req[r].since` is auxiliary: the newest matching date when the request came. When
the project is deleted it falls to the date of the oldest upload that has still
to be inserted, if that is older: such an upload creates the project again, and its
snapshot, dated before all that was deleted, is then the latest. `NeverOlder` says
that nothing but this makes an answer older.

### How `Agent` corresponds to the code

A class is a sequence of methods, a method a sequence of line entries, jumps and
switches. `Described` is the walk that writes the probe map, `Inserted` the
visitor that puts stores into the code; they are two definitions because they
are two in the code, and `HitsHappened` needs them to agree. `jvm[j]` has the
store's array of the class, the loaded copies each with the array its field
holds, and the probe map; a JVM is at `data` or `map` while the shutdown hook
writes that file, and threads go on meanwhile. `getOrCreateProbes` is one step
(`Initialise`) unless it has to grow the array: then `Grow` makes the copy and
`Publish` puts it into the store, and a thread that hits a probe in between sets it
in the old array; whether the copy has it is a choice, since `copyInto` may have
passed the element. Only one thread at a time is in `compute` of a class. That
a store by a running thread is seen by the shutdown hook is assumed; the JVM
does not promise it. `files[t]` are the two files of
a test task, which its forks share. The report merges the tasks' files in any
order of the directory walk.

## 3. What TLC checks

| Run | Instance | Checks | Distinct states |
|---|---|---|---|
| `ratchet` | 3 ingests of one ratcheted project, statements may fail | `FloorCaughtUp`, `NoSilentRegression`, `RatchetIsKept` | 823 000 |
| `admin` | 2 requests, all settings pages, one key, failures, restarts | `TypeOK`, `ReferencesResolve`, `FloorProvenance`, `RequestsOnlyRaise` | 1 361 000 |
| `closed` | 2 requests, 2 projects, key required, no auto-create, fair | `WritesAuthorised`, `ClosedModeDeliberate`, `EveryRequestAnswered` | 20 000 |
| `retention` | 3 ingests, 2 series, three settings of the limits | `RetentionKept`, `RetentionEnforced` | 79 000 |
| `upgrade` | 2 servers, five earlier databases, one stop, fair | `TypeOK`, `UpgradeComplete`, `OneServerStands`, `ServersComeUp` | 15 000 |
| `delivery` | 3 jobs, two started in all, limiter on or off, GitHub faults, restarts, fair | `TypeOK`, `QuotaKept`, `TrackedBounded`, `BaselineIsCurrent`, `SuccessMeansStored`, `DuplicateNeedsCause`, `CommentNeverGoesBack`, `BuildEnds` | 462 000 |
| `access` | logins, permissions, source pane, or three tabs, over 4 ticks, fair sweep | `AccessTypeOK`, `OnlyLiveSessions`, `SessionsLast`, `GrantsAreRecent`, `RefusalsAreRecent`, `ExpiredGoesAway`, `SourceIsRecent`, `MissHasCause`, `FormsStayGood` | 616 000 |
| `reports` | every small document; 3 uploads and one reader; or 2 test JVMs | `StoredAsReported`, `CompositeIsUnion`, `OwnBaseline`, `NeverOlder`, `TreeComplete`, `HitsHappened`, `HitsKept` | 505 000 |
| `overflow` | largest retention | finds `DocumentedRetention` violated | |
| `unread` | settings read fails | finds `DocumentedRetention` violated | |
| `interrupted` | 1 server, any subset of the migrations done, one stop | finds `MigratedSchemaComplete` violated | |
| `tree` | a report with absolute paths | finds `TreeDescends` violated | |

The instances and why they are large enough:

- `ratchet`: lost updates need two writers; a third request lets one be sent
  after another was answered while a third is in flight, which is the shape
  `NoSilentRegression` is about. Each of two release builds is better than the
  other in one metric, a feature build is worst in one and best in the other, and
  the initial floor is unset for one metric (`COALESCE`).
  No administrator acts: a floor that is lowered by hand is not a lost raise
  (`Undisturbed`).
- `admin`: deletion and re-creation under a suspended handler needs one request
  and one administrator; the second request makes creation race with creation.
- `closed`: two projects, so that a scoped key can be out of scope; a key that
  is revoked while in use. Liveness is checked here, without symmetry.
- `retention`: three snapshots against limits of (1,1), (1,0), (2,1): each of
  stripping and deleting is reached with inserts out of time order; a second
  series shows that one does not push out the other.
- `IntMax` is 7 instead of 2^63 - 1: the sum wraps the same way.
- `upgrade`: a race for a column needs two servers; `interrupted` starts from
  all 1024 subsets of the guards.
- `delivery`: a push with two files, the next push of the same branch (which may
  be run twice) and a build of the base branch with two files; any two starts of
  them overlap. Two uploads of one pull request are enough for two handlers
  between look and post and for one that overtakes another. `PageSize` 1 with 3
  comments puts ours beyond the first page (100 in the code), and then another of
  ours. The second file of a job is of another series; a series may keep one row or
  two, so that builds of the base branch are pruned by newer ones and by those of
  the pull request. The table holds one of two clients, the limit is 0 (off) or 1,
  the window two ticks. `Apart` leaves out what would only multiply: with the
  limiter on, only jobs that do not comment are started (limiter and comment meet
  in nothing but the answer 429); the base build is not combined with the push of
  two files nor with other people's comments, and the project is deleted only where
  there is a base build.
- `access`: a session lives 3 ticks, a cached permission and text 2, a listing 1,
  the horizon is 4, so each expires before, between and after the awaits of two
  requests and the sweep. One user, one browser and one repository: rows of
  different users and repositories are independent, and what could mix them up
  (a session of the wrong row) the theorems of section 4 cover for any number.
  The file is moved with a copy elsewhere, then leaves only others of its name.
  Three tabs: one that races, one that does not, one that tells.
- `reports`: a document of two or three records reaches every pair of overlapping
  records, every end of a record and each of the two limits (3 for a line
  number, 5 for a total). Three uploads of three formats give the page a series
  with lines, one that lost them to retention, one with totals only; both limits of
  retention are 1, so the third of a series deletes the first. `Bounded` keeps the
  readers' part small: at most two uploads are under way, one of them past its
  insert (two waiting inserts are enough to be inserted in the wrong order, and
  one to come after a deletion); when the request comes at most one waits; while
  a page or an export is read at most one is under way; there is no badge, whose
  queries are those of `/latest`; and nothing that the properties say nothing
  about: no export that names no baseline, and of requests with a query that failed
  only pages. The theorems of section 4 have none of these bounds. Two JVMs with
  two tasks, three builds of a class, of which two are loaded: the shape of a
  grown array, of two versions in one JVM, of two versions in two files.

`CHECK_DEADLOCK FALSE` everywhere: requests, keys, jobs, ticks and stops are
bounded, and a server whose requests are all answered has nothing left to do.

Fairness.

- `Ingest` has weak fairness of each request's next step: tokio polls every
  ready task, and a statement ends, with its result or with the error of the
  pool's acquire timeout (10 s) or SQLite's busy timeout (5 s), `DB` 53-64.
  Nothing is assumed of clients or administrators.
- `Migrations` has weak fairness of a server's startup and of starting one that
  is down, which the deployment guide asks for (`restart: unless-stopped`,
  `docs/docker-deployment.md` 133); since `MaxStops` is finite, it is assumed
  that stops end.
- `Delivery` has weak fairness of a started job's own steps: a CI runner works
  it. Nothing makes the server or GitHub answer; that a Gradle build still ends
  is its timeouts' work. The action has none, and nothing is claimed of it.
- `Sessions` has weak fairness of the housekeeping loop, a spawned task that
  sleeps and sweeps, and strong fairness of a deletion that succeeds: not every
  one fails for ever.

### What disagrees with the code's own words

- **Retention overflow** (`overflow`). `DB` 1283 adds two `i64`. With a limit near
  the largest, which the form accepts, a release build wraps, SQLite reads the
  negative offset as zero, and each ingest deletes the whole series, itself
  included, where the comment at 1271-1273 promises to keep the newest.
- **Unread settings** (`unread`). When the settings cannot be read, pruning uses
  the defaults for an irreversible delete.
- **Interrupted migration** (`interrupted`). A guard asks for the first of two or
  three columns. A stop after the first `ALTER` leaves the rest out for good,
  although each guard says that it adds what is missing.
- **File tree of absolute paths** (`tree`). `pages/mod.rs` 413 takes the empty
  string for "no parent". When a report has absolute paths in two top-level
  directories, the first component is the empty string, a call has the files of
  the call before it, and the recursion that builds the page does not end.

Met on the way and not expressed by a run:

- `OMNIVORE_RETENTION_FULL` and `OMNIVORE_RETENTION_SUMMARY` are documented
  (`README.md`, `dashboard/README.md` 28-29, `docs/docker-deployment.md` 30-31)
  and read nowhere; the ratchet form writes back the floors it was rendered
  with, so a raise between loading and saving the page is overwritten.
- "existing comment is updated (not duplicated)" (`dashboard/README.md` 250,
  `docs/github-actions.md` 162) holds only up to what `DuplicateNeedsCause`
  allows: a race, or a comment beyond the first hundred. The table of files in a
  comment is not in the order its own comment gives (`comment.rs` 131-132). The
  baseline is not of the upload's series, and is the upload itself when the two
  branches are one.
- The state of an OAuth login is called "Single use" (`auth.rs` 170), but the
  error returns drop the cookie jar and the cookie stays. Tabs loaded together
  before there is a cookie get different tokens, where `issue` says that tabs
  agree; `FormsStayGood` excepts them.
- `export_report` pairs snapshots and baselines by position, and they shift when a
  read fails; `OwnBaseline` excepts that. `invalidate_tree_cache` is called by
  nothing. An lcov file in several `SF` sections counts twice in the totals, and
  the path a Go profile's file is stored under depends on the other files.
- `dropStaleClasses` says that it drops classes whose two files "disagree", and
  drops those with more probes in the map than in the data. Forks of one test
  task share one file, and the last to end overwrites the others' hits. A JVM
  killed between its two files leaves a pair that does not match, which is why
  `HitsHappened` and `HitsKept` ask for `Paired`. A hit that comes while another
  version of its class makes the array grow may be lost (`ExecutionDataStore.kt`
  48-51), besides the later ones that the comment there accepts. Only the first entry of a line
  in a method has a probe, so a second copy of an inlined `finally` marks
  nothing. A torn `.omnivore` file ends the report task.

## 4. What TLAPS proves

### Ingest and the ratchet

For any finite or infinite sets of requests, projects, keys, branches and rates,
under `ConstantsAssumption`, `SentinelsAssumption` (`CoverageDb`) and
`IngestAssumption` (`Ingest`): the types of the constants, that 0 is the least
rate, and that sentinels are not ordinary values.

| Theorem | Statement | Argument |
|---|---|---|
| `TypeCorrect` | `Spec => []TypeOK` | inductive; one lemma sums up what a step does to the handlers, one what each statement does to the tables |
| `ReferencesCorrect` | `Spec => []ReferencesResolve` | inductive with `TypeOK`: only `DeleteProject` removes a row of projects, and takes its snapshots and keys along; only `InsertSnapshot` and `InsertApiKey` add references, and check |
| `OnlyAuthorisedWrites` | `Spec => []WritesAuthorised` | not inductive: strengthened by `HandlersOK` |
| `ClosedModeHolds` | `Spec => ClosedModeDeliberate` | from `HandlersOK`: in closed mode no ingest is ever at `create` |
| `OnlyRaises` | `Spec => RequestsOnlyRaise` | from types and the effect of `AdvanceRatchetFloor` |
| `IngestKeepsRatchet` | `Spec => RatchetIsKept` | refinement: `RaiseImplements` maps an advance to `Raise` of the request's build, which `HandlersOK` says is a release build |
| `FloorsHaveProvenance` | `Spec => []FloorProvenance` | inductive with `HandlersOK`: the request that raises has stored its snapshot |
| `NoRaiseIsLost` | `Spec => []FloorCaughtUp` | `CaughtUpInv` adds the requests that have advanced but are not answered yet |
| `NoRegressionIsSilent` | `Spec => []NoSilentRegression` | `WarnedInv` says it from the moment of the verdict on, `AfterInv` that requests answered before are still answered |

`HandlersOK` is the heart of it: what a handler knows at each await. Past
`parse` its scope fits its project; past the insert it has stored; at `advance`
its branch is on the release line; at `create` in closed mode it is a create
request; an open scope means no key is required. None of the invariants about
tables is inductive without it, because a table does not remember who wrote it.

### Retention

Under the same assumptions and `SaneLimits`: the limits an instance starts with
are not negative and their sum is an `i64`. The run `overflow` shows what happens
without it, the run `unread` what happens when the limits cannot be read, which
`RetentionKept` and `RetentionEnforced` except.

| Theorem | Statement | Argument |
|---|---|---|
| `RetentionIsKept` | `Spec => []RetentionKept` | `Ledger` ties each row to the ingest that stored it and its time; the newer rows a pruning statement counts are among the newer ingests, and those only grow in number |
| `RetentionIsEnforced` | `Spec => []RetentionEnforced` | `Bounded`, for files counted against the ingests that have not reached the second pruning statement (`Unstripped`), for rows against those not answered. `FewAreNew`: of rows with distinct times at most n have fewer than n newer ones, which is what a statement leaves |

`RetentionInv` joins `Ledger`, `Kept` and `Bounded`. `RetentionEnforced` is not
inductive: an answer takes its ingest off the count, and its files must have been
stripped one statement before. `FewAreNew` takes the oldest of those rows, which
exists by well-foundedness, and has all the others newer than it. TLC checked
`RetentionInv` on the run `retention` before it was proved.

### Startup

For any number of servers and any set of earlier databases that are releases:
`MigrationsAssumption` says that the columns of such a database belong to its
tables and that the columns of one guard are there together or not at all. The
run `interrupted` shows what happens otherwise.

| Theorem | Statement | Argument |
|---|---|---|
| `StartupTypes` | `Spec => []TypeOK` | inductive with the position of each server |
| `UpgradesComplete` | `Spec => []UpgradeComplete` | `Done`, `Checked`: what lies behind a server is there; `Taken`: where the columns of a guard stop short, some server is about to add the next, so with all servers up none do |
| `SomeServerStands` | `Spec => []OneServerStands` | `Ahead`: some server has not failed and is not about to add a column that is there. The one that adds a column that another was about to add stays ahead of it |

### Delivery

For any jobs, files, re-runs, clients, limits and comments, under
`LimiterAssumption` and `DeliveryAssumption`, with crashes and GitHub's faults
allowed or not.

| Theorem | Statement | Argument |
|---|---|---|
| `SuccessIsStored` | `Spec => []SuccessMeansStored` | `Progress`: the files behind a job that has not failed are stored; needs `Pending` (what a job has not sent is unsent) and `Flow` ("created" is only said of what is stored) |
| `DuplicatesHaveCause` | `Spec => []DuplicateNeedsCause` | `Seeking`: a handler about to post found no comment of ours among those it looked through, and these still are not ours |
| `BaselinesAreCurrent` | `Spec => []BaselineIsCurrent` | `Based`, the same for one upload; a base that was read was the newest in the table, and what was missing there was missing for a reason (`InTurn`) |
| `CommentsGoForward` | `Spec => CommentNeverGoesBack` | what was heard before an upload was sent is answered or gone (`Flow`), so its handler no longer writes |
| `TableIsBounded` | `Spec => []TrackedBounded` | with finiteness of the table's domain; a client is added only when there is room |
| `QuotaIsKept` | `Spec => []QuotaKept` | `QuotaInv`, below |
| `DeliveryIsTyped` | `Spec => []TypeOK` | `QuotaInv` types the limiter, `DeliveryInv` the rest |

`DeliveryInv` is their conjunction with `InTurn`: a row that was pruned has as many
newer ones in its series as may be kept. That stays so (`OutlivedStays`): dates do
not change and newer uploads only become more, also when their rows are pruned or
deleted in turn. `BaselinesAreCurrent` needs it at the read, where a build answered
before is in the table, or deleted, or pruned in its turn; and that the greatest
`created_at` of a nonempty set exists, which is well-foundedness of the naturals
below `parsed`.

`QuotaKept` looks back one window, which no single counter spans. `QuotaInv`
splits the requests that passed at the start of the client's counter: since then
no more than it counted and no more than the limit (`Tallied`), before then no
more than the limit, which is what the counter before it let through; with no
counter running, what passed is no more than the limit. `Recorded` says of each
request what it was decided on. When a window ends, what is left of the earlier
requests has left the window too.

### Sessions, source pane and forms

For any users, browsers, requests, sessions, secrets and lifetimes under
`SessionsAssumption`, `RowsAssumption` and `ClockAssumption`; for any repositories,
viewers, histories and lifetimes under `SourceAssumption`; for any number of tabs,
tokens and restarts under `CsrfAssumption`.

| Theorem | Statement | Argument |
|---|---|---|
| `SessionsTypes` | `SessionsSpec => []SessionsTypeOK` | inductive with `Sound`: a handler past `extract_user` has a user |
| `LoginsLast` | `SessionsSpec => []SessionsLast` | `Row`: a session that is not logged out and whose time is not over is there |
| `OnlyLiveAreLetIn` | `SessionsSpec => OnlyLiveSessions` | `Row` ties `expires_at` to the login, and a logout to the row's absence |
| `GrantsStayRecent` | `SessionsSpec => GrantsAreRecent` | `Recent`: what the cache says was so when it was stored; `Told`: what a handler is about to store is so at this tick |
| `RefusalsStayRecent` | `SessionsSpec => RefusalsAreRecent` | the same, for refusals |
| `SourceTypes` | `SourceSpec => []SourceTypeOK` | from `SourceInv` |
| `SourceStaysRecent` | `SourceSpec => []SourceIsRecent` | a row of the cache is of a version that was the head when it was stored, and a viewer that has a text holds a row of this tick or one that had not expired |
| `MissesHaveCause` | `SourceSpec => []MissHasCause` | `Missed`: a viewer without a text resolved against a listing that was the head within its lifetime, and asked for a file the head did not have |
| `CsrfTypes` | `CsrfSpec => []CsrfTypeOK` | inductive |
| `FormsHold` | `CsrfSpec => []FormsStayGood` | `Underway` and `Settled`: as long as a page that did not race is open, it is the only one that could bring a new cookie, and the cookie is its form's token; `PastKeys`: no token has a later process's key |
| `AccessTypes` | `MCSpec => []AccessTypeOK` | the three invariants above over the one clock the instance `MCAccess` gives them |

Each invariant was first checked by TLC, then proved with one step per action.
`MissHasCause` compares with a head of the present tick, not with the head of
the present state: a file that was deleted and comes back while an answer is on
its way is missed with neither an old listing nor a rename. That came out of the
proof, no instance had reached it; the instance has such a history now.

### Reports

For any documents, readers, limits and bounds, under `FormatsAssumption` and
`ReportsAssumption`. The latter says that what is uploaded is in `Documents`: any
sequence of records lcov or Go can write, and any files, of any length, that the
other formats can describe. Two kinds of text are left out: a JSON text that
`detect` takes for another of the formats (its records would have to be read in
two ways at once), and one without what its producer always writes (totals in
those of the agent and coverage.py).

| Theorem | Statement | Argument |
|---|---|---|
| `BaselinesAreOwn` | `ReportsSpec => []OwnBaseline` | `Exporting`, below |
| `AnswersAreRecent` | `ReportsSpec => []NeverOlder` | `Searching`, below |
| `TreesAreComplete` | `RelativePaths` implies `ReportsSpec => []TreeComplete` | `TreeSoFar`, below |
| `SnapshotsAreAsReported` | `ReportsSpec => []StoredAsReported` | `ParsedIs`, below; retention takes all lines of a snapshot or none |
| `CompositesAreUnions` | `ReportsSpec => []CompositeIsUnion` | `CompositeIs`, below, and that a page has stored snapshots only (`ShownOK`) |

`ReportsInv` joins `Ordered` (dates are those of uploads, and no upload still to be
inserted shares one with another or with a snapshot), `Asked` (which handlers a
request of each kind reaches) and two invariants of what a handler knows between
its queries. Uploads come in through one relation, `Refreshed`: every snapshot is
one that was there or was still to be inserted (`Coming`), what is newly dated is
later than all before, and every series keeps a snapshot as new as each it had.
`NewestKept` gives the last for both statements of `prune_snapshots`: as
`retention_full` is at least 1, a series' newest row is beyond neither limit.

- `Exporting`. `export_report` pairs snapshots and baselines by position, although
  a target without a snapshot gets no position among the former. That this never
  shifts is not inductive; the reason is that baselines are only read if the
  snapshot that names their date is there, deletion takes all snapshots at once
  and one that was there does not come back (`Asked`: the date is of none still to
  be inserted). So while that snapshot is there nothing has been
  deleted since the targets were listed, every target listed has a snapshot,
  and what was read is a prefix of the list.
- `Searching`. Either every snapshot dated before `since` has been deleted
  and none is still to be inserted (`Gone`), and then any answer is recent enough, or one of the series that are
  still to be read, or were read, has a snapshot that recent (`Ahead`). Both
  survive uploads, pruning and deletion.
- `TreeSoFar`. Between two calls of `build_dir_node` every call still to come has
  all files below its directory, calls are about disjoint files, a directory
  shown either contains a call's files properly or shares none with it, and every
  file in a directory is in one shown or in a call. `ReplacedCalls` says that
  this survives when a call gives way to calls about parts of its files, of which
  joining a directory to its only one, and showing a directory, are the two uses.
  `RelativePaths` says that no parsed document has a path whose first component is
  empty; the run `tree` shows what happens otherwise. The parsers and
  retention come in only through what they make of the paths.
- `ParsedIs`. What a parser makes of a document has, path by path, the lines that
  some record of the document is about, and as executed those that some record
  says were. One lemma per format, because records go together differently in
  each: `LcovIs` follows the parser record by record, with the file that is open
  and those that are finished against the `SF` that the records so far belong to
  (`SourceOf`); `GoIs` has that cutting off the directories all paths share keeps
  different paths different; `LlvmIs` that among the segments of a line the one with
  the largest count decides; `PythonIs` and `JacocoIs` that sorting loses nothing.
  `DropIs` then takes the implausible lines away, and `LinesOfIs` says that the
  totals are the numbers of the lines left.
- `CompositeIs`. `EnterRowsIs` goes through snapshots, files and lines: the places
  the union has are those of the lines so far, and it has as executed those with a
  hit so far. `SetSumIs` says that a sum over a set, in whatever order, is
  the sum over the sequence with the other numbers at 0.

### Agent

For any class files (versions, methods, instructions), JVMs, test tasks and bounds,
under `AgentAssumption`: the types of the constants, finitely many tasks, and
that `NoFile`, `Torn` and `NoJvm` are not ordinary values.

| Theorem | Statement | Argument |
|---|---|---|
| `AgentInvariant` | `AgentSpec => []AgentInv` | inductive, below |
| `HitsAreHappened` | `AgentSpec => []HitsHappened` | `HitsExplained` and `ProbesAndStores`: an index that was hit and is in the map belongs to a line that was executed, whichever file it comes from |
| `HitsAreKept` | `AgentSpec => []HitsKept` | `KeptWritten`: a hit made while nobody was growing the array is in the store's array and in the copy that replaces it, and then in the file; `MergedAll` and `MergedMaps`: merging loses no hit and no probe |

Two things are shown by induction over data. `MethodAlike` goes through the
instructions of a method: the walk that describes the probes and the visitor
that inserts the stores have then seen the same lines and made as many of
them, and the n-th store is in an instruction of the line that the n-th entry
names. `ProbesAndStores` does the same over the methods of a class. The others are
about the report: `MergedHits` and `MergedAll` go through the files and say that
the merged array has exactly their hits and the length of the longest,
`MergedMaps` that merged maps without a conflict have exactly the probes of each.
A fold is brought into reach by `FoldLemmas`: `FoldExists` shows that the
recursive function behind `FoldLeft` has a value for every sequence,
`FoldSteps` that it goes from element to element, and from there an induction
is one over the naturals below the length.

`AgentInv` then says of the JVMs: the map is that of the loaded versions
(`MapsComplete`); a hit in the store's array has a line that was executed
(`HitsExplained`); the array is long enough for every copy that has one, and as long
as some copy needs (`ArraysFit`), which is what makes the test of
`dropStaleClasses` say something; and of the files: the array is that of one JVM
as it was (`DataWritten`), the map that of one JVM that is down and will not
load more (`MapWritten`); and what must be reported stays where it is
(`KeptWritten`). The proof corrected `HitsKept`: a jump that comes before the first line
of its method has no line to be reported under. `Longer` in `MCReports` has one now.

### Only model-checked

`EveryRequestAnswered`, `ServersComeUp`, `BuildEnds` and `ExpiredGoesAway`: they are
liveness under fairness. Every invariant and every action property of the passing
runs is stated by a theorem.

What the prover cannot do here: liveness under fairness and `ENABLED`;
induction over data by the library's theorems, which take an operator as
parameter (`FoldLemmas` goes around that, but each fold needs its own lemmas);
and anything about a module that declares a `RECURSIVE` operator, which none here
does. It also misreads `@` in an `EXCEPT` nested in another, so `Delivery` and
`SourceView` write those out where a proof expands them.

## 5. Not modelled, and the plan

Left out, with the reason:

- `update_project`, tags, thresholds and the repository link of a project, its
  list of activities, the pages for all projects, dependencies and health: rows
  written and read by one statement each. That a project may be linked and
  unlinked at any time is in `Delivery.Token` and `Sessions.ReadProject`.
- Pinned commits and the cache of annotated HTML of the source pane: neither
  expires against a moving branch.
- The agent's options, statistics file, name filters and detectors: patterns over
  names. A method is instrumented or not (`Instrumentable`).
- The Android listener: the same two files in the same order as the hook's.
- Excludes, the combined report of two targets and the dependency graph of the
  report task; the report writers; Gradle wiring and adb: configuration and
  formatting.
- Cryptography, HTTP, GitHub beyond its answers, HTML, bytecode emission: state
  outside the program, or correctness that is not a matter of states.

What would add most next: `Ingest` and `Delivery` joined by a refinement of
`Store` and `Prune`; several readers in `reports`; the combined report.
