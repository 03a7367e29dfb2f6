# Verification of Peering Manager

TLA+ models of the parts of Peering Manager where several processes act on shared
state, the TLC runs that check them on small instances, and TLAPS proofs of the
safety of eight of them for instances of any size. Paths below are relative to `src/`.

Peering Manager is a Django application. Its web processes, RQ workers and management
commands share a PostgreSQL database, a Redis server (task queue, cache) and the outside
world (git repositories, PeeringDB, routers). There are almost no locks: processes read
model instances, keep them across network exchanges or in pickled tasks, and save all of
their fields. What the models are about is what such processes can do to each other, and
what is left behind when one of them fails half way. The pages in the browser are such
processes too: they ask for jobs, follow them, and send back what they were shown.

## 1. Inventory

### Background jobs
`core/models/jobs.py`, `core/exceptions.py`, `core/jobs.py`, `devices/jobs.py`,
`peering/jobs.py`, `peeringdb/jobs.py`, `extras/jobs.py`

* State: the `Job` row (status, started, completed, log); the RQ queue with a pickled
  copy of the row; the worker's copy, which it saves whole with every log line.
* Operations: `Job.enqueue()`, `mark_running/completed/failed/errored()`, `log()`, the
  exception handler (the only one that reads the row again), housekeeping and deletion.
* Hard: whole-row saves from a copy that is never refreshed, deleted rows that come back,
  functions of four different shapes that fail in different places, killed workers.
* Correct when: statuses only move on; a function that ended, however it did, leaves a
  terminal status; queued jobs settle.

### Data sources and data files
`core/models/data.py`, `core/data_backends.py`, `core/management/commands/datasource.py`

* State: `DataSource.status/enabled/last_synchronised`, `DataFile` rows, the repository,
  the instance and the clone each actor works on.
* Operations: ask for a synchronisation (saves QUEUED), `synchronise()` (list, refresh,
  delete, create, complete, signal), `push()` (write the DataFile, commit, push), edits.
* Interacts with: jobs (each is run by one), routers (push), the receivers of
  `post_synchronisation`.
* Hard: the status guard is tested on an old instance and saved without a lock; the
  repository moves between clone and push; the passes use one listing.
* Correct when: nobody's absence leaves the source "working"; a completed refresh equals
  the commit fetched; a push reported as completed is in the repository, unless the host
  refused it without an exception and in words that `GIT_ERROR_MATCHES`
  (`core/constants.py:33`) does not list.

### Objects synchronised from data files
`peering_manager/models/features.py` (SynchronisedDataMixin), `core/signals.py`

* State: object (text, file, automatic or not), its `AutoSynchronisationRecord`.
* Operations: `clean()`, `save()` (row first, record second), `delete()`, the receiver
  that loads all objects and then saves them one at a time.
* Correct when: text and file belong together, automatic objects are fresh and recorded,
  the others are left alone.

### Change log and webhook queue
`core/signals.py`, `core/context_managers.py`, `extras/webhooks.py`, `extras/signals.py`,
`peering_manager/middleware.py`, the generic views and the API viewset

* State: per request, a list of webhooks to be sent; the `ObjectChange` rows; the
  transaction and the row locks.
* Operations: save an object, write its tags (`m2m_changed`, which amends both the list and
  the log), delete, commit or abort, flush to RQ when the response is there.
* Correct when: what was committed is told once, with the committed state, and logged;
  what was rolled back is not told.

### PeeringDB cache
`peeringdb/sync.py`, `peeringdb/models/`, `net/models/connections.py`

* State: thirteen tables of cached rows with `updated`; links of connections, exchanges and
  hidden peers to them.
* Operations: update (per namespace: find the latest `updated`, fetch, write in one
  transaction, relink), flush (unlink, raw deletes table by table).
* Correct when: no change is lost between two updates; links point to rows that exist and
  come back after a flush.

### Router configuration
`devices/models.py`, `devices/jobs.py`, `devices/management/commands/configure_routers.py`

* State: the device, the router instance a task was given, the call in progress.
* Operations: render, open, load, compare, commit or discard, close; the command calls
  twice, without and with commit, or once with commit under `--no-commit-check`. A job tells
  of errors and changes, the command of errors alone.
* Correct when: what is committed was compared first; no session is closed with a candidate
  left in it; what is reported is what happened.

### BGP session polling
`devices/models.py`, `devices/signals.py`, `devices/management/commands/poll_bgp_sessions.py`

* State: router row (usable, polled, time of the last poll), session state, two caches.
* Operations: poll all the sessions, or one; read or fill the cache; write everything back.
* Correct when: a poll undoes only users' changes it is behind; recorded states converge to
  the device's, and the words saved by polls of one session are replaced.

### Peering objects: the import of sessions
`peering/models/__init__.py`, `peering/jobs.py`,
`peering/management/commands/import_all_ix_sessions.py`

* State: autonomous systems and the sessions of the connections of an exchange.
* Operations: `InternetExchange.import_sessions()`, a transaction for each connection:
  list the neighbours of the router, create missing systems and sessions; users who add and
  delete both meanwhile.
* Hard: two imports of one exchange meet the same new neighbours, in different orders, on
  unique keys: one waits, or they wait for each other and the database aborts one.
* Correct when: an import ends; a connection is imported whole or not at all; an autonomous
  system appears with one of its sessions.

### Pages that follow jobs
`project-static/js/base.js`, the scripts of the templates

* State: the button, the alerts, the dialog of the configuration page, for each job whether
  the page polls it and which row it has last been given.
* Operations: press (post), poll every two seconds, handle the answer, or its failure.
* Hard: answers are lost; rows are deleted; a button can be pressed again before the answer;
  the row moves on after it was read; "completed" is also the status of a task that declined.
* Correct when: a button that says Working stands for a job still followed; the page stops
  at a status that stays; what it calls a success was done.

### Lists: bulk changes, columns
`project-static/js/forms.js`, `peering_manager/views/generic/bulk_views.py`,
`templates/generic/`, `users/models.py`, `peering_manager/tables/tables.py`

* State: the checkboxes of a list, the page under review, what it sends back; the options of
  the dialog of columns; one JSON value with all preferences of a user.
* Operations: check rows, a page, all pages; ask to edit or delete; review; confirm; move,
  select and save columns, order by one, set the page length.
* Hard: three kinds of checkboxes set each other; the objects listed, sent back and changed
  come from queries at three times; each request saves all preferences as it read them.
* Correct when: a row that was unchecked is left alone; what is changed was reviewed;
  preferences are as last asked, and shown so.

### Parts without a module
Webhook delivery and its conditions (`extras/workers.py`, `extras/conditions.py`), IX-API
tokens (`extras/models/ixapi.py`), authentication backends, `utils/` and `bgp/` helpers,
messaging and password types. Each is listed in `PROJECT.json` with the reason.

The hazards of the code, each at the line where it bites and with the properties aimed at
it, are in `PROJECT.json`, "hazards".

## 2. Modules

| Module | Models | Composition |
| --- | --- | --- |
| `JobLifecycle` | the life of jobs, for all functions and workers | the abstract specification of what a job does |
| `JobPage` | the pages that ask for jobs and follow them | extends `JobLifecycle`: a step is one of a page, of a job, or of both |
| `JobPageProofs` | the inductive invariant and theorems of jobs; that pages only take steps of jobs, stop at the end, and do not say Working for nothing | extends `JobPage`; extended by `MCJobPage` |
| `DataSourceSync` | one data source with its jobs, commands, pushes and users | takes its job steps from `JobLifecycle` by `INSTANCE`, and implements it |
| `AutoSync` | synchronised objects and the receiver of `post_synchronisation` | what `DataSourceSync` does in its step "signal" |
| `AutoSyncProofs` | its inductive invariants and theorems | extends `AutoSync` |
| `CommitJournal` | what change logging promises: commits with their log entries, and RQ told once after | an abstract specification |
| `ChangeLogging` | requests, their transactions, log entries and webhooks | implements `CommitJournal` under a refinement mapping |
| `ChangeLoggingProofs` | its inductive invariants and theorems, and the refinement | extends `ChangeLogging` |
| `PeeringDBSync` | updates and flushes of the cache and the links to it | on its own |
| `PeeringDBSyncProofs` | its inductive invariant and theorems | extends `PeeringDBSync` |
| `AtomicInstall` | what a caller is promised of a configuration: one step, told by a job as it was, by the command as failed only if it was not made | an abstract specification |
| `RouterInstall` | tasks that configure one device | implements `AtomicInstall` under a refinement mapping; its tasks are jobs of the shape "router" |
| `RouterPoll` | polls of one router | on its own |
| `RouterPollProofs` | its inductive invariant and theorems | extends `RouterPoll` |
| `SessionImport` | imports of the sessions of an exchange, and users | on its own |
| `SessionImportProofs` | its inductive invariant and theorems | extends `SessionImport` |
| `BulkSelection` | the selection of rows, the page under review, its confirmation | on its own |
| `TablePreferences` | the dialog of columns and the preferences of a user | on its own |
| `SourcesProofs` | what is proved of the four parts of `MCSources` together: the refinement of `JobLifecycle`, pushes, the source, its files, objects, selections, preferences | extends `MCSources`; instantiates `JobPageProofs` (without pages) and `AutoSyncProofs` |
| `RoutersProofs` | what is proved of the two parts of `MCRouters` together: installations with the refinement of `AtomicInstall`, imports | extends `MCRouters`, which instantiates `SessionImportProofs` |
| `MC*` | symmetry and constants for TLC; `MCSources` and `MCRouters` compose parts | |

`MCSources` holds four parts (`DataSourceSync`, `AutoSync`, `BulkSelection`,
`TablePreferences`) and `MCRouters` two (`RouterInstall`, `SessionImport`). Parts of one
module have no state in common: a behaviour chooses one part at the start, and is one of that
part's specification with the others standing still.

### State and actions against the code

The "map" of `PROJECT.json` gives the lines of every definition. The ideas behind it:

* **An instance is a record; `save()` writes the record.** `copy`, `mem`, `pending`,
  `loaded` hold the Django instances processes work on; the row is a variable of its own.
  Stale instances and lost updates are thus in the model wherever they are in the code.
* **One action per stretch between two points where somebody else can act**: a save, a read
  from the database, a network exchange. What a transaction does to rows nobody else can
  see, or a run of assignments to memory, is not cut up further.
* **`pc` or `stage` names the place in the code.** `JobLifecycle`: `created` (row committed,
  task not queued), `queued`, `started`, `body`, `marked` (terminal status saved, function
  not yet returned), `caught` (in the except branch), `raised`/`handling` (in RQ's handler),
  `ended`; `dropped` when Redis refused the task, `lost` when the worker was killed.
  `DataSourceSync` follows `DataSource.synchronise()` and `push()` with one value for each
  pass over the listing.
* **Functions by their shape.** The nine job functions have four shapes of control: plain;
  router (may cancel first, may report failure without raising); sync (catches, marks
  failed, re-raises); push (both, and marks completed inside the `try`).
* **In `DataSourceSync` a job step is the action of `JobLifecycle` joined to what it does to
  the source**, so "the job is marked failed first, the source second" are two steps between
  which others act.
* **`ChangeLogging` keeps, for each request, the objects it read (`mem`), those it wrote
  (`wrote`), its webhooks (`hooks`) and unseen log rows (`changes`)**; a view is a set of
  steps it may take: `form` and `api_update` write one row and its tags in a transaction,
  `bulk_edit` several in one transaction with `clear_webhooks` on a handled error,
  `bulk_delete` several in none.
* **`CommitJournal` is reached from `ChangeLogging` by a mapping** (`JournalState`,
  `JournalPending`) of `phase` and `outcome` to how far a request has come, and of `wrote` to
  what it has committed: nothing while a transaction is open. Loading, saving, tags, locks and
  the deletions of an API request are stuttering steps; a bulk deletion commits each object.
  The journal has rows, log and RQ; it says nothing of what a save finds changed, so that a row
  may go unlogged (`DoneChangesAreLogged` says which).
* **`JobPage` has the scripts as data**: `Scripts[page]` says what a page does with a job
  that ended well, ended badly, or was cut off. Polling is read, answer, handle: other steps
  may come between the row that is read and the handler that is given it.
* **`RouterInstall` has a call as `load`, `compare`, `commit` or `discard`, `close`** with what
  its session on the device holds in `candidate`: the text that was loaded and is neither
  committed nor dropped. Jobs and the command work on the same calls and tell different things
  of them (`Report`): the command never looks at `changes` after its last call.
* **`AtomicInstall` is reached from `RouterInstall` by a mapping** of `pc` and `kind` to what was
  asked (compare, install, deploy), `committed` to what was installed, `late` to the commits
  that raised, and `outcome` to what was told. Sessions, candidates, the comparison and the
  second call of the command are stuttering steps.
* **`Publish` has four ends**: nothing to commit, accepted, an exception (the step of the except
  branch), and refused without one. `push()` looks for two phrases in what the server wrote;
  a refusal in other words passes for a push, and `unnoticed` has who was told so.
* **`RouterPoll` writes whole routers from the instances polls hold.** Sessions whose rows do not
  validate (`refused`) are passed over by the poll of all and saved by the poll of one.
* **`SessionImport` models transactions at READ COMMITTED**: own rows and committed ones are
  seen, a unique key taken by an open transaction is waited for, a cycle of waiting aborts
  one of those in it, foreign keys are looked at by the commit.
* **`BulkSelection` has the lazy queries**: `queries` are those a page has still to make when
  it is rendered, so that objects may come and go between two of them.
* **`TablePreferences` has a request as read, change, answer**, on the instance of the user
  it loaded first; `Among`, `MoveTo`, `Shift` and `ShiftAll` move the options one position at a
  time, as forms.js does.
* **`PeeringDBSync` processes one namespace's answer in one action**, as the code does in one
  transaction. Refused are the ports without their network and any other objects that do not
  validate; those PeeringDB still has as they were answered go to `skipped`. Unlinking and
  linking again are two actions each, as the statements for exchanges and hidden peers are.
* **History variables** (marked "(history)" where they are declared: `seen`, `unnoticed`,
  `theirs`, `slips`, `held`, `typed`, `raced`, `untold`, `alone`, `torn`, `skipped`, `checked`,
  `matched`, `committed`, `late`, `undiscarded`, `wanted`, `behind`, `lost`, `due`, `asked`, and
  `refused` of `BulkSelection`) record what happened for the properties; no action is guarded by
  them.

## 3. Runs

| Run | Instance | Shows |
| --- | --- | --- |
| `jobs` | 2 jobs, 2 workers, all shapes; the pages "synchronise", "render" and "deploy", or none; 1 answer cut off | the inductive invariant of jobs (in it: ended jobs are over, no job is shared, the worker's copy is the row unless that was deleted); statuses only escalate; Working stands for a job followed; pages stop at the end; buttons settle (fair) |
| `sources`: source | 2 jobs on 2 workers, 2 paths (one ignored, and pushed to), 2 contents, 1 foreign commit | after the three passes of a job, every file that nobody else changed meanwhile is that of the commit fetched; a push that reports success is in the repository or was refused in words the backend does not know |
| `sources`: auto | 2 objects, 2 files, 2 texts, 2 synchronisations, 3 requests | no dangling link; text belongs to its file; automatic objects are fresh and recorded |
| `sources`: bulk | 3 rows (one protected), pages of 2, 2 changes by others | unchecked rows are left alone; picked objects are reviewed |
| `sources`: table | 2 tabs, 4 columns (2 shown at first), 2 requests, 2 clicks | blocks move together; preferences are as asked; saved columns are shown |
| `source_overlap` | a job and the command, 1 path, 1 commit, 1 edit, 1 fault | the source is never left working with nobody there; queued jobs and a queued source settle (fair); the job follows `JobLifecycle` |
| `changes` | 2 requests through all views, 2 objects, 1 lost flush | commits are told once, truly, and logged; handled aborts are silent; rows, log and RQ follow `CommitJournal` |
| `peeringdb` | 1 network, 2 ports, 1 connection, 2 runs that may overlap, 1 flush, failed lookup or answer with objects that do not validate, 1 edit | rows and links exist; an undisturbed run is complete; links come back |
| `routers`: install | 2 tasks of any kind (`--no-commit-check` among them), 2 texts, 2 edits, 1 trouble | true reports, no candidate left in a closed session, compared before committed, and all that `AtomicInstall` says |
| `routers`: import | 2 imports, 2 connections, 2 neighbours listed in either order (and one elsewhere), 1 edit, 1 trouble | connections passed are whole; systems come with a session; imports end (fair) |
| `polls` | 2 polls of all, 1 of one session that may not validate, 2 states and a wordy one; 1 change, 2 edits, 1 trouble, 2 of these together | users' changes outlive the polls that are not behind them; recorded states converge and words are replaced (fair) |
| `manual_object` | 1 object, 2 files | violation: a manual object is saved by the receiver |
| `aborted_bulk` | 1 request, API bulk update | violation: webhooks of rolled back changes |
| `peeringdb_skipped` | 2 networks, 2 ports, 1 run at a time | violation: a refused object is not fetched again |
| `cancelled_commit` | 1 page, 2 jobs, 1 worker | violation: a page announces a configuration that was never made |
| `unreviewed` | 3 objects, pages of 1, 1 change by others | violation: an object nobody reviewed is deleted |

**Bounds.** Every hazard listed needs at most two concurrent actors on one object and one
disturbance (an edit, a commit, a fault) between two of their steps; the instances have that and,
where an order matters, one more (two objects for "some but not all", two paths for ignored and
not, two files for "moved from one to the other"). Bounds appear in the guards and are named
`Max...`. `routers` has one trouble, so that a call meets one exception; that `discard_config()`
raises in the handler as well is free. `polls` allows two disturbances at a time and starts with
a device whose sessions are not in the state it has words for, which a change may bring about
(`PollsInit`): an edit undone by a poll takes one of them, a second edit during it both. In
`peeringdb` an answer with objects that do not validate for reasons of their own is the trouble
of the instance. Actors are not restarted in `RouterInstall` and `DataSourceSync`: a second job
stands for the next run of the same thing. `jobs` opens three of the seven kinds of pages, whose
scripts differ in what they do with a failure and with an answer that is lost, and lets one
worker run functions while a page is open. Symmetry is over sets whose members no definition
tells apart, and in a run with a liveness property (`routers`) only over the constants of a part
that property does not speak of: the imports' own are not permuted. Deadlock is not checked: in
every module, requests, jobs and disturbances are finite in number and everybody may be done.

**Fairness.** `JobLifecycle` and `DataSourceSync`: a request that has started goes on; a worker
takes the next task and goes on with the one it holds; a command goes on. That is what running
processes do; progress messages do not count as progress, and killed workers and commands are not
obliged to anything. `RouterPoll`: polls are asked for again and again (an assumption about the
installation: the command `poll_bgp_sessions` is there to be run regularly, but no code schedules
it), polls go on, cache entries expire (15 minutes after they were set); this is `Fairness`,
which the run takes in `PollsSpec`. `JobPage`: an open page goes on (its timer fires, its request
is answered or cut off, its handler is called), and so do jobs and workers. `SessionImport`: an
import goes on when it does not wait for a row; the database finds a deadlock and aborts
somebody. Nothing is assumed of users, devices, repositories or PeeringDB. All fairness is weak,
and on the actions one process takes next.

**Excepted by the properties.** A source may stay "working" after a killed process, a
lost task, an exception outside the `try` blocks, or an edit made from an outdated form
(`slips`); a job may stay RUNNING when its worker was killed. The models take these steps,
the code repairs none of them, and no documentation says that it does.

## 4. Proofs

Eight modules hold theorems. Those about a composition (`SourcesProofs`, `RoutersProofs`)
first show that each of its behaviours is one of the part they speak of
(`SourcesAreSynchronised`, `ObjectsFollowAutoSync`, `RoutersAreInstalled`,
`ImportsFollowSessionImport`), and then carry the part's theorems over, so that the properties
proved are the very definitions the runs check. A specification that is only instantiated has
its assumption as an operator and a premise; the module that composes assumes it of the
constants it instantiates with (`PartsAssumption`, `ImportConstants`).

### Jobs and pages: `JobPageProofs`
The properties of `JobLifecycle` are not inductive: that a worker's copy agrees with the row
depends on nobody else holding the job, which depends on the queue having no task twice and
none that is held. `IInv` is the conjunction of `TypeOK`; `RowInv`, what each stage says of row
and copy; `QueueInv`, every queued task is at stage "queued" and in the queue once; `HoldInv`, a
worker's job is at a stage in which it is held, and by one worker. Each action is shown to
preserve each part, and `StatusOnlyEscalates` follows action by action from `RowInv`. The run
`jobs` checks `IInv` as an invariant too. Theorems: `TypeCorrect`, `Invariance`,
`EndedJobsAreOver`, `JobsAreNotShared`, `StatusEscalates`.

A step of a page is a step of `JobLifecycle` or leaves the jobs alone
(`PagesFollowTheLifecycle`), so that `IInv` holds of the jobs pages ask for. What a page has
been given is then related to the row through the worker's copy (`PageInv`): a row that was
deleted and comes back is that copy, which only moves on; hence `PagesStopAtTheEnd`.
`WorkingButtonsFollowAJob` needs, besides, that a page follows only jobs that were asked for
(`ButtonInv`): a job just asked for was followed by nobody, so that following it takes the reason
away from no other button. Assumptions: `IdleAssumption` (`Idle` is no job), `PagesAssumption`.

### Data sources, and what follows them: `SourcesProofs`
`LifecycleIsFollowed`: every step of `DataSourceSync` is a step of `JobLifecycle` or leaves the
job variables alone; the refinement mapping is the identity on those variables.
`SourceJobsAreSafe` carries the invariant of the jobs over. The inductive invariant of the rest
(`SourceInvariance`) has four parts:

* `PushInv`: whoever is past the publication has its text among what the repository ever held,
  or its refusal went unnoticed (`Published`, `ReportInv`); what the repository held only grows and
  has what anybody cloned (`RepositoryInv`), and a job that reports a push got there by one: not
  from the except branch, and not without publishing. Hence `CompletedPushesArePublished`.
* `SourceTypes`: source, instances and form are values of a source.
* `SettledInv`: as long as nothing slipped, an unsettled source has somebody at one of the places
  of `synchronise()` and `push()` from which every way out saves a status (`Unfinished`). Who
  that is may change, which is why the statement is about *some* actor: an actor that finishes
  saves a settled status itself, and one that saves an unsettled one stays. Hence
  `QuietIsSettled`.
* `FilesInv`: files and listings are rows or none, and the key of a new row is one no row had.
  That there is such a key (`FreshType`) is the reason for assuming that jobs and commands are
  finite in number. With it, `SourceTypeCorrect`.

Files: `MirrorInv` says, for each actor and at each of the three passes, which paths are those of
its clone by then and which are as listed, except for the paths others have changed since it
listed them (`theirs`). Nothing more has to be known of the others than that each of their steps
that changes a row puts its path there (`Mirroring`, `TheirTypes`), so that
`OtherFilesAreMirrored` has no premise: it holds for any jobs, workers, commands, pushes, edits
and kills. What is left of the stronger statement is a corollary: for a `LoneWorker` (one worker,
no command, no edit of source or files) nothing is in `theirs`, and all files are those of the
clone (`FilesAreMirrored`; without these conditions it is false: a push that overlaps writes its
own text after the passes). That one worker is at one job's function at a time comes from the
lifecycle (`HolderInv`, with the jobs' own invariant): a killed worker's job is no longer at any
place of the function (`LoneInv`). `HolderInv` and the property were checked by TLC before they
were proved.

Objects: a text nobody typed was in the very file of its object, which the invariant of
`AutoSyncProofs` (`Invariance`; in it `TextInv`, which speaks of stale instances and pending
requests as well, `QuietInv`, what the receiver has done for every object before its place,
and `ActorsInv`, it is between row and record only of an object it has to visit) shows on its
own and `TextIsTheFiles`, `AutomaticIsFresh`, `AutomaticIsRecorded` show of the composition.

Selections (`ListInv`): the checkboxes never contradict what the user unchecked
(`UncheckedInv`), and a row that is gone never comes back, so one that was read for the hidden
fields and still exists was there when the table was read before (`ReviewInv`). Theorems:
`UncheckedIsLeftAlone`, `PickedIsReviewed`.

Preferences (`PreferencesInv`): until a request saves while another works, each works on what is
stored; whoever saves then saves what it read with the one change asked for. Theorem:
`PreferencesFollow`. The buttons of the dialog are loops over positions, written as recursive
functions, and what they do to a list of any length is the work of a section of lemmas about
sequences. Induction over data is out of reach in its usual form (the library's theorems take an
operator as parameter), but the least counterexample is not: `NatLessThanWellFounded` and `WFMin`
give one, and each lemma refutes it (`Upward`, `Iterates`). `AmongUnfolds`, `MoveToPlaces` and
`ShiftAllUnfolds` say what one step of a loop leaves in place. From them, a button loses and
doubles no option (`ShiftAllPermutes`), and a block of selected options moves as a whole by one
place, and down again is where it was (`UpShape`, `DownShape`, `BlocksAreMoved`). `TableInv` says
that the dialog has every column once and that preferences, stored, asked for or in a pending
request, are such as can be stored; with `PreferencesInv` it yields `SavedIsShown`. With it all
four parts of `TypesOK` are theorems (`TypesCorrect`).

Assumptions: `ModelAssumption`, `PartsAssumption`.

### Change log and webhooks: `ChangeLoggingProofs`
Rows and locks are shared, all the rest belongs to one request, so the invariant is one
conjunct for each request (`RequestInv`) and `OthersKeep` deals with the others' steps once. That
there is one webhook for each object follows from those still to be saved having none and from
the last webhook being that of the object whose tags come next (`AtInv`); until those are
written, that object is excepted from what webhooks and log entries say (`ToldInv`,
`LoggedInv`). Theorems: `TypeCorrect`, `WebhooksAreUnique`, `ChangesAreTold`,
`ChangesAreLogged`, `AbortsAreKeptSilent`. Assumption: `ViewsAssumption`.

`ImplementsJournal` shows that the mapped variables follow `CommitJournal`. A second inductive
invariant (`JournalInv`) says what makes a commit one step: a transaction holds the locks of what
it wrote, so that nobody's commit can come between (`HoldInv`); what is still to be saved is not
written, and what was rolled back is not either (`WroteInv`); its log entries are of the rows it
wrote, one for each (`EntryInv`), unseen until the commit (`LogInv`), and say what its webhooks
say (`SameInv`); RQ has nothing of a request that is not over (`RqInv`). TLC checked it on the
instance of the run before it was proved. Saves, tags and deletions in a transaction are then
stutters (`WritesAreQuiet`), a commit and a deletion outside of transactions are one kind of step
(`CommitsRows`), and so are the two ways a flush ends (`HooksInJournal`). `JournalAgrees` is
proved of `CommitJournal` alone and carried over: log and webhooks never disagree of an object
of a request, whatever became of the request.

### The PeeringDB cache: `PeeringDBSyncProofs`
An update asks for what is no older than the newest row it has. That this loses nothing needs an
invariant about that time (`FreshInv`): an object that is neither cached as it is nor was refused
changed no earlier than *any* row of its namespace; the same of the rows a run holds an answer
for and has not written (`AnswerInv`), where an answer is what an object was at some time
(`AnswerOf`). Both hold until runs and flushes meet, which `torn` records (`ApartInv`). What a
run has achieved is stated only while it is alone (`AloneInv`, `LinkInv`), because every other
step ends that; `LinkInv` follows it through connections, exchange (`ExchangeLinked`) and hidden
peer (`HiddenPeerLinked`), in the order in which it links them. Referential integrity is part of
the types: a cached port has a cached network and a link leads to a cached row (`CacheInv`,
`LinksInv`), which needs to know that a live port's network lives in PeeringDB (`RemoteInv`).
Theorems: `PeeringDBInvariant`, `PeeringDBTypes`, `UpdatesLoseNoChange`, `UpdatesLinkAgain`.
Assumption: `PeeringDBAssumption`. The invariant was checked by TLC on the instance of the run
before it was proved.

### Routers: `RoutersProofs`, `SessionImportProofs`, `RouterPollProofs`
Installations: `IInv` says, for each place a task may be at, what its flags tell of the device:
nothing has been committed before a commit (`BeforeInv`), a task about to commit has compared its
text and was asked to commit (`DecideInv`), after a call `changes` of a committing call stands
for the commit unless the commit itself raised, and no changes without an exception mean that the
device was found running the text (`AfterInv`), a call has a usable router and a text (`CallInv`,
without which `running` could lose its type), the kind of a task says which calls commit
(`KindInv`, without which the command's success could be that of a dry call), and a session holds
a text only inside the call (`SessionInv`). A step of a task preserves its own part
(`ActorKeeps`) and leaves the others' alone (`OthersKeep`). `ImplementsAtomicInstall` shows that
the mapped variables follow `AtomicInstall`: initial states map to initial states, and under
`IInv` and `MapInv` (who commits was asked to, who raised in a commit has no changes to report
and reports next) each step maps to one of its steps or to a stutter; it is the commit that
installs, what others do to the device is `Elsewhere`, and telling is the end of the outer
function. Theorems: `InstallInvariant`, `TypeCorrect`, `ReportsTrue`, `ComparedFirst`,
`CandidatesDiscarded`, `ImplementsAtomicInstall`. Assumptions: `TextsAssumption` (`None` is no
text), `BoundsAssumption`.

Imports (`SessionImportProofs`): rows an import has not committed are in nobody else's
transaction (`Apart`) and not in the tables (`OwnRows`), because who would insert them waits; an
autonomous system it holds is that of a session it holds, or of the one it is about to create
(`OwnASes`); a session that should be there when it is past a connection is there, is held, or is
of a neighbour still to come (`OwnDue`). Waiting is a guard and being aborted in a deadlock
releases what one holds, so that nothing has to be said about who waits for whom. Theorems:
`Invariance`, `TypeCorrect`, `PassedIsImported`, `NewASesAreUsed`, and the last three again of the
composition in `RoutersProofs` (`ImportTypes`, ...). Assumption: `ImportAssumption`, as a premise.

Polls: that a router is as the last user left it until a poll that was behind has been recorded
(`EditsOutlivePolls`) is inductive together with the same of the instances: a poll under way that
is not behind holds a router with the last user's choices (`CopyInv`), since it was asked for
after them or after another such poll. Recording such an instance changes none of the choices,
and an edit puts every poll under way behind. That types are kept needs to know that a poll of
one session has a session (`TargetInv`). Theorems: `TypeCorrect`, `EditsLast`.
Assumption: `StatesAssumption`.

Five type invariants are proved and checked by no run under that name (`TypeOK` of `JobLifecycle`,
which is part of its `IInv`, of `DataSourceSync`, `AutoSync` and `TablePreferences`, which are
parts of `TypesOK`, and of `RouterPoll`), as are `EndedIsOver` and `OneWorkerPerJob`, parts of what
`IInv` of the jobs says, `OneWebhookPerObject`, part of `HookInv`, and `FilesMirrorTheClone`, which
needs the premise `LoneWorker`.

### Only model-checked
* Liveness (`QueuedJobsSettle`, `QueuedSourceSettles`, `ButtonSettles`, `PolledStatesConverge`,
  `WordsAreReplaced`, `ImportsEnd`): fairness and ENABLED are beyond the proof system. Every
  invariant, every action property and every refinement the passing runs check is proved.

## 5. Findings

Five statements of the code, its comments or its pages that the code does not keep, each with
a run:

1. **A manual object is synchronised** (`manual_object`). `SynchronisedDataMixin.save()` looks
   for the record to delete under the file the object has *now*. A form that changes the file
   and switches automatic synchronisation off leaves the old record, and each synchronisation
   then saves the object. One user and one request are enough.
2. **Rolled back changes are told** (`aborted_bulk`). `change_logging()` flushes the queue
   whatever became of the transaction; form views send `clear_webhooks`, the API's do not.
3. **A refused PeeringDB object is lost** (`peeringdb_skipped`). What `full_clean()` refuses, for
   want of its parent or for another reason, is only logged, and the next update starts at the
   latest `updated` among those saved.
4. **A configuration that was never made is announced** (`cancelled_commit`).
   `set_napalm_configuration()` (`devices/jobs.py:57`) marks a task it declines as completed,
   and the page says "Configuration saved" (`templates/devices/router/configuration.html:111`).
   The router only has to be disabled between the check of the changes and the commit.
5. **What nobody reviewed is deleted** (`unreviewed`). With all pages selected, the table of the
   review page and its hidden fields come from two queries (`bulk_views.py:241`); what others
   create between them is deleted by the confirmation.

### Behaviours the models have that are worth knowing
No run disputes them; but for the second, no document promises otherwise.

* A push that the host refuses without an exception is noticed by two phrases in what it wrote,
  one of GitHub and one of GitLab (`core/constants.py:33`). Refused in other words, it completes
  its job: "that's the best we can do" (`core/data_backends.py:212`).
* `configure_routers --no-commit-check` compares like any other call and commits only what
  changes the device; its help (`configure_routers.py:16`) and `docs/integrations/napalm.md:60`
  say that it does not check. The flag only saves the call that comes before the commit, and
  `CheckedBeforeCommitted` holds with it.
* `configure_routers` prints success whenever there was no error with a text: also when the
  device ran the configuration already, and when a call raised an exception without a message.
* When `discard_config()` raises in the handler of `set_napalm_configuration()`, the exception is
  swallowed and the session is closed with the candidate in it.

* `enabled` and `last_synchronised` of a data source are written back from old instances, and
  all fields of a router by a poll that loaded it before the network exchange
  (`devices/models.py:936`): a router disabled meanwhile is enabled again.
* A push that is refused leaves its text in the `DataFile`.
* `tags.clear()` sends a signal that nobody follows: the webhook keeps the tags. An API update
  that does not mention tags snapshots the object without them.
* A bulk deletion is no transaction: objects before the protected one are gone.
* A PeeringDB object that is deleted and not cached is created and deleted by the next update.
* A flush that overlaps an update may delete rows it has just written.
* A commit that raises after the device applied it is reported as "no changes" with an error;
  an exception without text is reported as no error at all.
* A template that fails to render yields its error message, which is then a configuration.
* A poll of one session records the device's words, the poll of all sessions a state.
* A button pressed twice before the first answer makes two jobs, both followed by the page.
  Pages whose `pollJob()` has no handler for failures say Working for ever when one poll fails.
  Closing the dialog of the configuration page resets it while its job goes on.
* Two imports of one exchange at the same time end with one of them errored if they meet new
  neighbours in different orders. The log counts systems as created that were there.
* A bulk edit or deletion of picked objects one of which is gone can be confirmed as often as
  one likes: the form comes back. The buttons of `#select_all_box` stay enabled when it is
  unchecked by a script.
* "Move up" of options already at the top, and "move down" of those near the end, change the
  order among the options moved.
* Two tabs that save preferences at the same time lose one of the changes. A list whose URL has
  `?sort=` saves that order whenever it is loaded, also after another one was saved elsewhere.
* `UserPreferences.delete()` of a path whose category is missing removes the last key of that
  name from an outer level (`users/models.py`).
* `get_napalm_bgp_neighbors()` says it returns an empty list on failure; an exception of the
  device's own method ends the import (`peering/models/__init__.py:935`).

## 6. Not modelled

* `Job.data`: the log; RQ's own maintenance of abandoned tasks (external).
* The local backend of data sources, whose directory is live while it is read.
  Changes of ignore rules: they are constant.
* More than one open edit form of a source; timestamps in `AutoSync`.
* Eleven of the thirteen PeeringDB namespaces: they are handled by the same code and differ
  in their parents. The two kept are a parent and its child. `Synchronisation` rows.
* That PeeringDB answers with objects updated at or after `since`, and with deleted ones
  unless `since` is 0, is taken from how the code asks.
* A rendered text is taken to be all of a configuration, so that merging is replacing.
* In `RouterPoll`, prefix counts and every field of a session but its state.
* Imports and scripts in `ChangeLogging`; they save through the same receivers.
* The order of an import's autonomous systems is that of the device's list; addresses outside
  the prefixes of a connection are the one way a neighbour is skipped. Policies and passwords.
* In the pages, wording, colours and widgets that only fill a field (pickers, slugs, tags).
  The reload of a page that follows a synchronisation closes it.
* The arguments of the NAPALM driver (`devices/models.py:427`): the dictionary of the settings
  is shared by all routers a process opens. Which arguments a driver then ignores is not in
  this code, so that no property could say what goes wrong.
* The libraries under `project-static/` (Bootstrap, Font Awesome, jQuery, Select2), which are
  third-party code and the larger part of the JavaScript in the repository.
* Forms, filters, templates otherwise: no state.

## 7. Plan

Done, in this order: `JobLifecycle` with its proofs; `DataSourceSync`, which implements it;
`AutoSync`; `ChangeLogging`; `PeeringDBSync`; `RouterInstall`; `RouterPoll`; then `JobPage`,
`AtomicInstall` with the proof that `RouterInstall` implements it, `SessionImport`,
`BulkSelection`, `TablePreferences`; then the proofs of `RouterPoll`, `AutoSync`, `ChangeLogging`,
`BulkSelection`, `JobPage` and of pushes; then those of `PeeringDBSync`, `SessionImport`,
preferences, buttons, of the source and its files, and of the two compositions; then those of the
dialog of columns, of files with any number of actors, and `CommitJournal` with the proof that
`ChangeLogging` implements it.

What is left:
1. Webhook delivery: `process_webhook` and conditions as pure functions checked against a
   reference definition (`ConditionSet` accepts upper-case operators when it is validated and
   looks them up in lower case when it is evaluated; comparisons with a missing value raise).
2. IX-API access tokens: expiry, refresh and concurrent renewal.
3. Pure functions: `merge_hash`, merged policies and communities.
4. Proofs: that routers' tasks are jobs of the shape "router", as a refinement.
