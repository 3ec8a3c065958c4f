# Ordine in TLA+

Ordine runs local task pipelines: a trigger finds files or manifest rows and admits them as
tasks into a SQLite ledger; one worker per pipeline takes them oldest first through the steps
of a playbook, with retries, recovery branches and flags for a human when those are exhausted;
web pages and a command line start and stop pipelines, retry and cancel tasks, edit playbooks
and test them. This directory holds a model of that program in TLA+, the TLC configurations
that check it on small instances, and proofs, checked by TLAPS, of what holds for every instance.

Source paths below are relative to the repository; `core/`, `web/` and so on are under
`src/ordine/`.

## 1. Inventory

| Component | State it keeps | Operations | What makes it correct | Hard because |
|---|---|---|---|---|
| Ledger (`core/ledger.py`, `models.py`, `naming.py`) | `tasks`, `branch_attempts`, `name_reservations`, `flags`, `playbook_versions` | `create_task`, `create_task_arrival`, `create_manifest_task`, `claim_next`, `transition`, `reconcile`, `reserve_name`, `raise_flag`, `resolve_flag`, attempts, `register_pipeline` | at-most-once admission, single claim, legal transitions, first name wins, arrival order | half the operations are one transaction, the other half read outside it and write later; the unit of work writes only changed columns |
| Runner (`core/runner.py`, `engines.py`) | per task: step, group, attempt number, last result | `run_task`, `_run_with_policy`, `execute_step_sequence` | done is earned, ladder climbed in order, end states flagged, worker never dies | exceptions in exception handlers, users changing the task under way, crash and replay |
| Service (`PipelineService` in `core/runner.py`, `web/services.py`) | `_started`, `_stop_failed`, worker thread, trigger; per pipeline status and `action_pending` | `start`, `stop`, `pause` | at most one worker per pipeline, status tells the truth | locks released between decision and action; join with a timeout |
| Triggers (`core/triggers.py`, `manifest.py`) | settle dictionary, last good mtime, cached rows | observer events, poll, startup scan, stop | no settled file is lost, no half-written file is admitted, no edit is missed | two threads, a crashing poller, files that change while they are looked at |
| Retention (`core/retention.py`) | none; work directories on disk | `cleanup_workdirs` | never removes the directory of a running task | lists, then deletes |
| Playbook, registry (`core/playbook.py`, `registry.py`) | none | load, normalise, validate, dump | what the runner assumes is validated; what is dumped loads as it was | three notations for a step, defaults left out |
| Lab (`core/dryrun.py`, `web/routes/lab.py`) | sessions in memory, sandboxes on disk | create, next, retry, branches, run to end, resume, close; command `dry-run` | a dry run does what the run would; its page shows what was made | a loop of its own beside the runner's, directories used again, resume under another version |
| Versions, editor (`web/routes/editor.py`, `forms.py`, `diffing.py`) | version tree, current version; pages in browsers | open, validate, change tab, save, make current, revert, compare | no version is lost, none is silently based on an old one, nothing changes on the way through form and text | pages outlive what they show; check and save in separate transactions |
| AI features (`llm/`) | suggestions in memory, call log, budgets | diagnose, suggest a branch, draft, steps | a suggestion is valid and approved before use | the version moves on while a suggestion waits |
| Executors (`executors/`) | destination directory | `file.move`, `image.export`, `shell.run` | exports publish atomically and never overwrite | collisions, crash between two steps of a publication |
| Process (`core/db.py`, `migrations.py`, `instance_lock.py`, `heartbeat.py`) | schema version, lock file, heartbeat file | acquire, migrate, beat | one writer; the heartbeat says what runs | two threads write one file |
| Web pages, CLI, configuration | none of their own | requests and commands | they call the ledger's operations in the right states | they run beside the worker |

Components meet in the ledger: triggers write tasks, the worker reads and writes them, users
write them from other threads and processes. In memory they meet in `PipelineService` (one
stop event, one worker thread, one trigger) and `ServiceManager` (a dictionary of services
under a lock).

## 2. Modules

| Module | What it is | Code |
|---|---|---|
| `AdmissionQueue` | abstract specification: what any number of threads and processes may rely on | what `core/ledger.py` promises (`docs/ledger.md`, invariants 1, 2 and 4) |
| `TaskLifecycle` | abstract specification: the life of a task as the documentation draws it | `VALID_TRANSITIONS`, `docs/ledger.md` (State machine) |
| `Ledger` | the tables and every operation on tasks, reservations and flags, with the atomicity of each, under the most general client | `core/ledger.py` |
| `Runner` | workers, users, a trigger, crashes and time around `Ledger`; branch attempts | `core/runner.py`, routes and commands that change a task |
| `Service` | one pipeline's services in the serve process: start, pause, join timeouts, orphans, heartbeat | `web/services.py`, `PipelineService` in `core/runner.py`, `core/heartbeat.py` |
| `Intake` | the three triggers: observer, startup scan and poller of a folder watch, a manual scan, a manifest poller | `core/triggers.py`, `core/manifest.py` |
| `Files` | work directories, the publication of files, the cleanup | `core/workdir.py`, `file.move`, `image.export`, `core/retention.py` |
| `Playbooks` | operators: a playbook's text to the model and back, its validation, the graft of a branch | `core/playbook.py`, `core/registry.py`, `llm/features/branches.py` |
| `Forms` | operators: the form's fields from a playbook and back, the row buttons | `web/forms.py` |
| `Diffing` | operators: change summary, side-by-side table, version tree | `web/diffing.py`, `web/routes/editor.py` |
| `Editing` | versions and everything that writes them: pages, registration, suggestions, commands | `web/routes/editor.py`, `tasks.py`, `__init__.py`, `cli/main.py` |
| `Lab` | rehearsals, their store and the command `dry-run` | `core/dryrun.py`, `web/routes/lab.py` |
| `MC...` | instances for TLC: symmetry, playbooks, documents | |
| `LedgerProofs`, `RunnerProofs`, `LadderProofs`, `ServiceProofs`, `FilesProofs`, `IntakeProofs`, `LabProofs`, `EditingProofs` | theorems and proofs | |

`Runner` is composed with `Ledger` by `EXTENDS`: its actions are `Ledger`'s with a program
counter. `Editing` is composed of `Playbooks`, `Forms` and `Diffing`.
The others stand beside each other, because what they share is one call: `Intake` admits by
`create_task`, whose races are `Ledger`'s; a publishing step of `Files` is one `Execute` of
`Runner`; `Lab` compares itself with the runner's loop in `RunsLikeTheRunner`.

### Ledger

`task[t]` is the row with primary key `t`; `"absent"` is a row not inserted. Two kinds of
operation are told apart, because the code tells them apart:

* `claim_next`, `create_task`, `create_task_arrival`, `create_manifest_task` run under
  `BEGIN IMMEDIATE` or are one INSERT: one action each.
* `transition`, `reconcile` and `reserve_name` use a plain session. pysqlite opens no
  transaction for a SELECT, so what they read may be old when they write: `BeginTransition`,
  `BeginReconcile`, `BeginReserve` and then `Commit` or `CommitReserve`, with anything in
  between. `session[c]` and `binding[c]` hold what client `c` has decided on. `Abort` is the
  client's death or an exception that rolls back. `Written` says which columns the UPDATE
  names: SQLAlchemy writes only those that differ from the loaded row, and adds `updated_at`.

`set_workdir`, `clear_workdir` and `set_current_branch` write a column that no operation of the
ledger decides on, and `updated_at`: they are `Touch`. `raise_flag` and `resolve_flag` read nothing
that their write depends on. The dedup key of a NULL is `NoKey`, which the unique index does not
compare. `Next` lets every client call everything at any time, in every order: the worker thread and
the web routes of one process, or several commands.

`QueueSpec` says that all of them together implement `AdmissionQueue`, with the refinement mapping
in `Ledger`: rows to admissions, pending rows to the queue, the attempts column to claims,
reservations to names. A commit that comes late may move a task in or out of the queue, and no more:
it never takes back an admission, a claim or a name. That it may move a task at all against the arrows
of the state machine is what `LifecycleSpec` forbids and the run `overtaken` shows.

### Runner

`worker[w]` is a program counter and the loop variables of `run_task` and `_run_with_policy`:
the index of the step, of the policy group (1 is the primary, then the branches), the number of
the attempt, the result, the status to be set, and whether the `except` clause is running. An
action is one ledger call with the Python up to the next. The outcome of a step is free: ok,
fail, skip, or an exception of the runner itself. `Raise` is the exception: caught by
`run_task` the first time, escaping from the handler the second; `Oneshot` tells whether what
escapes ends the command (`run_until_idle`) or is logged by the service's loop. `Crash` ends the
process anywhere; SQLite rolls an open update back. `UserStep` is the web routes for retry and
cancel and `ordine retry`, which call `transition` whatever the worker is doing. `attempts`
is the table `branch_attempts`, with rows equal in every column identified; `ExhaustedBranches`
counts on it as the code does, because the level of a flag depends on what earlier runs and
other steps have left there.

### Service

`status`, `pending`, `service` and `version` are the fields of `PipelineRuntime`; `svc[s]` is the
`s`-th `PipelineService` created, with its flags, its stop event, its trigger and its thread.
`ref` (does `_worker` hold the thread) and `worker` (where the thread is) are two things: a
second stop of the same service can find the first has dropped it. `caller[c]` is where a
thread is in `start` or `pause`, and, inside them, in `PipelineService.stop`. The manager holds
its lock to decide and to record and releases it to stop, load and start; each hold is one
action, and so is each step of `stop` that another thread can tell apart: the stop event, the
end or the timeout of the join, the heartbeat, the clean end. `Outcomes` is what may come of
loading and starting; `"unstartable"` is an exception out of `PipelineRunner` or
`PipelineService.start`, which no `try` catches. A join times out whenever the worker lives,
because `run_once` takes as long as it takes.

With one caller this is `ordine serve`: `pipeline_start`, `pipeline_pause`, autostart and
shutdown all run on the event loop and block it. With two it is what the class promises
("Thread-safe manager of PipelineService instances").

### Intake

`disk[f]` is a file's content, a new one for each write; `SizeOf` gives its size, and two contents may
have the same. Dedup keys and the manifest's modification time go by the content, the settle tracker
by the size, as in the code. `still[f]` is how long the file has not changed, `had[f][z]` how long ago it first
had size `z`, both up to `Settle`; `tracker` is the settle dictionary. The observer's thread takes `events` in order and, like the thread that starts the
service, reads the size first and enters it under the lock afterwards (`noting[th]`). The
poller looks at everything under the lock (`PollOnce`) and emits after it (`EmitSettled`).
`SinkRaises` is an exception out of the sink; `lost` keeps, for the properties only, what it
took with it. The manifest's `held`, `good` and `cached` are the three places that remember a version: the rows
of the scan, the modification time noted after loading, the sink's cache. With the kind `manifest_once`
the manifest is scanned when the service starts and not again: that is `poll_seconds: 0`, where `start` makes no
poller, and the one-shot command, which calls `run`.

### Files

Each task is of a pipeline of its own, so that all may run at once, and all publish into one
directory: `dest[p]` is what is at the name (place 1) or at the name with suffix `-p`: a task's
file, somebody else's, a dangling link, nothing. A publishing step is six actions: look at the
places (`Pick`), copy beside, `Replace` or `Link`, unlink the temporary name, remove the input.
Between any two of them another task, the user, a cleanup or a crash may act. `direct` says
whether the step takes the watched file itself or the output of a step before. `copies` and `allowed`
count, for `PublishedOnce`, publications and the runs and errors that excuse one. Cleanup lists once
(`ListCandidates`) and then takes each task in turn: look, remove, clear the column.

### Playbooks, Forms, Diffing and Editing

A document is what a YAML text parses to: which keys are written and what they hold. A book is
the validated model with its defaults. `LoadBook`, `DumpBook`, `Loads` and `CheckPlaybook` are
`core/playbook.py` and `registry.check_playbook`; `PlaybookToForm` and `FormBook` translate to the form's
fields, which keep the gaps of removed rows, and back. `TidyForm` is the `strip()` of each text on the way
back and the value that takes the place of an empty one: no description, no `ordinal_regex`, the default
glob, engine and dedup. `Stripped` says which texts have space around them, and what is left of them. `tabs[t]` is a browser tab: the page as the
server rendered it plus what was typed since. `shows` and `advised` are no fields of the page; they record
for `NoLostUpdate` which version the content comes from. A handler that stores a version is two
steps, because it is two transactions: `Begin...` reads and decides, `Register` writes. Handlers of
the web server follow each other (`Web`); `run` excludes `serve` by the writer lock, and
`approve-branch` takes no lock and runs beside both.

### Lab

`sessions[s]` is the `s`-th session created, in the store (`byId`, `byPipeline`) or not; `sandboxes`
are the directories on disk. A handler has no await while it works on a session, so `call` is the one
at work; it is modelled attempt by attempt, each with a free outcome: an output, none, a skip, a failure
that has left an output or not, an exception. `resume` waits for its form between its look at the
store and its work (`asked`). A path stands for its content; `kept` says whether the output an entry shows is
still what that step made. `tried` is the list of attempts of the run at hand. A policy has its `then`, which the
runner looks at when all is used up and the lab does not.

## 3. Runs

| Run | Properties | Expected | What it shows |
|---|---|---|---|
| `ledger` (`MCLedger_clients.cfg`) | `TypeOK`, `AdmittedOnce`, `ArrivalOrder`, `GivenUpIsFlagged`, `FirstNameWins`, `QueueSpec` | pass | A worker and a web request, as two clients, admit, claim, move, recover and name tasks between each other's SELECT and UPDATE: the tables are an admission queue with each file once and in order, names stay, and what recovery gives up is flagged. |
| `runner_faults` (`MCRunner_faults.cfg`) | `FlaggedClimbedLadder`, `DoneIsEarned`, `BranchAfterExhaustion`, `WorkerComesBack` | pass | A user retries and cancels the task under way while the process crashes, recovers and replays: done and flagged are earned, branches are tried only after the group before, and the worker always comes back to its loop. |
| `runner_quiet` (`MCRunner_quiet.cfg`) | `RunsAlone`, `LevelIsRung`, `EveryTaskSettles` | pass | Two one-shot commands drain one queue and nobody interferes: no task is given to both, every admitted task reaches an end state, and flag levels are the documented rungs when steps do not share branches. |
| `service_serve` (`MCService_serve.cfg`) | `OneWorker`, `PausedIsStopped`, `RunningIsServed`, `DegradedWindsDown` | pass | Start, pause and the dashboard as ordine serve calls them, one at a time, with every outcome of loading and starting, two versions and joins that time out: one worker at most, and the status shown is the state of the service. |
| `service_threads` (`MCService_threads.cfg`) | `CleanStopDrained`, `PendingSettles` | pass | Two threads call the manager at once: a service whose stop has returned True has neither worker nor trigger, also when both stop it and the second reads a worker that is None; and as long as no start raises, the label starting or pausing goes away, whoever overwrites it and however long a worker takes. |
| `intake` (`MCIntake_settle.cfg`) | `QuietFilesAdmitted`, `SettledOnly`, `ManifestTaken` | pass | Files are written, rewritten at the same size, renamed and deleted around a folder watch that starts, crashes and is stopped, and a manifest is edited under its poller or scanned once: what is quiet is admitted, what is not has had its size for the settle time, and a manifest that stays is taken in or flagged. |
| `files` (`MCFiles_publish.cfg`) | `NothingLost`, `PublishedOnce`, `NothingOverwritten`, `CleanedWhenOver`, `WorkersFinish` | pass | Two tasks publish under one name in a directory that others use, with errors of the file system, crashes, retries and a cleanup between any two steps: no file is lost or overwritten, and only directories of tasks that are over are removed. |
| `editing` (`MCEditing_pages.cfg`) | `TreeShowsAll`, `NoLostUpdate`, `RoundTrip`, `FormKeepsBook`, `SummaryTellsAll`, `NothingHidden` | pass | A browser tab, the registration form, suggestions of the model and the commands run and approve-branch write versions of two pipelines: a save from a page replaces only the version the page was opened from, but for the cases NoLostUpdate names, histories and diffs show everything, and what is dumped, or put into the form, comes back, but for the space around it. |
| `lab` (`MCLab_rehearse.cfg`) | `PointerIsProgress`, `ArtifactsKept`, `OneRehearsal`, `RunsLikeTheRunner` | pass | Rehearsals of two samples on two versions with every lab handler, resume between its look-up and its work, and the command dry-run: the pointer is the progress, artifacts shown are kept, a pipeline has one rehearsal, and run to end makes the runner's attempts and takes its verdict, but under then: skip, where it says failed. |
| `early_restart` (`MCRunner_recovered.cfg`) | `CrashIsRecovered` | violation | A process restarted within the stale timeout finds nothing stale and never looks again: the task stays in processing. |
| `approved_branch` (`MCEditing_graft.cfg`) | `CurrentLoads` | violation | A suggested branch grafted on a step that uses the playbook's policy repeats that policy's branch names; the approved version is made current and does not load. |
| `overtaken` (`MCRunner_overtaken.cfg`) | `LifecycleSpec` | violation | A user cancels the task that the worker is about to end: both have read processing and found their move legal, and the second commit moves the task out of the end state the first has given it. |

Bounds. Two tasks are enough for oldest-first, for a second admission with the same key and for
a recovery of several rows; two ordinals let an arrival be numbered after an explicit ordinal;
two clients are enough for every race of a read and a write, as
each property is about one row or about two rows that one transaction writes. `FewEvents` of `MCLedger` keeps
the run small: claims, ticks, numbered tasks, names and reservations under way are mixed in every way, but no
behaviour holds more than three of them at once, which each of the properties needs at most; transitions,
recoveries and their late commits are not bounded by it. `MaxTime` 1 with
`StaleAfter` 0 makes a row stale after one tick; `CrashIsRecovered` needs a second tick to show
that time does pass. `MaxClaims` bounds the replays: 2 lets every crashed or retried task run
again. `MaxCrashes` 2 lets the process die in the recovery of the first crash. `Levels` holds
the rungs of the longest ladder. In `Service`, `MaxServices` 3 lets a third service follow an
orphan and its clean successor, and two versions tell the one installed from the one just
loaded; with two callers two services and one version suffice, as every race is between two
holds of the lock over one service or two.

`overtaken` needs one task, one claim and no crash.

`runner_faults` has one task and a playbook with retries and a branch, two crashes and two
claims; `runner_quiet` two tasks and two commands, each of which may take either. In `Intake`
two files let one be renamed onto another, three edits let a file change while it settles and
once more after it was taken, the third content has the size of the first so that a file can be rewritten at its size
or come back to it, `Settle` 1 is the shortest time that can be interrupted, and each
fault (a crash of the poller, an exception of the sink, a stop) happens once: one crash of the
poller is enough to end it, as `MaxCrashes` stands for the five of the code. A manifest that is
absent (version 0) and its third version do not parse, so that bad ones come before and after a good one. In
`Files` two tasks publish under one name: two moves with suffixes, or an export that must not
collide and a move that replaces. Five places are more than two tasks with a retry each, one
replay by the user and the files of others can take; two cleanups let the second meet what the
first has left. `Editing` has one tab, since a second page can only do what a command or a
suggestion does already (make another version current meanwhile), two pipelines for a playbook
renamed from one to the other, and three versions for a branch in the tree; one of the texts names version 2
as its parent in its `meta`, so that a version can name itself or a later one. One text that is
saved has space around its description and its path, and a glob that is nothing else. `Lab` has two
samples, because a resume depends on the furthest of them, two versions for the one resumed under,
and two sessions for the one replaced. One step's policy says `then: skip`, the other's `mark_failed`.

Deadlock is not checked: a system with an empty queue,
a command that has ended and a clock at its bound have nothing to do.

Fairness (`FairSpec` of `Runner`): the worker thread runs and the steps it calls return (shell
and image steps have timeouts; `WF` of `WorkerStep`), a transition that a user's request has
begun completes (`WF` of `UserStep` with an open session), and the clock moves. Nothing obliges
a user, a trigger or a crash. Weak fairness is enough, because only the worker itself disables
its own steps; `Settle` is enabled either way, as the transition or as its exception.

`FairSpec` of `Service` has `WF` of `Proceed`: a request that has begun goes on, because every
wait in it ends, a join by its timeout at the latest. The worker gets no fairness: a `run_once`
that never returns is among the behaviours.

`FairSpec` of `Intake` has `WF` of the threads and of time: the observer takes its events
(`HandleEvent`), a thread that has read a size enters it (`NotePath`), the scan at start goes on and
ends (`List`, `ScanNext`, `StartPoller`), the poller looks and emits what it has taken out
(`PollOnce`, `EmitSettled`), the manifest's poller runs (`Manifest`), and a service that is down is
started some day (`Start`). Nobody has to edit a file, and a sink may raise. `FairSpec` of `Files`
has `WF` of each task's own steps (`Work`): copying, linking and unlinking return. Cleanups, users
and crashes get none. `Editing` and `Lab` state safety only: pages are left open as long as users
like.

Violations. Three runs check what the documentation says and the code does not do; the
`findings` of `PROJECT.json` quote each. `overtaken`: a user's cancel and the worker's own last transition
have both read processing and found their move legal; whoever commits second takes the task out of the end state the
first has given it, in the supported mode of one process. `early_restart`: a process restarted within the stale
timeout finds nothing stale in its only recovery, and the task stays in processing for as long as
that process runs. `approved_branch`: a branch grafted on a step that uses the playbook's policy
brings copies of that policy's branches under their old names, and the version that is made current does
not load.

The models allow more that a reader may not expect, because the code does; no run is kept for it.
In the runner, the service and the ledger:

* A user's cancel of the task under way kills a one-shot command: the worker's own transition is
  illegal, and so is the one of its `except` clause (`core/runner.py:204`).
* The level of a flag counts every exhausted branch of the task by name, so two steps that share
  a branch count it for each other (`core/ledger.py:626`).
* A start that raises leaves its label, and with it the refusal of every later start
  (`core/runner.py:381`); `PendingSettles` says so by its exception.
* Users can requeue the task under way, which `docs/ledger.md:24-25` keeps for recovery: `VALID_TRANSITIONS` has
  the move for every caller of `transition`, so the page of the task offers the retry (`can_retry`,
  `web/views.py:26`), and the route (`web/routes/__init__.py:369`) and `ordine retry` make it. `Runner` has such users
  (`UserTargets`), and what `runner_faults` checks holds with them; `TaskLifecycle`, which is the documentation's, does
  not have the move.
* With two callers `OneWorker` is false: a pause that meets a first start
  before its service exists resets the label the start relies on (`web/services.py:191`). The
  routes of `ordine serve` do not call the manager from two threads.
* An orphan that ends leaves its heartbeat alive, and may have overwritten the one that says
  `stop_failed` (`core/runner.py:485`).
* A start that is refused because a step is unknown records the version, which the paused
  pipeline displays as "last ran" (`web/services.py:131`).

In triggers and files:

* The settle tracker compares sizes and nothing else (`core/triggers.py:415`), as `docs/triggers.md:23` says; that
  "half-written files are never ingested", three lines below, does not follow. A file that is rewritten at its size
  is safe while the observer tells of the write in time, because the event starts the wait again; if the observer is late,
  or the write began before the service did, it is handed on while it is being written. `SettledOnly` says both.
* What the sink raises over is gone until the next event or start, with what was taken out of the
  settle dictionary beside it (`core/triggers.py:427`); a poller that has crashed five times stops
  its own service and joins itself, which raises (`core/triggers.py:402`). `QuietFilesAdmitted`
  excepts both.
* An edit of the manifest between its loading and the reading of its modification time is not
  noticed (`core/triggers.py:552`); `ManifestTaken` excepts it (`Overlooked`).
* `file.move` looks for a free name for ever when a dangling link has the one it found
  (`executors/builtin/file_steps.py:140`); `WorkersFinish` excepts it.
* Cleanup goes by the rows it has listed (`core/retention.py:104`): it removes the directory of a task
  that was retried meanwhile, running or not, and then forgets the new one. With `--days 0` it may
  take the directory of a task that is over and has still to write its `task.json`; the worker's
  exception handler then finds a transition that is illegal. `CleanedWhenOver` excepts retried tasks.

In versions and the lab:

* A save goes by the playbook's name (`core/ledger.py:227`): a page on which the playbook got the name of another
  pipeline, saved while its version is still the current one of its own pipeline, replaces the current version of the other,
  which the page never showed. `NoLostUpdate` excepts it (`Renamed`).
* What another process registers between the two transactions of a save, after `save_version` has read the current
  version and before `register_pipeline` writes, is replaced unseen (`web/routes/editor.py:771`); `NoLostUpdate` excepts it.
* The form strips the texts it reads (`web/forms.py`): a description that is only space is gone, two branches whose names
  differ by space get the same name, and such a page is refused. `FormKeepsBook` says so (`Tidied`).
* `approve-branch` and the approval page put the version grafted on the old one in the place
  of whatever is current now (`llm/features/branches.py:233`); `NoLostUpdate` excepts them.
* A playbook's `meta` can name as its parent a version that does not exist yet, its own or a later
  one (`core/ledger.py:238`); such versions are below no root and missing from the history page
  (`web/routes/editor.py`, `_version_tree_rows`). `TreeShowsAll` excepts them (`Circular`).
* The diff page of a version without parent raises (`web/routes/editor.py:876`).
* Two routes of the editor take the text for the version: the tuple of `get_current_playbook` is
  unpacked in the wrong order (`web/routes/editor.py:484` and `:518`), so the page that comes back
  always says that it is not the current version.
* The lab keeps the page of a branch whose directory another step's branch of the same name has
  overwritten (`SharedLater`, excepted by `ArtifactsKept`); shows "failed" for a task whose policy
  is `then: skip` where the runner skips it (`core/dryrun.py:727`, `core/runner.py:233`), though `docs/lab.md:23` calls run to
  end "runner-equivalent" (the exception of `RunsLikeTheRunner`); leaves its sandbox on disk when there are no samples
  (`core/dryrun.py:356`); and forgets on resume that shell steps were allowed (`core/dryrun.py:811`).
  The command `dry-run` leaves the parent of its sandbox behind (`cli/main.py:784`).

Each definition marked *mistake* in the modules is the next definition with a plausible bug.
None is used; put in the place of the real one it makes the property it names fail in the
run that checks it, which shows that the property can fail and what it guards.

## 4. Proofs

`LedgerProofs` proves of `Spec`, for all sets of tasks, keys, ordinals, names, clients and
levels: `TypeOK`, `AdmittedOnce`, `ManifestTaskNamed`, `ArrivalOrder`, `GivenUpIsFlagged`,
`FirstNameWins`, `ClaimsAreCounted`. The invariant behind them (`Sound`) adds to the
properties what they need to be inductive: ids are used in order (`ArrivalOrder` compares a new
row with all rows before it), an absent row is blank, and an open update that will write
"stale processing" will write its flag too.

`ImplementsQueue` proves for any number of clients that the tables implement `AdmissionQueue`: initial states map to
initial states, an admission to `Admit`, a claim to `Claim`, a name to `Bind`, and every commit to a `Move` or a
stutter, whatever was decided on before it. That the ids of the rows are in order, and no absent row has a key or a number,
is what the mapping needs of `Sound`.

`RunnerProofs` proves for every playbook that satisfies `PlaybookAssumption`, any number of
workers, users and crashes: `RunnerTypeOK`, `DoneIsEarned`,
`FlaggedClimbedLadder`, `FailedIsFlagged`. The last three rest on the invariant `Evidenced`:
the status of each row, the target of each open update and the place of each worker have their
evidence in `attempts` and `flags`, and evidence is never taken away (`Monotone`). That the
update of a user or of recovery needs no evidence, or brings it, is `DecidedStep`.

`ServiceProofs` proves of `Service`, for any number of callers, services and versions,
`TypeOK` and `CleanStopDrained`: a caller past the join has seen that the thread is gone, and a
stopped thread does not come back. With `OneCaller` it proves `OneWorker`, `PausedIsStopped`
and `RunningIsServed` from one invariant: `Tidy` says that every live worker
belongs to the service in the runtime or to the one the caller holds, `Reached` what is known
of runtime and service at each place of the caller. `DegradedWindsDown` rests on a second one
(`Winding`): a stop that fails has wound its service down before it says so, and what is wound
down stays so.

`LadderProofs` proves of `Runner`, for every playbook, `BranchAfterExhaustion`: an attempt that has
failed stays in the table and is evidence (`UsedUp`), and `Laddered` says that each row of a branch, and
each worker on the ladder, has the evidence of all groups below. Crashes, replays and interference of
users do not matter. `LevelIsRung` needs two assumptions. One is `Undisturbed`: no user acts, and recovery
finds nothing stale or gives up what it finds; under it, with any number of workers and crashes, no open
update puts a task back and no two workers hold one (`Alone`). The other is `LaddersApart`: no two groups of the playbook are of the same name, so
that an exhausted branch is counted for the step it belongs to (the exception is listed in section 3).
Then the finished attempts of a task are those of one run (`FirstRun`): at steps passed, or at rungs the
worker has reached and failed at (`Below`). So the branches counted as exhausted are in bijection with
those rungs, and the level of a flag is the rung it is raised at. `runner_quiet` satisfies both assumptions.

`FilesProofs` proves of `Files`, for any number of tasks, jobs, faults, crashes and cleanups: `TypeOK`,
`NothingOverwritten` (whoever puts a file over another has a job whose mode says so),
`CleanedWhenOver`, `PublishedOnce` and `NothingLost`. `CleanedWhenOver` rests on `AtWork` and
`ListedIsOver`: a task that is in the worker's hands is in processing, and a listed task that nobody has
retried is over. `PublishedOnce` rests on `CopiesCounted`: as long as an attempt has still to publish,
there are fewer copies than were allowed, and behind its publication there is one. `NothingLost` adds that
a worker is about to remove a source only once the copy is in its place (`InputSafe`).

`IntakeProofs` proves `SettledOnly` for all files, sizes of contents, settling times and orders of edits and
threads. Two parts of the invariant carry it. `Known`: a size that a thread has read, the tracker has or the file
has now is one the file has had, and had for the first time at least as long ago as the tracker thinks. So reading the
size before taking the lock does no harm: what was read may be old, but it was there. `Aged`: a file that is tracked, and has
no change the observer is late for, has been as it is at least as long as the tracker thinks, because the event of a
write starts the wait again. That no thread tracks for a service that is down is `Tended`.

`LabProofs` proves `OneRehearsal` and `PointerIsProgress` for all versions, numbers of samples and
sessions. An open session is in the store or in the hands of the one handler at work (`Accounted`,
`Held`), so nothing else can close or replace it; the attempt at hand is of a step not yet passed
(`Tryable`), and tasks under replay have done nothing but pass (`Fresh`), which is what keeps a
resume within the steps of the new version. `ArtifactsKept` rests on `Artifacts`: every entry of a task
that shows an output has it still, unless a later step may write to the same branch's directory, and the
input of the next attempt is the last output there is. `RunsLikeTheRunner` rests on `Climbs`: what the
handler at work has tried in this step is a ladder without gaps that ends where it stands. What the lab says after the
last of it is compared with the runner's verdict (`RunnerVerdict`), for any policy; where `then: skip` makes
the two differ, the theorem says that the lab fails the task.

`EditingProofs` proves all six properties of `Editing`, for any number of tabs, pipelines, versions
and processes, and texts and playbooks of any size. `RoundTrip` and `FormKeepsBook` undo a dump and a
form level by level, from a branch's steps to the book; they need of a level only that it was loaded
(`StepLoaded`, `PolicyLoaded`, `BookLoaded`): a function with just the fields of its kind. The form strips its texts first.
To strip them and then fill in a level gives what stripping the level gives, and the result is loaded again
(`TidyPlain`, `TidyBranchLoaded`, `TidyPolicyLoaded`, `TidyStepLoaded`, `TidyTriggerLoaded`, and so `TidiedLoaded`);
the page loads if that is a valid playbook (`FormReloads`). `NoLostUpdate` rests on
`SaveInv`: a page of a pipeline names the version it was opened from and shows it, unless a suggestion
filled it, and a save that waits for its transaction still has its page and moves the
pipeline on only if the version it has read is the page's. The exceptions it states, a save under another name and
another process between the two transactions, are those of section 3.

The other three are about recursive functions: the matcher of `difflib`, the rows of the table and
the tree of versions. The theorems of induction in the library take an operator as a parameter, which no
prover here can instantiate; `Least` and `Induction` are stated of sets of numbers instead, and each
function is restated as the one its equation chooses and shown to exist by induction on what shrinks.
`NothingHidden` then says that the rows from any pair of lines on cover both texts from there on
(`Covers`), and `PrintInv` that whatever is stored, or waits to be, is a document with finitely many keys
and its steps in a list. `TreeShowsAll` says that the rows under a version are a tree of its descendants (`Forest`), and that a
version that no walk from a root reaches has ancestors that come round in a circle. `SummaryTellsAll` goes down the
book with the summary, from parameters to policies: at each level there is nothing to say exactly if
what is compared is the same. It needs of the matcher that its pairs go down both lists together
(`Downward`) and that pairs which leave nothing out pair each place with itself (`AllPaired`).
`EditingAssumption` is the one assumption: the version registered before the model begins loads. `ordine run`
registers only what it has loaded and validated (`cli/main.py`).

Some theorems state what no run checks, because they are lemmas of those that runs do check or
follow from them: `ManifestTaskNamed`, `ClaimsAreCounted`, `RunnerTypeOK`,
`FailedIsFlagged` and the types of `Service` and `Files`.

Only model-checked: the liveness properties, which need fairness and `ENABLED` and are out of the
prover's reach: `WorkerComesBack`, `EveryTaskSettles`, `PendingSettles`, `QuietFilesAdmitted`,
`ManifestTaken`, `WorkersFinish`. So is `RunsAlone`, in the run where nobody interferes: a user or recovery that puts
back a task under way has it claimed again, so it is no theorem of `Runner`; `Alone` is its part in the proof of
`LevelIsRung`. Every other safety property that a passing run checks is a theorem; those of `service_serve`, and
`LevelIsRung` of `runner_quiet`, under the assumptions named above, which these runs satisfy. `LifecycleSpec`,
`CrashIsRecovered` and `CurrentLoads` are false of the code (section 3), so there is nothing to prove.

## 5. What is abstracted

* A ledger call raises nothing but `IllegalTransitionError`: a locked or full database is not
  modelled; its effect on the worker, an exception, is the one of `Execute` and `Setup`.
* A flag's kind is one of four; a kind that a step chooses stands with `task_failure` or
  `task_skipped`. Nobody resolves flags in `Runner` (`Ledger` has `ResolveFlag`).
* Times are ticks. Of the timestamps of a task only `updated_at` is kept, of those of an attempt whether
  `finished_at` is set. A task's `workdir` and `current_branch`, which nothing modelled reads, are left out.
* Inputs and outputs of steps are not modelled, only their results.
* In `Service` a write of the heartbeat file is atomic, error messages are left out, and the
  observer thread that a start leaves behind when it raises after its trigger has started is not
  kept: it notes sizes in a tracker that no poller reads (`core/triggers.py:450`), so it admits nothing. What the worker does in `run_once` is `Runner`'s.
* In `Intake` the content of a file is the number of the edit that wrote it, which stands for its hash and
  its time; its size is `SizeOf`. Columns of a manifest row other than its name are left out. An event of the observer names a
  path and no more. The task that the sink makes is its dedup key (`ledger`).
* In `Files` the places are a name and its suffixes in one directory on one file system; reading
  `task.json` back, the log of a step and the sizes a cleanup adds up are left out. The image a
  step makes is there or not.
* In `Editing` the texts are a few documents, chosen so that each notation, each default and each
  rule of the validation is met; what the language model suggests is one of `Advice`. Tabs are not
  closed: a page left alone does nothing. `yaml_text` of a page with a form is not kept: nothing reads it before
  to-yaml sets it. An id or slug with a newline at its end, which the pattern of the validation lets pass, is not told from
  one with another space; a regex that no longer compiles without the space around it is not told from one that does. Sessions, cookies and the search are left out.
* In `Lab` the step's outcome is free and its output is a path; a command `dry-run` beside the
  server has a store of its own, so it is modelled only while no session is open.
* Two workers appear only in the run of two one-shot commands (`runner_quiet`). The supported mode is one
  writing process per pipeline (`docs/ledger.md`, Concurrency posture).

## 6. Not modelled

* The image operations of `executors/headless`, `shell.run` and its process group: one call
  with a timeout each, whose result is the free outcome of a step. What surrounds them is `Runner`'s.
* Calls, drafts and diagnosis of the language model and its transport: a prompt, one repair and a log
  entry. The budgets are counters under a lock; that the image budget of a process is created without one
  (`llm/steps.py:82`) is listed as a hazard without a property.
* Configuration, discovery of plugins, scaffolding commands, templates and the guards of requests: they
  parse, print or refuse, and keep no state that others share.
* Schema migrations, and the heartbeat's temporary file (`core/heartbeat.py:66`), which the worker and
  the stop of one process share; the reader takes a file that does not parse for none. That a late beat
  overwrites `stop_failed` is in `Service`, and no property asks for it, as the code does not keep it.

What could follow: publication as a refinement of one atomic step, and the heartbeat file
with its two writers.
