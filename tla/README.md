# INFINITY FORGE in TLA+

INFINITY FORGE turns a user's chat request into a confirmed *Task*, has agents
build, review and fix it as a chain of Hermes cards, and merges the resulting
pull requests. Several short-lived processes share the work with no common
transaction: SQLite databases, Hermes and GitHub are each written on their own.
This directory holds TLA+ models of that code, the TLC configurations that check
them, and TLAPS proofs.

Contents: [inventory](#inventory) · [modules](#modules) · [runs](#runs) ·
[bounds and fairness](#bounds-and-fairness) · [proofs](#proofs) ·
[disagreements](#disagreements-between-code-and-documents) ·
[not modelled](#not-modelled) · [plan](#plan)

## Inventory

| Component (under `src/forge`) | State it keeps | Operations | Hard behaviour | What makes it correct |
|---|---|---|---|---|
| Task flow rules `ops/task_flow.py`, `ops/contracts.py` | none: an immutable state value | start, mark running, record result or Fix proof, observe base/head | long sequences of results, pushes, rejections | ready only on an unbroken, fresh chain of results; fix limit |
| Task runtime v1 `ops/task_runtime.py` | none of its own: it replays Hermes cards, PR, refresh intents | scan, replay, create the missing card | snapshots that age; two processes that create cards | a chain that never forks and the replay accepts, progress |
| Task merge v1 `ops/merge_runtime.py`, `merge_decision.py`, `github_merge.py` | refresh intents and the lifecycle in the settings database | decide, reserve and run a branch refresh, merge, record | GitHub answers late, twice or never; crash between two writes | merges only what was proven, refresh limit |
| Task delivery v1 `ops/task_outbox.py`, `task_settings.py`, `task_service.py` | outbox rows, settings rows, OS locks | save, claim, prepare, find or create the issue, bind, update, activate, label, complete, retire | crash and retry at every step; two sessions; lost and late answers | one issue per request; announced only while active; delivered in the end |
| Project merge v2 `ops/merge_runtime.py` | `task_projects` rows, lifecycle events | load, barrier, reserve, permit, merge, adopt, reconcile, finish whole or partly | overlapping runs, stop and revision, people who merge | each project merged at most once, in order, and recorded truthfully |
| Task creation v2 `ops/task_service.py`, `task_settings_v2.py` | requests, settings, projects, events | parent issue, project items, activation, release, progress | overlapping calls, crash between remote items, a barrier half-way | one of each object, resumable, nothing works before all is bound |
| Task database `ops/task_database.py` | one SQLite file, its lock files, barriers in memory | read, write, migrate, back up, restore | threads of several processes, a death under a lock | the file is replaced only while nobody uses it |
| Project runtime v2 `ops/task_runtime.py` | root item and worktree of each project row | preflight, worktree, step cards | as v1, once per project; a moving base branch | one chain per project |
| Stop `ops/task_stop.py`, `kanban_stop.py` | stop requests, their evidence | request, stop local work, read remote state twice, clean issue, complete | a person merges during cleanup; crash | ends with what really happened |
| Revisions `ops/task_revisions.py` | staged requests, settings, lifecycle events | open, preview, confirm, bind, activate, cancel, resume | races with messages, stop and merge | one version works, and it is the one that was confirmed |
| Messages `ops/task_messages.py` | messages, included and acknowledged notes | send, include, acknowledge, take a preview back | delivery to a run that ends | each message answered once; no result without it |
| Worker runtime `ops/worker_runtime.py`, `task_worktrees.py`, `process_identity.py` | worker runs, worktrees, process handles | start, finish, fail, terminate | crash between spawn and record, process id reuse | one worker per card; never signals a stranger |
| Surface events `ops/surface_events.py` | a client's outbox of pending texts, receipts in the Task database | prepare, receive, handle, respond, acknowledge, expire | crash and retry, two clients, retention | what was typed is recorded once |
| Plugin and setup `hermes_plugin/`, `ops/task_setup.py` | drafts, failed inputs, pending Tasks, all in memory | turns of a conversation; Git, GitHub and the Task service outside the lock | two turns at once, late answers, a restart | nothing leaves the chooser that was not confirmed |
| Subscription runner `ops/subscription_runner.py` | a receipt per run | one Codex attempt, at most one Claude continuation | the card and the quota change under it | what it reports of both is true |
| Status sync `ops/issue_status.py` | none | replace one label | stale reads | one official label |
| Hermes change installer `hermes_change/installer.py` | package, change state file, target files, a lock | install, restore, verify | failure or crash half-way | one complete version |
| Scripts, hooks, skills, schemas | a directory of notes to MEMEX | glue and operations | – | – |

How they meet. The *plugin* confirms a request and hands it to *delivery*, which
leaves an active settings row and a labelled issue. The *worker* (a timer)
replays each active Task and creates the one card that is missing; an *agent*
works on it, through the *subscription runner*, and submits a result through the
Hermes tools. When the replay says
`ready_to_merge` the *merger* (another timer) refreshes or merges. *Stop*,
*revision*, *messages* and people act on the same rows and pull requests at any
time. The
only mutual exclusion is the write lock of a SQLite database, held across a
GitHub call where the code says `guard_active`, `_ready_label_guard` or
`guard_project`, an OS lock per outbox request, and the lock files of
`task_database.py` that keep a migration or a restore alone.

## Modules

| Module | Models |
|---|---|
| `FlowRules` | the pure transition rules of `task_flow.py` over results of `contracts.py` |
| `TaskFlow` | one flow driven by any results, pushes and proofs, with histories |
| `TaskFlow_proofs` | TLAPS proofs about `TaskFlow` |
| `CardChain` | the pure replay of a card chain (`_replay_cards` and its helpers) and the next card; `EXTENDS FlowRules` |
| `TaskRuntime` | worker, merger, agents, GitHub and the outside world over one Task; `EXTENDS CardChain` |
| `TaskDelivery` | `create_task_durable` / `create_task` of the v1 service with outbox, settings and GitHub issues |
| `TaskPromise` | what delivery promises, with no database and no process |
| `ProjectMerge` | `run_project_merge_tasks` and the v2 merge store |
| `TaskStop` | the stop of a v2 Task: dispatcher and workers, reconciler runs, the parent issue |
| `TaskCreation` | `create_task` of the v2 service, its registry and GitHub writes, and the project worker that follows |
| `TaskChange` | messages to a Task, the revisions they open, the worker runs that must answer them, and the stop of a chain of versions |
| `TaskChooser` | the conversation: `TaskSetup` with its callbacks, and the hook `before_user_turn` |
| `TaskDatabase` | who may use the Task database together |
| `SurfaceEvents` | the outbox of a client, receipts, and what is recorded under them |
| `SubscriptionRunner` | runs of `subscription_runner.py`, with its attempts, probes and the card |
| `Installer` | installation, restoration and verification of the Hermes change |
| `TaskRuntime_proofs` (with `CardChain`), `ProjectMerge_proofs`, `TaskDelivery_proofs`, `TaskStop_proofs`, `TaskCreation_proofs`, `TaskChange_proofs` | TLAPS proofs about these |
| `TaskParts` | the sum of `TaskCreation`, `TaskChange`, `TaskChooser`, `TaskDatabase`, `SurfaceEvents`, `SubscriptionRunner` and `Installer` |
| `TaskParts_proofs` | TLAPS proofs about the sum, and about `TaskChooser`, `TaskDatabase`, `SurfaceEvents`, `SubscriptionRunner` and `Installer` in it |
| `MC*` | small instances of these; `MCTaskParts` is one of `TaskParts`, `MCTaskFair` extends `TaskFlow` and instantiates several |

`TaskParts` and `MCTaskFair` are *sums*: a variable `part`, chosen in the initial
state, says which instance moves, and the others rest. The instances share no
modelled state, so nothing is gained by interleaving them; `part = "x" => ...`
guards what is said of one of them. `TaskParts` has the constants of all its parts,
so that theorems about it say of every value what `MCTaskParts` checks of one; the
instances of `TaskCreation` and `TaskChange` are taken from their `_proofs` modules,
which add no behaviour.

**Reading the models against the code.** A hash is modelled by what it hashes. A
commit is a model value or a number. `FlowRules` has one operator per function of
`task_flow.py`. In `TaskRuntime` the fields of `proc` are the local variables that
survive from one step of a process to the next; a step is what happens between two
reads or writes of shared state. `wire` holds requests that GitHub has received
but not yet executed, so an answer may be late or lost. In `TaskDelivery`,
`at[c].step` is the place in `create_task`; an exception is `Return(c)`, which
also frees the locks (`_request_lock`, transaction exit). In `ProjectMerge`,
`at[w].step` is the place in `load_project_merge_tasks` / `_run_project_task`:
`load` and `observe` read project after project by `project_id`, `reserve` … `mark` are the
ordered loop, `recover`, `regain`, `pend`, `partial`, `fail` its exception handler.
In `TaskStop`, `tick` is the dispatcher's place in a worker start, under the board
lock, and `at[r].step` the place of a reconciler run in `reconcile` and in the GitHub
client: `round` … `recheck` are `_stop_local`, `read` and `verify` the loop of
readbacks (one call per project), `status` … `closed` the cleanup of the issue,
`finish` the transaction of `_complete`, `broken` the exception handler.
In `TaskCreation`, `call[c].step` is the place in `create_task` of the v2 service and
`scan[w].step` that in `run_project_task_flow_worker`; a write whose caller was killed
waits in `wire`. In `TaskChange` every transaction is one step. In `TaskChooser` every
action is one section under a lock or one call outside all locks: `turn[t].at` is
the place of a turn. In `TaskDatabase`, `at[t].held` counts the locks of an operation
a thread already has, `barrier` is the state each process keeps in memory and `files`
the handles that hold a lock file. In `SurfaceEvents`, `turn[c].step` is the place of a
client between outbox, receipt, record and acknowledgement; in
`SubscriptionRunner`, `run` holds the locals of a run.

Operators called "Faulty variant" are wrong versions of the operator below
them. No specification uses one; replacing the operator by its variant shows that
a property notices.

**Abstractions worth knowing.**

- `TaskFlow`: any result may arrive at any time, also of a foreign Task; results
  are as the schema checks of `contracts.py` leave them.
- `TaskRuntime`: one Task; reading the cards, then the pull request and then the
  intents are separate steps, as they are in the code.
- `TaskDelivery`: one user and one repository; callers are single-threaded, so the
  `RLock` in the process is subsumed. In `TaskPromise` a label that was sent while the
  Task was active may land later; nothing else may. `Edit` stands for a person who edits the
  issue and for the label sync. `Lose` is a write whose answer is lost, `Abandon`
  a `gh` call killed after 30 seconds whose write arrives later.
- `ProjectMerge`: starts when the Task is active. `ready`, `running` and
  `reviewing` are one state since no query tells them apart. `barrier` stands for
  every event that blocks a Task (stop or revision requested); only it may be
  resumed. The fields of `remote` say how the pull request compares with the
  proven commits: not merged, merged exactly as proven or otherwise; moved away
  from them; checks and reviews in order. `safe_auto` with one project adds a file
  rule that is not modelled.
- `TaskStop`: a project is merged or not; that a merge is the expected one is
  `ProjectMerge`'s matter. `failed` and `stopped` runs are both "ended", as no query
  tells them apart. The comment of a stop is the set of merged projects it lists.
  A new reconciler run takes the lowest free number, since runs differ in nothing
  else. The board lock frees itself when the dispatcher dies. What Hermes does on a
  failed spawn or an exited worker is external, and so are the runtime adapters: the
  repository has their protocol, and only its tests make a `ForgeWorkerSpawner`.
  `StopFailed` is `_stop_failed`: with the fault "unstopped" the stop of the worker
  raises or is not read back, or the mark of its run fails, and the caller goes on as
  the code does. `finish` meets it after an exit (`Finish`) and when `adapter.wait` raises
  for a living worker (`WaitFails`, which may always happen and counts for nothing; only
  the stop it leads to may fail). The same fault lets `adapter.process_identity` fail
  after the worker is created, which then nobody stops, and `terminate_exact_process_tree`
  report that descendants remain (`Kill`). `adrift` is a history of the workers whose
  process was left when no active run named them and nobody had read back its end,
  those included that the dispatcher had not recorded when it died. A transaction that
  marks a run is one step with the stop before it, since the board lock is held or the
  worker is named by its run until then.
- `TaskCreation`: a replayed flow is its number of cards; what Review, Deep Check
  and Fix add is `TaskRuntime`, which shares that code. The client of the
  project items has no implementation in the repository and is modelled from its
  protocol. `Genuine` is the comparison of an issue with the request.
- `TaskChange`: times become an order; the limits of 100 messages and 1 MiB are
  left out. A worker answers all of its messages before it exits; missing some is a fault.
- `TaskChooser`: what a user types is what the dialogue can distinguish. A turn
  that overlaps another costs a fault, except while Projects are validated. The
  chooser of a stop, the bound of 64 pending Tasks (`_trim`), sweeping, the expiry of
  failed inputs, plain "choose" texts and events with missing fields are left out.
- `TaskDatabase`: the content is a version number; waiting until a deadline is `GiveUp`.
  SQLite's own locks are left out: what is shown, the lock files give alone.
- `SurfaceEvents`: turns that ask for a message to a Task stand for all that write. The
  key of the outbox is the session and the text; only the receipt binds the
  directory. `mark_handled`, `mark_responded` and `expire_due` have no caller outside
  the tests and may happen at any time. The patched Hermes client is external.
- `SubscriptionRunner`: the event stream of Claude is a sequence of the kinds the
  classifier distinguishes. A killed run leaves no child. Hermes refuses to block a
  card that nobody works on (external).
- `Installer`: a file is in its version before, after, or edited by somebody else
  ("other"); foreign edits are exempt from what is promised. How a package is built
  is left out.

## Runs

| Run | Instance | Shows |
|---|---|---|
| `runtime` | pushes (also back to an old commit) and stops at any time, 2 moves, 1 crash | only proven pairs of base and head are merged or recorded; refreshes stay reserved; nothing is created or sent after the end |
| `runtime_live` | all steps selected, moves once ready | the Task is always decided; the chain stays replayable and so never forks |
| `delivery` | two plugin calls, two requests, 2 faults (late labels too), 1 edit | one issue per request, agreeing databases, refinement of `TaskPromise` |
| `project_merge` | two overlapping runs, three projects, one fault and one edit of any kind | one PUT per project, in order, only under a permit, recorded truthfully |
| `task_stop` | two overlapping runs, two projects, one worker, one fault | no worker survives but those adrift; the end is recorded once, misses no merge it could see and is told by the issue; it comes unless the stop is stuck |
| `task_parts` | seven parts, one at a time | see below |
| `task_fair` | the flow alone (two Tasks, two commits, 3 fixes); creation, delivery and merge, one at a time, under fairness | readiness rests on a fresh unbroken chain, the fix limit is exact; a prepared Task is created, a stored request announced or retired, an exact merge recorded |

The parts of `task_parts` and what is shown of them:

| Part | Instance | Property |
|---|---|---|
| creation | two calls, two worker runs, two projects, one fault, barriers | `OneOfEach`: one issue, one item per project and one chain of cards; `NoEarlyWork`: none is worked on before all are bound and active; `SafePoint`: a call half-way through makes nothing once a barrier is up |
| change | two messages, three versions of two projects, three worker runs, one fault | `OneVersion`: one version works, the one confirmed with every message it took; `AnsweredOnce`: a message is answered once, and before the run given it completes |
| chooser | two turns of one session, two projects, two previews, one fault | `OnlyConfirmedTasks`: only the preview the user confirmed leaves, after its projects were found unchanged, and is served once at a time |
| database | two threads of one process and one of another, three versions, one fault | `DatabaseIsShared`: who commits has read what it changes; a restore or migration is alone; an idle process keeps no lock |
| surface | two clients of one session, three turns, one fault | `RecordedOnce`: what was typed is recorded once per acknowledgement, and at most once more while pending |
| runner | two runs, all event streams up to length 2, of which one ordinary event is kept, one fault | `RunReportsTruth`: no continuation without an exhausted quota; success means a settled card |
| installer | two processes, three files, three faults, one foreign edit | `OneCompleteVersion`: without a marker all files have one version |

The other runs end in a violation on purpose; they show the
[disagreements](#disagreements-between-code-and-documents).

Deadlock is checked where the system cannot stop. `CHECK_DEADLOCK FALSE` stands
where it can: in `TaskRuntime` an ended or failed Task with its budget of outside
moves spent; in `TaskDelivery` a user with two pending requests, or a spent
`MaxIssues`; in `ProjectMerge` and `TaskStop` a Task that is over; in the sums a part
whose budget of turns, runs, messages or versions is spent, or whose Task is
created or merged.

## Bounds and fairness

`MaxMoves`/`MaxEdits` bound what people do, `MaxCrashes`/`MaxFaults` what fails,
`MaxIssues` and `MaxCommit` the names GitHub may hand out. Two processes suffice
for each race the code can have, since each lock and each reservation has one
holder and one contender. Three projects give an order with an earlier and a later
one and a partial end that leaves a remainder; they are read in another order
(by `project_id`) than they are merged in. One edit and one fault of any kind is
enough there for each pair of a reader and a change under it. The two runs of
`project_merge`, and the two turns and clients of `task_parts`, differ only in name, so these
are checked up to exchanging them.
`task_stop` has one worker and two projects, so that a partial end exists; an overlap
counts as a fault there, and three attempts instead of six let two merges spoil them
all. One stop, mark or kill that fails counts as one fault as well, in whichever step
it is. `MAX_FIXES` and
`MAX_BRANCH_REFRESH_COUNT` are 3 in the code; the flow of `task_fair` uses 3, the large
instances 1, so that the limit is reached.

In `task_parts`, creation has a project with one card and one with two, read by the
worker in another order than they are created in, and as many calls and runs as can
meet. Three versions of a Task are a replacement and the replacement of it; two
messages come before and after a preview, and three runs are those of a
version, a retry, and the next version's. Three threads in two processes
contend on a barrier in memory and on the lock files; three versions of the file let
a backup be older than what a restore replaces. Three files have one replaced, one
half-way and one untouched, and three faults break an installation, its undoing and
the next attempt. `task_fair` has one request and two callers for delivery, with three
faults but none between bind and update (that is disagreement 2), and one
worker and three projects for merges, as their proofs are independent of overlap.

`OneIssue`, `OnePut` and the like are safety properties and need no fairness. For
liveness:

- `TaskRuntime`: weak fairness of both processes' steps (systemd timers start
  them again and again), of GitHub's answers and of the agents. None for pushes,
  merges, cancellation.
- `TaskCreation`: weak fairness of each call, its beginning included (a request is
  sent again until it is through; the service is written to resume it), and of the
  steps of a worker run that has begun. None for agents, people, or the next scan.
- `TaskDelivery`: weak fairness of each caller's steps. A user whose request
  failed is assumed to come back; the OS frees the locks of a dead process.
- `ProjectMerge`: weak fairness of each run's steps (timer) and of the clock
  reaching `auto_merge_expires_at`. The clock is needed: a project recorded as
  `failed` blocks the barrier, and its merge by a person is recorded only when
  the permission has expired and the run takes the write-free path.
- `TaskStop`: weak fairness of each run's steps and of the start of a next run
  while the stop is unfinished (the script's purpose: "Retry unfinished Task Stops
  until local and GitHub truth converge"), of the dispatcher's tick, and of Hermes
  settling the card of a worker that is gone. None for workers that exit by
  themselves, or for people.

`MCTaskFair` states the same fairness, guarded by the part that moves. `EventuallyCreated`
names in `Stuck` what creation does not recover from: a barrier, somebody who
edits its objects, a killed write that doubled one, and a worker that takes a
project before the last item is released and the progress shown.

## Proofs

TLC shows a property on an instance; the theorems below hold for every value of the
constants that satisfies the named assumptions: any number of projects, callers,
overlapping runs, faults and edits.

| Module | Theorems | Assumes |
|---|---|---|
| `TaskFlow_proofs` | `TypeOK`, `ReadyIsProven`, `ReadyIsComplete`, `EvidenceIsFresh`, `FixBudget`, `FailedIsFinal` | `MaxFixesAssumption` |
| `TaskRuntime_proofs`, its part on `CardChain` | `ReplayTyped`, `ReplayCovers` and the lemmas on snapshots and the next card | `MaxFixesAssumption`, `OwnAssumption` |
| `TaskRuntime_proofs` | `TypeOK`, `OnlyProvenIsMerged`, `NothingAfterEnd`, `IntentsLead`; `RefreshesAreReserved`; `ChainStaysReplayable` | these, `MaxRefreshAssumption`, `CommitAssumption`, `BoundsAssumption`; `NoFix` for `RefreshesAreReserved` and `Calm` for `ChainStaysReplayable`, see below |
| `ProjectMerge_proofs` | `TypeOK`, `OnePut`, `InOrder`, `StopsAtSafePoint`, `RecordsAreTrue` | `MergeAssumption` |
| `TaskDelivery_proofs` | `TypeOK`, `DatabasesAgree`, `KeepsPromise` (the refinement); `OneIssue` | `DeliveryAssumption`; for `OneIssue` see below |
| `TaskStop_proofs` | `TypeOK`, `NoWorkerSurvives`, `IssueTellsResult`, `NothingIsOverlooked`; `NoDescendants` | `StopAssumption`; for `NoDescendants` also that no stop of a worker fails (`"unstopped" \notin Faults`) |
| `TaskCreation_proofs`, in the sum `TaskParts_proofs` | `TypeOK`, `OneOfEach`, `NoEarlyWork`, `SafePoint` of `TaskCreation` | `CreationAssumption` |
| `TaskChange_proofs`, in the sum `TaskParts_proofs` | `TypeOK`, `OneVersion`, `AnsweredOnce` of `TaskChange` | `ChangeAssumption` |
| `TaskParts_proofs` | `TypeOK` of the sum, `OnlyConfirmedTasks` of `TaskChooser`, `DatabaseIsShared` of `TaskDatabase`, `RecordedOnce` of `SurfaceEvents`, `RunReportsTruth` of `SubscriptionRunner`, `OneCompleteVersion` of `Installer` | `PartsAssumption` |

None of the properties is inductive. Each module has an `IInv` that adds what holds
at the places in between, a lemma for each action, and `Invariance`, which puts them
together. `IInv` was checked by TLC before it was proved.

**`TaskFlow_proofs`.** `ReadyIsProven` speaks of the last step only,
but whether a Deep Check proves anything depends on the Review it started from.
`Coherent` therefore says for every step what the state holds on the way:
at Review the accepted Build of the current base and head, at Deep Check the
approved Review, at Build nothing. `FixBudget` needs `Budget`, which relates
`fix_count` to the Fix proofs and rejections seen.

**`TaskRuntime_proofs`, the card chain.** `Replay` is a recursive function over the chain.
`ReplayUnfolds` shows that it follows the cards one by one, and `ReplayTyped`, by
induction over the chain, that whatever the cards (`WellMade`: each has a result its step
may end with and a source its step may use) the replay is a flow in order (`ReplayInv`).
The library's induction theorems take an operator as a parameter, which the provers
cannot instantiate; `Induction` takes a set, and rests on the least member of a set of
numbers. `SnapshotTyped` and `NextCardsMade` carry this over to snapshots and to the
cards `next_card_spec` asks for. `ReplayCovers`, again by induction, says that a replay
that counts *n* branch refreshes has seen a card for each of 1 to *n*, and
`NextCardsRecorded` that a planned refresh card names the commits of a completed intent.

**`TaskRuntime_proofs`, the two processes.** The two processes act on what they read earlier.
`Remembers` says what of it still holds: the cards read are an earlier stand of the
chain (`Later`: cards are added, and only open ones change), evidence of a
merge is final, and every pair a snapshot is ready for is proven by some prefix of
the chain. `ProvenKept` is why the last stays true: a prefix that proves something
has no open card, so no agent can change it. `WireOK` is about a merge request that
GitHub answers late: either the base it was proven for still stands, or the base moved
and the requested commit, which is older, does not contain it (`m.sha <= top`), so
GitHub refuses. `LockOK` is what `NothingAfterEnd` needs: the merger writes only
under the lock, and nobody ends the Task meanwhile. The steps of the world are proved
through `Moves` and `StillInv`, so that each push or merge is looked at once.

`RInv` is about the card chain and the intent table, two stores written without a
common transaction by two processes. `RefreshesOK`: a card for a branch refresh names a
completed intent, and those never change again (`Keeps`); the chain lacks at most the
newest. `Plans`: what a process plans from an older snapshot is still true of the stores,
because the snapshot's refreshes are all in the chain it read. `MergerOK`: the intent
the merger works on is the newest, and only the merger completes it. `IntentsLead`
follows for every flow. `RefreshesAreReserved` says more, that no refresh has two
cards, and needs `NoFix`, so of the code's flows it is proved for Build alone: there
two cards for one refresh have the same key (`SameRefreshSameKey`), and the second is not
created. With Fix it is false, the list below has the constants: a Build and a Fix card
for one refresh have different keys.

**`TaskRuntime_proofs`, the chain of a calm Task.** `ChainStaysReplayable` is proved for
`Calm`, the constants of the run `runtime_live`: pushes (never back to an older commit)
and base advances meet only a flow that waits for its merge while the merger is idle,
and no Build pushes. Outside of this it is false (`change_while_open` and the list
below). All flows, any number of moves, crashes, lost requests and late answers are
covered, and the stops. `Steady` is the invariant, on top of `IInv` and `RInv`:

- `Healthy`: the replay accepts the chain, and either every intent is in it and the pull
  request shows the pair of the flow or the flow is ready, or the newest intent awaits
  its card (`Awaits`) and shows, once completed, what the pull request shows.
- `Follows`: what each process holds. A scan is the chain as it is, or a refresh has
  overtaken it, or a merger that reads it will find nothing to do (`ReadFollows`,
  `PlanFollows`). A planned card is in the chain under its key, or is the one card
  missing now (`Due`), so that of two creators one finds the other's card. The
  snapshot the merger works on still holds until its refresh is in the chain (`Stands`).
- `Updates`: a branch update that GitHub would still do belongs to the newest, open
  intent; late answers to older ones meet another head.

Two kinds of lemmas carry it. `HealthySnapshot` says what a snapshot of a healthy chain
is and which card it asks for; `AppendOK`, `AgentHealthy`, `CompletedOK` and `ReservedOK` that a
created card, an agent's result, a completed and a new intent keep a chain healthy.
`FollowsAppend`, `FollowsAgent`, `FollowsMove`, `FollowsComplete` and `FollowsReserve` say
that what a process holds survives such a step of somebody else.

**`ProjectMerge_proofs`.** What a run relies on after it has read something and before
it writes is `RunInv`. `Permit`: from the permit to the record the run is the writer,
so the Task is active and its reservation stands. `Proven`: a project it found
mergeable or merged has a ready flow. `Witnessed`: the merges it goes by are on
GitHub, those it observed and those of all earlier places of the order. `Exclusive`
is what makes `OnePut` hold: two runs never may ask for the same project, because the
reservation is taken in a transaction only from `ready`, and `Stored` says that a row
still `ready` was never asked for. Runs only ever disturb each other through rows,
pull requests and the writer, so each action is proved for the run that moves, and
`RowsMove` and `RemoteMoves` carry the invariants of the others over.

**`TaskDelivery_proofs`.** `CallerInv` says what a caller's copy of the settings is
worth at each step: at `find` it may be old, but a binding is for ever; from
`check` to `readback` the caller holds the database and the copy is exact; at
`retire` the Task has ended. `Bindings`, `Labels` and `Retired` relate settings,
issues, labels on their way and the outbox. The refinement maps the settings and the
labels to the stages of `TaskPromise`; `ReadsSim`, `QuietSim`, `Advances` and
`StepSim` show, action by action, that a step keeps or advances a stage.
`OneIssue` does not hold in general: disregarding the outbox (`Plugin # Caller`,
the direct script `task-service.py`), or with a `create_issue` that arrives after
its caller was killed, two issues can be created, as listed under the
disagreements. It is proved for `Plugin = Caller` and `"create" \notin LateAt`, the
delivery the plugin makes, by `CInv`: a claim has one holder, and only the holder
that found no issue is at `create`.

**`TaskStop_proofs`.** `Clean`, `Recorded` and `Adrift` are about the board. Once swept,
nothing on it can start a worker. A process that exists is named by a run recorded as
running, or is the one the dispatcher is about to record (`Unrecorded`), or is adrift;
so a run of the reconciler that finds none recorded has found all but those adrift,
which is `NoWorkerSurvives`. A crash moves the unrecorded one to `adrift`, and it is
suspended at that step; a worker that works gets adrift only where a stop or a mark
fails. That is `NoneLeftIfStopsWork`: without such a fault the design's condition,
`NoDescendants`, holds of every completed stop. With it it does not (disagreement 5).
`Reads` says that what a run knows of
GitHub when it reads for the second time includes its first result (`base`), project by
project (`Passed`); `NothingIsOverlooked` follows at its last step. `Agreed` and
`IssueAgrees` are the argument for `IssueTellsResult`: while nobody merges, all runs
come to the same outcome, so that every write on its way to the issue (`Fits`), also
one of a run that died, is one the others would make too.

**`TaskCreation_proofs`.** `CallInv` says what a call of `create_task` may rely on
between its look at GitHub and its write: a call at a step in `Holding` has the write
lock, and `OneHolder` makes it the only one; at `create` and `make` every object there
is came late, so `Unique` (two objects of a kind only by a late write) survives the
write. `Mild` is what the others may do meanwhile: only who holds the lock binds or
creates, so the step of any call, run or person takes nothing from the rest
(`CallsKept`). `Registry` relates the rows to the items and to the lifecycle of the
Task, `Remote` the objects and the late writes (`Sendable`: a late release was planned
by an active Task). Worker runs act on an old chain: `Due` says that a card due by it
is at most the next one now, and the next only if all before it have results, because
chains only grow (`Earlier`) and a result stays. `SafePoint` follows because a barrier
is committed only while nobody holds the lock, and no call is then at a write; a worker
checks for it in the transaction that creates the card.

**`TaskChange_proofs`.** `Solo` strengthens the first half of `OneVersion`: of all
requests that are in work, being changed, or taken back and not yet resumed, there is
one, and none once a stop is requested; `Activate` is the step where one takes the other's
place. `RevInv` relates a revision to its two requests: the base has settings, the
replacement was staged for that base, and as long as a revision may be confirmed nobody
has settled a message of it (`RequestedIsOpen`), so the preview that equals what is
pending has every message. `NoteInv` says who may have settled a message, and that only a
replacement with settings has runs that do; so neither `Cancel` nor `Stop`, which leave
such revisions alone, settles a message again. `RunInv` says that a completed run leaves no
message of its revision open. That stays true because a confirmed revision takes no message
(`RunsKept`), and holds at first because `Exact` compares the packet with everything
that this run or nobody answered (`CompleteInv`). The steps of the user's side go through
`RevisionMoves`, those of the runs through `OneRun` and `RunNotes`.

**`TaskParts_proofs`.** The invariant of the sum is that of the part that moves
(`SumInv`). For `TaskCreation` and `TaskChange` the lemmas of their own modules are cited
of the instances (`Creation!NextInv`, `Change!NextInv`); for five parts the argument is
here.

- `Installer` (`InstallInv`): the lock is held by the only process that is not idle, and
  no file is touched without the marker (`LockIsExclusive`, `MarkerGuardsFiles`).
- `SubscriptionRunner` (`RunnerInv`): the property speaks of the end of a run, so the
  invariant says what the attempts are at every step before it (`AttemptsInOrder`):
  Codex first, Claude only after a quota that was confirmed, nothing after a success;
  and what the code of the run already claims of the card (`ReportIsTrue`).
- `TaskDatabase` (`DbInv`): whether two threads exclude each other depends on a barrier
  of each process and on the handles of a file, which change in different steps. `Placed`
  says where a thread can be in its operation; `Owners`, `Sharers` and `Comers` are the
  threads that have a lock or are about to. `BarrierInv` says that the barrier counts and
  names exactly these, `HandleInv` that a process has a handle while one of its threads
  has the lock and the handle is the thread's between `Leave` and `Release`, and that a
  handle for one excludes every other. `Exclusion` follows for threads of all processes.
  A step changes one lock for one thread: `LockStep` leaves the others alone.
- `TaskChooser` (`ChooserInv`): a request is in one place at a time, the draft that
  shows it (`AskIsUnsent`), the turn that carries it (`AloneWithAsk`) or the place of the
  pending Task (`AskWaits`), and whoever has it has it confirmed and not yet created. The
  Projects are checked outside the lock, for a draft that may have changed meanwhile:
  `AskAtWork` says that the result still names the draft's request if the draft still
  names the call. That needs identifiers which nobody else holds when they are given out
  (`FreshIsFree`); `Id` has one more than all sessions and turns can hold, so
  `ChooserAssumption` has both finite. The answers go through `Answering` and
  `DraftMoves`, what one section under the lock may do to a draft.
- `SurfaceEvents` (`SurfaceInv`): an identity is never given out twice, since those handed
  out are counted against the turns typed, with the clients still preparing
  (`HandedOut`). A client goes on only with one that is pending for its text or was
  recorded before (`Following`). What was recorded for a text and is no longer pending was
  acknowledged exactly once (`Settled`), so only the pending one can be ahead.

Only model-checked:

- `RefreshesAreReserved` of `TaskRuntime` in flows with Fix, and `ChainStaysReplayable`
  without `Calm`: they do not hold for all values of the constants (see the
  disagreements and the list after them);
- all liveness properties (`EventuallyDecided` and the like), which need `ENABLED`.

The assumptions about constants of the parts and of the modules run for liveness are
definitions, which `PartsAssumption` of `TaskParts` and `InstancesAssumption` of
`MCTaskFair` assert of the instances.

## Disagreements between code and documents

Each has a run that ends in a counterexample, and an entry under `findings` in
`PROJECT.json` with the quotation.

1. `change_while_open`: a push while Review, Deep Check or Fix is the next step
   makes the worker create a card its own replay refuses.
2. `bound_before_updated`: a failure between `bind_issue` and `update_issue`
   makes each retry fail.
3. `early_human_merge`: a person who merges before a barrier stored the proofs
   (in manual mode: always) makes the v2 loader fail in each run, for all Tasks.
4. `stop_after_cancelled_replacement`: the check of the chain before a stop counts
   cancelled replacements (`task_stop.py:2161`), which the revisions leave out
   (`task_revisions.py:1044`): after one is taken back and another staged, no stop of
   the user is accepted, though the design (`docs/weapon/specs/2026-07-18-hermes-hybrid-task-control-design.md:829`)
   has a Task stoppable while it is changing.
5. `worker_outlives_stop`: if `record_included` or `wait` fails and then the stop of the
   worker, its run is marked `failed` all the same (`worker_runtime.py:867`, `:869`). The
   reconciler kills only what an active run names (`task_stop.py:1543`), so the stop of the
   Task is completed while the worker runs; the design's common condition of every
   completed stop is "descendant 0" (the same file, line 524).

Behaviours of the code the models reach and no run is spent on. Where constants
are named, checking the property under them shows the behaviour:

- a Build restarted by a commit change must not push, though its instructions
  have it report the new head: the replay compares its result with the head the
  card was created for (`task_runtime.py:713`; `BuildPushes = TRUE`);
- a pull request that returns to an earlier base and head gets no new Build card,
  since the card's key exists (`EventuallyDecided` with `ForcePush`,
  `MaxMoves = 3`, `MaxCommit = 3`, `Automatic = FALSE`, `MovesWhen = "ready"`);
  and when it returns between the worker's read and the merger's, both plan a card
  on the same parent (`ChainStaysReplayable` with `ForcePush`);
- a merger that stands between its evidence read and `reserve_branch_refresh` while a
  whole Build and Review happens elsewhere, a force push returns to the earlier head
  and another Build is rejected there, refreshes a flow that is at Fix: the worker then
  plans a Fix card of kind `branch_refresh` (`task_runtime.py:525`, `:985`) beside the
  merger's Build card (`:999`), two cards for one intent (`RefreshesAreReserved` with
  `Selected = "build_review"`, `ForcePush = TRUE`, two values of `Text`, `MaxCommit = 4`);
- a branch refresh overtaken by a push or a base advance is completed in the intent
  table but never projected, and the replay is refused from then on
  (`task_runtime.py:525`);
- two requests of one user left pending block each other
  (`EventuallyDelivered` with `Wants <- MCOneEach`);
- a `create_issue` that arrives after its caller died makes a second issue
  (`OneIssue` with `Caller = {d1}`, `LateAt = {"create"}`);
- a merge request of a killed call may land after the readback that had its
  project recorded as failed (`merge_runtime.py:1997`);
- an agent may hold an open card of a Task that is recorded as merged, after a
  force push to the proven head and a merge by a person;
- a project whose pull request moved or was squashed also keeps the loader from recording an exact
  merge of its sibling;
- a run that dies between reservation and PUT leaves its project
  `waiting_for_help` for good: later runs only read it back (a test asks for this);
- the fix-task skill (`SKILL.md:31`) and `record_fix_proof` differ on equality of
  commits; item 14 of the runbook's list sends a failed `eval` to Fix, for which
  no code exists;
- a dispatcher that dies between `adapter.start` and `_record_running` leaves a
  suspended process that no row names and no stop looks for (`NoWorkerSurvives` without
  `adrift`); an identity that cannot be read leaves one too, since `start` stops only
  what has an identity (`worker_runtime.py:952`);
- a stop can get stuck in four ways, which `Stuck` of `TaskStop` names and
  each of which TLC reaches (`EventuallyStopped` without that disjunct): a card in the
  state running whose worker was left adrift has no recorded identity, so the archive is
  refused while the worker lives ("active worker process identity lookup failed",
  `kanban_stop.py:475`); and for good, a Task that
  the merge worker has ended can still be stopped, but its stop never completes
  ("Task terminal event won before Stop cleanup", `task_stop.py:1923`); once the issue
  is closed as not planned and only then some projects are merged, each later run is
  refused ("partial Stop parent issue must remain open", `github.py:1371`); two
  overlapping runs, or a post that arrives late, leave two result comments, which no
  run repairs ("marker is duplicated", `github.py:1464`). The design
  (`docs/weapon/specs/2026-07-18-hermes-hybrid-task-control-design.md:534`) has the
  worker bring an unfinished stop to its final state without duplicate comments;
- a merge between the last readback and the final transaction of a stop is not in its
  result (`NothingIsOverlooked` speaks of the merges there were when the issue was labelled);
- a late ready label may land on a Task that has ended (`task_service.py`, the
  comment in `create_task` knows);
- a confirmation while an older request is pending delivers the older one, and the
  new one is not stored (a test of the plugin asks for this).

And of the components of `task_parts`:

- a request that is staged and not yet previewed makes a stop refuse for the time being;
- messages reach the first project of a version that finishes only: its
  acknowledgements make the packet of the other project differ, so that run fails,
  and its retry gets an empty one. Acknowledgements are committed before the run
  completes, so a run that fails after some of them has consumed those messages. The
  messages of a version that is replaced before its workers answered are delivered
  to nobody;
- `TaskRevisionService`, `TaskServiceV2`, backup and restore have no caller in
  production code, and `create_task` refuses a replacement (`task_service.py:2131`);
- two backups to one destination may be published in the opposite order;
  `exclusive_pending` in `task_database.py` is set and cleared under one hold of the
  condition, so nobody ever sees it set;
- an expired stop chooser goes on swallowing plain texts; a structured answer passes
  by a pending Task, so that a second confirmation can replace a request that failed
  and is still pending; with the factory as shipped, v1 is reached only by a race of
  two turns;
- verification and restoration write over an edit somebody makes between their
  reading and their writing;
- a text typed again from another directory is refused until it went through from
  the first (the outbox has the same key, the receipt another payload), and a receipt
  that expired keeps its pending text from ever going through;
- a Claude attempt that met a `rate_limit` retry and then succeeded is classified as
  quota (`subscription_runtime.py:106`), so the runner tries to block a card that is
  finished, and exits with 70; a Codex attempt that exits with 75 after finishing its
  card is still continued by Claude; after 61 ordinary events an `api_retry` for
  another reason is dropped, which can change the classification.

## Not modelled

`PROJECT.json` lists for each component what its modules leave out. Without a module
are:

- *Issue status sync* (`ops/issue_status.py`): one read and one replacement of a label,
  which `TaskDelivery` has as the edit it competes with;
- *Process identity* (`ops/process_identity.py`): handles of the operating system (pidfd,
  job objects); that a worker is killed only once verified is in `TaskStop`;
- *Hermes store*: modelled from its use, as cards, runs and idempotency keys;
- *Safe files, activity log, notes, deployment, backup and check scripts*: input and output, with
  no state shared with the rest. The sender of notes to MEMEX
  (`scripts/send-pending-messages.py`) sends a note again if it dies before it moved the
  file.

Left out for good: text formats, SQL and schema checks, file system safety
(`safe_files.py`, `project_discovery.py`), prompts, the patchers of
`hermes_change/installer.py`, the setup of subscriptions, skills and schemas.

## Plan

1. `FlowRules`, `TaskFlow`, `TaskFlow_proofs` — done
2. `CardChain`, `TaskRuntime` — done, proved; `RefreshesAreReserved` for flows without
   Fix, `ChainStaysReplayable` for calm Tasks, `IntentsLead` for all
3. `TaskDelivery`, `TaskPromise` — done, proved with the refinement
4. `ProjectMerge` — done, proved; an abstract specification of the ordered merge is
   worth stating
5. `TaskStop` — done, proved; the stop of a prepared Task without settings is left
6. `TaskCreation`, `TaskChange`, `TaskChooser`, `TaskDatabase`, `SurfaceEvents`,
   `SubscriptionRunner`, `Installer` — done, proved
7. the limits on messages and pending Tasks, and the stop chooser, if a property needs them
