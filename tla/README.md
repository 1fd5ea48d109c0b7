# A verification development of skillbox

TLA+ models of the skillbox server (`src/internal`, `src/cmd/skillbox-server`),
their TLC instances, and TLAPS proofs. Every definition that models code is
listed in `PROJECT.json` with the lines it stands for; this file gives the map
of the system, what is checked and proved, and what is left out.

    tlc -workers 2 -config Runner_safety.cfg MCRunner      # one run
    tlapm Runner_proofs.tla                                # one module of proofs

## 1. The system

skillbox runs agent *skills* (zip archives of code) in sandboxes. A Go server
exposes a REST API; it keeps rows in PostgreSQL, archives and files in an object
store (MinIO), and talks over HTTP to OpenSandbox, which runs the containers.
The Kubernetes manifests run two instances of the server
(`deploy/k8s/base/deployment.yaml:7`), which share all three services and know
nothing of each other.

| Component | Source | State it keeps | Operations |
|---|---|---|---|
| Session sandbox manager | `internal/sandbox/session_manager.go`, `internal/api/handlers/sandbox.go` | a map from session to sandbox under a mutex, a singleflight group; the sandboxes themselves | GetOrCreate, the file and shell calls, Sync, Destroy, Cleanup (ticker), Shutdown |
| Session files | `session_manager.go`, `internal/api/handlers/sessions.go`, `internal/store/sessions.go` | files in the sandbox, an object and rows per file, the row of the session | mount, write, append, sync, destroy, keep the output of a run, delete a file or a session |
| Skill intake, versions, review | `internal/api/handlers/skill*.go`, `internal/store/skills.go`, `internal/registry/registry.go` | rows with a status and an active pointer, a block list; archives under a pending and a promoted prefix | upload, edit, install, activate, approve, decline, block, reopen, delete |
| Scan worker | `internal/scanner/worker.go` | a bounded channel of jobs | Submit, recovery at startup, process a job |
| Scanner pipeline | `internal/scanner/scanner.go`, `stage_*.go`, `pattern_loader.go`, `zipcheck.go` | the compiled patterns under a read-write lock, the semaphore of the LLM stage | Scan, SetCustomPatterns |
| One-shot execution | `internal/runner/runner.go`, `cleanup.go`, `internal/store/executions.go` | a semaphore; an execution record; one sandbox per execution | Run, CleanupOrphans |
| Version arithmetic and difference | `internal/skill/skill.go`, `internal/api/handlers/skill_diff.go` | none | compare, bump, diff |
| File versions | `internal/store/files.go`, `internal/api/handlers/files.go` | rows with a parent, objects | upload, update, delete, download, list versions |
| Startup backfill | `internal/backfill/skills.go` | rows, approvals and archives of the legacy version | copy, rename, delete; active pointer |
| Approvals, invites, users, groups, keys, scanner configuration | `internal/api/handlers`, `internal/api/middleware`, `internal/store` | rows of a tenant | authenticate, check tenant and role, ask, review, redeem, change a role, edit groups, configure |
| API plumbing, CLI, SDKs, web front end, documentation | | none on the server | |

How they meet:

- intake writes an archive and a row, then passes a job to the worker through
  the channel; the worker, the approve handler and the activation endpoint all
  write status, archive and pointer of the same version, in separate calls;
- the worker scans with the pipeline, whose patterns an administrator replaces
  while scans run;
- an execution reads the status once and the archive later, while reviewers and
  owners change both; its output files become session files;
- a deletion removes archives, then in one transaction executions and rows;
- requests of one session share a sandbox through the manager's map; the
  cleanup ticker and the shutdown take it away, after a sync whose rows fill the
  next sandbox of the session;
- a starting instance deletes every sandbox that carries the label of an
  execution (`cleanup.go:20`; a session sandbox carries another,
  `session_manager.go:184`), and migrates the legacy versions while another may be doing the same;
- a request is checked (key or token, tenant, role) and then handled, in separate
  database calls, so the checks may be out of date when the handler writes.

What is hard here: the manager, the worker and the handlers act on what they
read before a lock was released or a remote call was made; almost nothing that
spans two services or two statements is a transaction; errors are often logged
or dropped and the work goes on; jobs live in memory while their rows survive;
every remote call can time out after having taken effect. `PROJECT.json` lists
these places under "hazards", each at its line, with the properties that cover it.

What makes each component correct:

- *manager*: a session has one sandbox and no other session's; nothing is lost
  from the map except by a named path; the limit holds; requests are answered;
- *session files*: an acknowledged write stays in the file, what a sync stored is
  in the next sandbox, a deleted session leaves no rows;
- *intake, worker, review*: nothing unscanned and unapproved is promoted; an
  available version can be run; a version that waits for its scan gets an
  outcome; an edit never replaces a version; a decision stands;
- *pipeline*: a failure of a stage never means clean; both tiers use one set of
  patterns; what a tier leaves to another is caught there; scans and reloads never
  wait for each other for ever;
- *execution*: no return path leaks a sandbox, a slot or a running record; a
  withdrawn version does not run; orphans are collected and only orphans;
- *file versions*: a row has its own object, an object has a row, the versions of
  a file are one tree;
- *backfill*: wherever a server dies, a row keeps its archive and an approval its row;
- *approvals and the rest*: the two writes of an approval agree, a review is by an
  administrator of the tenant, a code serves once, no update is lost.

## 2. The modules

| Module | Models | Composes |
|---|---|---|
| `SandboxPool` | what the manager promises: the sandboxes of a session start, serve and retire one at a time | |
| `SessionManager` | the session sandbox manager and its callers | implements `SandboxPool` |
| `FileTable` | the table `sandbox.files` as operators | |
| `SessionFiles` | the files of one session in sandbox, object store and table | uses `FileTable` |
| `FileVersions` | the endpoints of `/v1/files` | uses `FileTable` |
| `SkillLifecycle` | intake, worker, review, activation, deletion of one skill | |
| `ScanStages`, `EditDistance` | what the stages find in an archive; the distance of two names | |
| `ScanPipeline` | scans and reloads under the lock, the slots and the timeout | uses `ScanStages` |
| `Runner` | executions of one version on several instances, orphan clean-up, withdrawal and deletion of the version (whose details are in `SkillLifecycle`) | |
| `Versions`, `LineDiff` | version arithmetic; the difference of two versions | |
| `Backfill` | the migration at the start of several servers | |
| `Access` | the checks of a request and the handlers of a tenant's books | |
| `MC...` | instances for TLC: symmetry sets, enumerated archives and callers; `MCBackfill` also picks the inputs of `Versions` and `LineDiff` | |
| `..._proofs` | the theorems about `SessionManager`, `SkillLifecycle`, `Runner`, `ScanPipeline`, `FileVersions`, `SessionFiles`, `Backfill`, `Access` | |

One step is one critical section, one SQL statement or transaction, one call to
the object store or OpenSandbox, or one channel or lock operation: the grain at
which the code can be interrupted. A goroutine has a program counter (`pc`) whose
labels name the next such call, and variables for the locals it carries over
(`held`, `req`, `todo`, `ver`, `arc`, `act`, `outcome`). Reads that only feed the
next choice of the same handler are merged into one step where a change in
between gives nothing that a later interleaving does not give too.

Remote calls succeed, fail, or (when it matters) succeed with their answer lost.
The constant `Faults` says which services may fail, so that a run can tell a race
from a failure. In `SessionManager` every call may fail in every run.

*History variables* (`forsaken`, `left`, `stuck`, `barred`, `cleared`, `hollow`,
`contested`, `dropped`, `lost`, `severed`, `blurred`, `unmounted`, `outlived`, `raced`,
`mixed`, `smooth`, `halfDone`, `overruled` ...) record that a named path was
taken; no guard reads them. They let a property say "except by these paths": the
property then holds, and every exception is a path in the code that can be
looked at.

Definitions marked `Mutant:` are not part of the models. Each is a plausible bug
in the definition that follows, which the property it is meant for detects.

### SessionManager

`sessions` is `sm.sessions`, `flight` the singleflight group, `idle` the cached
sandboxes whose `LastUsedAt` is older than the idle limit, `remote` and `owner`
what OpenSandbox knows. `GetOrCreateStep` is GetOrCreate: the look-up under the
lock, the ping outside it, the unconditional removal of the stale entry, the
singleflight and in it `createSandbox` (re-check, create, wait, insert).
`UseStep` is the operation that follows, `RemoveStep` is Destroy and
syncAndRemove, `ReaperStep` the loops of Cleanup and Shutdown. `Die` is the
outside: a container's expiry or crash. A
sandbox a request has just touched is not idle while the request still holds it
(`BecomeIdle`): the limit is 30 minutes and a call takes 30 seconds at most. A
`Key` is a session of a tenant. The code joins the two with a colon
(`tenant:external`), which tells sessions apart only as long as no tenant id has
a colon in it; `SandboxBelongsToSession` is under that assumption.

### SessionFiles

The same sandboxes seen from one session's files: `box` is the cached sandbox with
its files, `objects` the object store, `table` the rows, `session` the row of the
session. A file is the sequence of pieces written to it. `Mount` fills a new
sandbox from the rows `CreateBox` listed, newest first and at most `ListLimit` of
them, leaving out what a failure of the object store or the sandbox keeps out of
it (`MayLeaveOut`: each file by itself, or the whole upload); `AppendRead` and `AppendWrite` are the two calls of an append, whose write follows whatever the read met; `Search` to
`Record` are a sync, file by file; `Persist` is what a run keeps; `Find` to
`Forget` delete a file or the session. Creation and eviction of the sandbox are
one step each, their interleavings being those of `SessionManager`. `acked` is
what the last completed sync stored, `written` what the sandbox acknowledged.

### FileTable and FileVersions

A table is a sequence of rows in the order of `created_at`. The two recursive
queries of ListFileVersions are the least sets closed under parents and under
children. In `FileVersions` `held` is the row a request has read or will write,
`objects` maps a key to the request that wrote its content. The key of an update
is derived from what it read (`VersionKey`), so two updates may write the same
object; `contested` records that, `forsaken` and `severed` record failures.

### SkillLifecycle

`status`, `uploaded`, `active`, `blocked` are the rows; `pending` and `main` the
two prefixes of the object store; `queue` the worker's channel. Versions are
naturals in the order of minting. An archive is a model value and the verdict of
the scan is a choice. `ReviewSkill` is several statements without a transaction
and is modelled so; `SetActiveVersion` is a transaction at READ COMMITTED, so its
read and its write are two steps. A crash loses the channel and the goroutines
and keeps rows and archives; a restart runs the backfill of the active pointer
and the recovery of jobs.

### ScanPipeline, ScanStages, EditDistance

An archive is a set of files of which the stages' branches are kept: kind, size,
binary or unreadable, the patterns that match, the packages declared. A
declaration has a *form*, because the two tiers cut a manifest into names in
different ways (`Tier1Names`, `Tier2Names`): what one of them reads may be
hidden from the other, or from both. A name is a sequence of characters, each
with its script and its bytes (`UTF8`); the distance is one of bytes, as Go's
`len` and index are, so that one accented letter may be two edits. Whether a
regular expression matches is an input; what the LLM says is a choice. A scan
takes the read lock (`RLock`), runs the tiers, may wait for a slot (`AcquireSlot`,
`SlotTimeout`), and is recorded at `unlock`; a reload announces itself
(`Announce`), drains the readers, and replaces the tiers in two assignments
(`SwapTier1`, `SwapTier2`). The lock is Go's RWMutex: a waiting writer keeps new
readers out, and an unlocking writer lets in those that waited. `Misspelt` is the
reference for the distance in two rows: the names within one and two edits, by
definition of an edit of bytes.

### Runner

`server` is the life of an instance, `sem` the semaphore, `record` the execution
row, `filed` whether file rows refer to it, `sandbox` what OpenSandbox knows.
Deferred calls are steps of their own in their order: sandbox, record, slot.
`skill` and `archive` are the version as the gate and the loader see them, and
are changed by the steps of a reviewer, an uploader and a deletion at any time.

### Backfill, Versions, LineDiff

`Backfill` is the pass of main.go call by call: list, check, copy, rename (one
transaction over the row and the approvals that name it), erase both prefixes,
activate. `Init` is every database a server from before the migration can have
left: no foreign key ties an approval to a row, so an approval may name "latest"
(`approvals.go:43`), or a version that is no row of its own tenant because the
skill is another tenant's. `Repointed` moves those of one tenant and skill.
`Versions` computes with the greatest int (`MaxInt`), with numbers beyond it
and with malformed versions; `LineDiff` is the table of common
subsequences, filled row by row from the last (`CommonRow`), the walk through it
(`Advance`, a line a step) and the difference of two archives.

### Access

A request is a process: `Authenticate` finds the tenant of a credential and a
header, `RequireRole` reads the role, `Handle` is one database call of the
handler, two for a review (`UpdateApprovalStatus`, `ApproveSkillForTenant`) and
for a partial update (`ReadConfig`, `UpsertScannerConfig`). `RevokeKey` happens
at any time. `menu` bounds the operations of one behaviour: only handlers of the
same tables can meet, so they are drawn together. `Books` and `Named` are what
the tenant checks are there to protect; the handlers that go by an id alone
(DeleteGroup, AddUserToGroup, RemoveUserFromGroup, UpdateUserRole, redeeming a
code: `groups.go:121`, `:159`, `users.go:91`) ask for no tenant, in the model as
in the code.

## 3. What is checked

Bounds are in the `.cfg` files.

| Run | Properties | Bounds, and distinct states |
|---|---|---|
| `session_safety` | InsertNeverOverwrites, SandboxBelongsToSession, LiveSandboxAccountedFor, CapacityOvershootBounded | 2 requests, 3 sessions, 3 sandboxes, limit 1, shutdown; 0.98M |
| `session_live` | ImplementsPool, RequestsAnswered | 2 requests, 1 session, 2 sandboxes, cleanup; 46k |
| `session_files` | AppendsKept, RowsFollowSession, RestoresSynced | 3 requests of every kind, 2 names, list of 2 rows, database, store and sandbox failing, 1 expiry; 2.1M |
| `skill_safety` | PromotedIsCleared, AvailableHasArchive, WaitingIsTracked | 1 request at a time of all nine kinds against the worker, 2 archives, 1 version, both services failing, 1 crash; 2.8M |
| `skill_live` | EditsAreNewVersions, WaitingIsSettled | 1 request (upload, edit, decline for ever), 3 archives, 2 versions, 1 crash; 0.58M |
| `skill_overwrite` | EditsAreNewVersions, *violated* | 2 requests (upload, edit) |
| `scan` | PassedIsClean, BadPackagesBlocked, OverlayInForce, MisspeltReported, NothingLeaks, EveryoneReturns | 2 scans, 2 reloads, 7 archives, 2 overlays, 1 slot; 85k |
| `run_safety` | LiveSandboxIsOwned, SandboxesBounded, RunningIsTracked, FinishedHasNoSandbox | 2 executions, 2 instances, 1 slot, 1 crash, all services failing; 1.1M |
| `run_live` | WithdrawnNeverRuns, RunsReturn, OrphansCollected | 2 executions, 1 instance, 1 slot, 1 crash, services working |
| `files` | RowHasItsObject, ObjectAccountedFor, VersionsTree | 3 requests of every kind, 2 tenants, 1 name, both services failing, 1 crash; 47k |
| `access` | ApprovalTakesEffect, RedeemedOnce, ConfigIsLastSet, ReviewsByOwnAdmins, BooksKeptByOwn | 3 arrivals, 2 requests at a time, 2 tenants, 3 users, 2 keys, five menus of operations; 1.6M |
| `backfill` | RowsKeepTheirArchive, ApprovalsFollowRows, SmoothPassMigrates; EditsMoveUp, DiffsAreExact | 2 servers, 2 skills, both services failing, 1 crash, from every initial database with up to two approvals of one skill; all version sets of up to three of 14 versions, all pairs of texts of up to three lines; 2.1M |

What the passing runs show beyond the sentence of each property:

- the exceptions are complete: the sandboxes, archives, objects, records and rows
  that get lost are those of the named paths, and of no other interleaving;
- the singleflight and the re-check in it are both needed and suffice
  (`InsertNeverOverwrites`); the capacity is exceeded by at most one sandbox for
  every other concurrent request (`CapacityOvershootBounded`);
- the tenant checks of the middleware and of the handlers together keep a
  tenant's books to its own users and keys (`BooksKeptByOwn`), except for the
  handlers that go by an id alone;
- an approval that names a row follows it through the migration and is not moved
  to another (`ApprovalsFollowRows`), whatever else the table holds;
- the order of intake (archive, row), approval (promotion, then status) and
  deletion (archives, then rows) leaves every state recoverable that the code
  claims is, but for an approval whose promotion failed;
- the lock of the pipeline, although held over the wait for the LLM slot, lets
  everybody through as long as a scan has a deadline;
- the two recursive queries return the whole file from any of its versions;
- the migration can be repeated, and run twice at once, after a death anywhere.

**What an exception hides.** A property that reads "unless ..." says that nothing
*else* goes wrong; the outcome it excepts does occur in the code, and is
reached by the model:

| History variable | The outcome it excepts | In |
|---|---|---|
| `forsaken` (SessionManager) | a replacement dropped with the stale entry (`session_manager.go:106`), a sandbox whose creation answer was lost | LiveSandboxAccountedFor |
| `left`, `stuck` (Runner) | the same lost answer; the record of an instance that died | LiveSandboxIsOwned, RunningIsTracked |
| `contested` (SkillLifecycle) | a version submitted again while somebody has it in hand | PromotedIsCleared |
| `hollow`; `dropped`, `lost` (SkillLifecycle) | an approval whose promotion failed, a deletion under way; a job that met a full channel or a failed status write | AvailableHasArchive; WaitingIsTracked, WaitingIsSettled |
| `contested`, `forsaken`, `severed` (FileVersions) | two updates that share a key; lost answers and failed undos | RowHasItsObject, ObjectAccountedFor |
| `raced`, `outlived`; `unmounted`; `blurred` (SessionFiles) | an object of two writers, a session in use while it was deleted; a file a failing service kept out of a mount; an append that overlapped a write or could not read | RowsFollowSession, RestoresSynced; RestoresSynced; AppendsKept |
| `halfDone`, `overruled`, `raced` (Access) | a failure between the writes of an approval; a rejection over an approval; one configuration over another | ApprovalTakesEffect, ConfigIsLastSet |
| `mixed` (Backfill) | a legacy version in review beside an older promoted archive | RowsKeepTheirArchive |

**Why these bounds.** Every race in this code is between two goroutines over one
key (a session, a version, a slot, a row), so two requests and one key show it;
the third is there where something is changed twice behind a reader's back
(`files`, `session_files`, `access`). The second session, tenant or version shows
that neighbours are not touched, the third session overshoots the limit by more
than one key. Two sandboxes are the old and the new one. A channel and a semaphore
of capacity one are full after one; a list of two rows is cut off by the third.
One crash is enough because nothing in memory survives it. In `SessionManager`,
`SkillLifecycle` and `ScanPipeline` goroutines serve requests one after another
without a bound; archives, sandbox ids and crashes are bounded. Elsewhere a
request or an execution is served once. The runs with symmetry check no liveness.

**Fairness**, in the runs of liveness only: every goroutine that is not waiting
for another takes its next step, because every remote call has a deadline (2s for
a ping, 2 minutes for a creation, 30s for the HTTP clients and the deferred
deletion); the worker and a dead instance are started again by the platform;
waiters on a channel are served in order. In `ScanPipeline`, that the context of
a scan ends is fair because it has a timeout, and that a reload gets the lock is
strongly fair because Go's RWMutex queues its writers on a mutex that hands itself
over to one that has waited long. Nothing forces a request to arrive, a reviewer
to act, a sandbox to die or a server to stop.

Two runs turn off the deadlock check: in `skill_live`, when the archives are used
up nobody has anything left to send, and in `session_safety` a server that has
shut down stops.

### Where the code and what it says disagree

`skill_overwrite` shows that two concurrent edits mint the same version and one of
them is lost, against "never overwrites a prior one" (`store/skills.go:284-286`);
for one request at a time the property holds (`skill_live`).

The other disagreements met while modelling; most are behaviours of the models
(the history variable that records them is named), some are outside them.

*Sandboxes and sessions*

- the stale path of GetOrCreate drops the entry of the moment, which may be a
  healthy replacement (`session_manager.go:106`, `forsaken`); Cleanup removes a
  session used since it was collected (:656); Destroy deletes a sandbox other than
  the one it synced (:740); a request in flight leaves a sandbox behind after the
  shutdown (`main.go:205`, `left`);
- the limit of session sandboxes (`config.go:48`) is exceeded when two sessions
  create at once;
- a starting instance deletes the sandboxes of executions another is running
  (`cleanup.go:20`);
- Sync answers success although every file failed, and a mount that could not
  read a file goes on without it and without telling the session (`unmounted`); a file emptied or removed in
  the sandbox comes back with the next one, since only non-empty files are synced;
  every sync adds rows of the same names, of which DeleteFile removes the newest
  and the mount reads at most 200 (`RestoresSynced`); appending takes any read error for
  an empty file (`blurred`); deleting a session leaves its sandbox, which writes
  the rows again (`outlived`).

*Skills*

- the worker's outcome overwrites a decision made during the scan
  (`store/skills.go:366`, whose comment speaks of optimistic locking); an
  activation racing a decline leaves a declined version active (:491);
- deleting a version whose executions left files erases its archive and keeps its
  row, the error being dropped (`handlers/skill.go:923`); an archive promoted
  while its version is deleted stays without a row;
- a job that met a full channel is not "recovered on next poll" (`worker.go:96`)
  but at the next start (`dropped`); with the scanner disabled uploads stay
  pending for ever;
- a failed promotion after an approval leaves an available version without an
  archive (`skill_review.go:61`, `hollow`); the comment of ReviewSkill lets
  decline_forever start "any"where while `allowedFrom` lists five of six statuses;
- `CreateFromFields` says an existing version is replaced while intake is
  append-only.

*Scanner*

- Tier 2 skips the packages on the block list as "handled by Tier 1"
  (`stage_deps.go:93`), which they may not have been: Tier 1 does
  not cut a line of requirements.txt at `;` and `@` as Tier 2 does
  (`stage_patterns.go:208`, `stage_deps.go:348`), and does not open pyproject.toml
  although `stage_patterns.go:167` says so. The archive `sudo` of `MCScanPipeline`
  declares a listed package in both ways, and passes. `BadPackagesBlocked` holds
  for the forms Tier 1 reads and says which;
- neither tier reads `dependencies = [...]` under `[project]`
  (`stage_deps.go:138`), a name behind the first megabyte or, in Tier 2, a name on
  the line that opens the dependencies of a package.json (:230); the distance of
  two names is one of bytes (:397), so a letter outside ASCII counts more than
  once. `MisspeltReported` speaks of the forms Tier 2 reads, and of bytes;
- "no findings, accept immediately" (`scanner.go:152`) happens after Tier 2 only;
  flags a benign verdict clears (`stage_llm.go:373`) stay in the findings;
- any reload drops the patterns file given at startup (`reloaded` in
  `OverlayInForce`), and a feed that cannot be read at a reload (`scanner.go:116`)
  is left out of the new patterns with a warning; the wait for the read lock is not
  under the scan's timeout.

*Executions*

- the gate says it is fail-closed (`runner.go:112`) and goes on when the status
  cannot be read, so `WithdrawnNeverRuns` is checked with a working database;
- an execution whose context ends while it is prepared is recorded as failed and
  not as a timeout (`runner.go:85`); one that passed the gate before a deletion
  inserts a record of a version that is gone (`store/skills.go:580`); the HTTP
  client's 30 seconds cut a longer command short, recorded as failed; nothing
  finishes the record of an execution whose instance died (`stuck`);
- a memory limit that does not parse is passed on as it is (`runner.go:185`)
  although `config.go:38` speaks of a hard cap.

*Files, access, migration, versions*

- updates of two uploads of one name derive the same key, both having no
  execution, as do two updates of one version (`contested`);
- a rejection written after an approval leaves the skill on the approved list
  (`overruled`), and a failure between the two writes leaves the status approved
  without it (`halfDone`); a code can only be redeemed by a user already known,
  although the message of authenticateJWT says to redeem one first; nothing sets
  `expires_at`;
- RenameSkillVersion moves "any approval rows that pinned the old version"
  (`skills_backfill.go:48`) of the skill's own tenant; the approvals another tenant
  has of a public skill go on naming 0.0.0, which so far nobody notices, since the
  marketplace looks them up by name (`marketplace.go:87`);
- a death or a failed deletion after the rename leaves the legacy archive for
  ever, "a later boot retries what's left" notwithstanding: the next pass finds no
  row to start from; a legacy version in review beside the promoted archive of an
  earlier declined upload loses its pending archive (`mixed`);
- (outside `EditsMoveUp`, whose left side asks for numbers that fit) the patch number wraps at the greatest int to a version that does not parse, and
  one beyond it leads back to 1.0.0; a malformed version on the block list counts
  as 0.0.0 and freezes everything; NextFreeVersion ignores a failing list of
  versions; the difference takes an unreadable base for an empty one.

## 4. What is proved

By TLAPS, for any value of the constants:

| Theorem | States |
|---|---|
| *`SessionManager_proofs`* | |
| `TypeCorrect` | `TypeOK` |
| `NeverOverwrites` | `InsertNeverOverwrites` |
| `SandboxesStayWithTheirSession` | `SandboxBelongsToSession` |
| `NoOtherLeak` | `LiveSandboxAccountedFor` |
| `OvershootBounded` | `CapacityOvershootBounded` |
| `RefinesPool` | `ImplementsPoolSafety` (the safety part of `ImplementsPool`) |
| *`SkillLifecycle_proofs`* | |
| `TypesHold` | `TypeOK` |
| `NothingUnclearedIsPromoted` | `PromotedIsCleared` |
| `AvailableCanRun` | `AvailableHasArchive` |
| `NoJobForgotten` | `WaitingIsTracked` |
| `EditsAreNewAlone` | `EditsAreNewVersions`, for one request at a time and when `"db" \notin Faults` |
| *`Runner_proofs`* | |
| `TypesHold`, `SlotsAreHeld` | `TypeOK`, and that the semaphore counts the executions with a slot |
| `NoSandboxLeaks` | `LiveSandboxIsOwned` |
| `RecordsAreUpdated` | `RunningIsTracked` |
| `FinishedAfterDeletion` | `FinishedHasNoSandbox` |
| `SlotsBoundSandboxes` | `SandboxesBounded` |
| `GateHolds` | `WithdrawnNeverRuns`, when `"db" \notin Faults` |
| *`ScanPipeline_proofs`* | |
| `TypeCorrect` | `TypeOK` |
| `FailsClosed` | `PassedIsClean` |
| `OneOverlayInForce` | `OverlayInForce` |
| `EverythingReturned` | `NothingLeaks` |
| `BlocklistHolds` | `BadPackagesBlocked`: for the declarations Tier 1 reads |
| `MisspeltCaught` | `MisspeltReported`: for the declarations Tier 2 reads, in bytes |
| `DistanceIsEdits` | that `levenshtein` is the least number of edits of bytes, for names of every length |
| *`FileVersions_proofs`* | |
| `DownloadsWhatWasUploaded` | `RowHasItsObject` |
| `NothingLeftBehind` | `ObjectAccountedFor` |
| `VersionsListed` | `VersionsTree` |
| *`Backfill_proofs`* | |
| `NoArchiveLost` | `RowsKeepTheirArchive` |
| `ApprovalsFollow` | `ApprovalsFollowRows` |
| `SmoothPassesMigrate` | `SmoothPassMigrates` |
| `EditsMoveUpAlways` | `EditsMoveUpFrom`, for every active version, finite set of taken versions and block list, as long as the numbers fit an int |
| `DiffAlwaysExact` | `DiffIsExact`, for every two texts |
| `PatchedAlways` | that `Patched` undoes `SkillDiff`, for every two archives |
| `EditsMoveUpHolds`, `DiffsAreExactHolds` | `EditsMoveUp`, `DiffsAreExact`: the two of the run, from `MCBackfill` |
| *`Access_proofs`* | |
| `TypeCorrect` | `TypeOK` |
| `AllRequestersKept` | that everyone whose request was answered is on its one row; one statement writes it, so no run checks it |
| `ApprovalsTakeEffect` | `ApprovalTakesEffect` |
| `CodesServeOnce` | `RedeemedOnce` |
| `BooksKeptApart` | `BooksKeptByOwn` |
| `PartialUpdatesKept` | `ConfigIsLastSet` |
| `ReviewedByOwnAdmins` | `ReviewsByOwnAdmins` |
| *`SessionFiles_proofs`* | |
| `AppendsAreKept` | `AppendsKept` |
| `RowsFollow` | `RowsFollowSession` |
| `SyncedIsRestored` | `RestoresSynced` |

The assumptions are the named ones in the modules: that requests, executions,
scans or archives are finitely many, that capacities and limits are positive, that
`None` and the names of the background goroutines are no other value, and in
`FileVersions` that the rows there are at the start have ids and keys of their own;
in `SessionFiles` that finitely many names are stored at the start. `ScanStages`
and `ScanPipeline` ask that a package name is a sequence of the characters whose
script is known, whose bytes tell any two names apart, as UTF-8 does
(`NameAssumption`) and that every pattern set names packages so
(`PatternsAssumption`); `Versions` that a malformed version is no parsed one
(`MalformedAssumption`).

**SessionManager.** `TInv` adds to `TypeOK` what the type of a local depends on: which
labels have a key in `req` and a sandbox in `held`. `FInv` says that whoever is
inside the singleflight is the one the flight of its key is registered for
(`LeadersRegistered`); without it `InsertNeverOverwrites` is not inductive, since
two leaders of one key could both pass the re-check. `OInv` says whose sandbox
every goroutine holds, and that an unborn sandbox has no owner yet, without which
a creation could change the owner of one in use. The leak theorem needs only the
types and that a held sandbox was born. For the capacity, the set `Claimed` of
keys that are cached or that a request has passed the check for is counted
instead of the map: passing the check is the only step that makes it grow
(`OnlyMissClaims`), at a time when the map is below the limit and the other
claims are at most one per other request. Dropping the stale entry after a failed
ping turns a cached key into a claimed one, which is why recreation without a
check does not add to it. The refinement maps a sandbox to the stage it is in
(`Stage`), and needs `FInv` and `OInv` to see that a session that asks for a
sandbox has no other.

**SkillLifecycle.** `TInv` says which labels have a version and an archive at
hand (`Located`); that the channel holds needs the recovery to take no more jobs
than fit. `PromotedIsCleared` is not inductive: `ClearInv` adds that whoever is
about to promote (in `copy`, or approving in `block`) finds an archive that was
cleared (`Vouched`), and that the worker scans the archive that is pending. It
survives a second submission because that one is recorded in `contested` whenever
somebody has the version in hand. `AvailableHasArchive` needs `RunInv`: what the
worker is about to call available can be run, which a deletion in between can
undo only by making the version `hollow`, and keeps it so as long as another
goroutine works on it. `WaitingIsTracked` is inductive with the types; the work
is in the channel, whose elements survive an append, a take and a recovery.
`EditsAreNewVersions` fails with two requests, and with a listing that fails. For a
request that is alone the invariant is `Unwritten`: from the choice of its number
to the write of its row an edit finds none there. Nobody else gives a row to a
version without one, neither the worker nor a review, which write a status over a
status only (`RowlessStays`); a crash forgets the request.

**Runner.** That a slot given back was taken is the type of `sem`, and needs the
count: `SlotsCounted` says that `sem[s]` is the number of executions between
`Acquire` and `Release` at `s` (`Holders`), and `Placed` that they are exactly the
ones with an instance. `OwnInv` adds to the leak properties when an execution has
a record and of which status (`RecordFollows`); a finished record then belongs to
an execution past its deferred deletion. The bound on sandboxes follows from
ownership and the count. For the gate, `GateInv` says that nobody is barred while
the version is available, and that a barred execution that got past the gate all
the same, because the context ended or the row was gone, has a context that is
over or finds no archive: only `Publish` brings an archive back, and it lifts the
bar.

**ScanPipeline.** `PassedIsClean` compares what a scan found some steps ago with the
patterns of now, so the invariant has to carry the lock: `LockInv` says who holds
it, in particular that no scan reads while a reload swaps. `PatternsInv` says
which patterns the tiers have in each state of a reload. `VerdictInv` then says
of every scan what its `findings` are at each label *under the patterns in
force*; a swap keeps it because nobody is at such a label then, every other step
because it leaves the patterns alone. The stages are not opened: the theorem
holds for any definition of what a tier finds. `SlotsInv` is the count of the LLM
slots. The two theorems about packages do open them. An archive that passed was
looked at by both tiers under one set of patterns (`PassedUnderOne`), so each
manifest's findings follow from the stage that reads it: for `BadPackagesBlocked`
Tier 1, on which Tier 2 relies, under the blocklist in force and not the one the
scan began with. `MisspeltReported` compares that with edits, so it needs what the
two rows of `levenshtein` compute. They run through the table of all pairs of
prefixes, whose neighbouring values differ by one at most; a single edit of one
name therefore moves the corner by one at most, whether it inserts, deletes or
replaces, and by induction on the edits a name within *n* of them has a corner of
*n* at most (`WithinMeansNear`). The corner is 0 for equal names only, so a
misspelt name is at distance 1 or 2 as the code computes it. All of this is
about the bytes of the names (`BytesOfName`), and about the declarations in the
forms Tier 2 reads. The swap of the two
names, when the first is longer, is sound because the table is symmetric. That
nothing further away is taken for misspelt (`DistanceIsEdits`) is the converse: each
of the three ways to a place of the table is an edit at the end of a prefix, or
none, so along the table as many edits lead from the one prefix to the other
(`TableReaches`).

**FileVersions.** `IdsInv` says that ids are distinct, that a request that has yet to
write has no row, and that the row a deletion holds is still the one of its id.
`KeysInv` looks at two users of one key, a row and a request or two requests: they
are the same request, the answer of the insertion was lost, or the key is
contested, which `PutObject` records; without it neither property is inductive,
since a deletion could take the object of another. `TreeInv` is one level deep, as
NextVersion hangs an update under the root of what it read, and the foreign key
keeps a root with children. The least sets of ListFileVersions are then the row
and its root (`Ancestry`), and the root and its children (`Descent`).

**Backfill.** A server about to rename has copied the archive (`Copied`), and one
about to erase has no legacy row before it (`ErasesAfterRename`). The steps and
deaths of the other servers cannot undo either, since nothing removes an archive
of the target version and nothing brings a legacy row back. `MixedKnown` keeps the
exception. An approval follows its row step by step (`ApprovalsStep`): the rename
moves the row of a version and the approvals that name it together, and it fails
where a row is in the way. For the pass, `Remaining` says that a smooth server's list has every
skill left to migrate, and `ActiveAtServing` that an active version stays one.

**Versions and LineDiff.** Neither has steps, so these are inductions over data. An
induction theorem of the library takes a predicate as an operator, which the
provers here do not instantiate; they do take a set. Each induction is therefore
over the set of the numbers at which the claim fails, which has a least element
(`LeastOf`, from the well-foundedness of the naturals), and a recursive function is
first shown to exist by building its values upwards (`StepByStep`, `Upwards`).
For the versions: as long as the patch number cannot reach the greatest int, the
*k*-th bump adds *k* to it (`FreeIsBump`), so the bumps are distinct, one of the first
`Cardinality(taken) + 1` is not taken, by counting, and all compare above the
version they start from, whatever their prerelease. A frozen version stays so
because the comparison is transitive. For the difference: the walk of `lineDiff` is
at most `Len(a) + Len(b)` steps, and after each what it wrote reads as the lines
passed of either text, while the lines kept and the table at its place add up to
the corner of the table (`Walking`); at the end both texts are passed. That the
corner is the length of a longest common subsequence (`CornerIsLongest`) takes two
inductions over the table, for matches of the rests of both texts that keep the
order: none is longer than the place says (`NoLongerMatch`), because one that pairs
two first lines that are equal is one longer than a match of what follows and any
other passes over a first line; and there is one as long (`MatchAsLong`).

**Access.** `RequestsInv` says what a request has in hand at each label. In `ApprovalsInv`
rows are never removed (`RowsStay`), what is listed has a row, and a reviewer
between the two writes finds the status approved or the approval overruled
(`Approving`). `AdminsKnown` keeps track of who has been an administrator since
its request came, and gives the action property for the step of a review. For the
configuration, a copy that has not been overtaken agrees with the row in every
field it does not name. `ActsForItsTenant` says that a request past the checks has
a tenant its credential owns; `BooksKeptByOwn` follows from it by going through the
handlers: only seven change a book (`BooksChange`), each changes that of its
request's tenant and no other (`WritesOwnBooks`) -- for a review and a group this
is the comparison in the handler, not in the middleware.

**SessionFiles.** Five invariants on top of the types, which also say that the id
of a row has its name in it. `HeldKept`: what an append has read has every
acknowledged piece. `Unborn`: a row that a request may still insert (`MayWrite`)
is neither in the table nor in a list somebody has at hand; without it a stale
list could delete a row inserted since. `HistoryTrue`: between upload and row the
object is what the writer holds, and a file that is called stored has a row that
no deletion in progress is about to take (`Safe`) for its name; this is the
strengthening of the second half of `RowsFollowSession`, which a `DeleteRow`
alone could break. `Sessions`: rows, the sandbox and writers know the session
there is or one that is noted, nobody knows one that is still to be created, and
a deletion that is not noted has every row of its session at hand
(`DeletesAll`), so that `Forget` finds none left. `Mounts`: a file that was stored
when the rows were listed is in the list, or the list is full. That a list which
is not full has all rows (`Listed`) is a count: the places of the rows and their
ranks from the newest are in bijection (`EveryRank`).

**Only model-checked.** Liveness under fairness, which the prover does not do
(`RequestsAnswered`, `ImplementsPool` as a whole, `WaitingIsSettled`,
`EveryoneReturns`, `RunsReturn`, `OrphansCollected`). Of these the safety part of
`ImplementsPool` is proved (`RefinesPool`). Every safety property and action
property of the passing runs is stated by a theorem; the two that hold under a
condition only (`GateHolds`, `EditsAreNewAlone`) name it.

## 5. What is not modelled

Parsing, packing and unpacking of archives, whether a regular expression matches,
the HTTP encoding of remote calls, the parsing of the configuration (among it
quantities such as "512Mi"), logging, CORS, health endpoints, the counters of the
scanner, the command-line client, the SDKs, the web front end. They either keep no
state on the server or talk to the outside; `PROJECT.json` gives the reason for
each. Read-only endpoints are left out, but for those whose answer a property is
about: list and download of files, the approval state a marketplace page shows,
the difference of versions. Store.UpdateFile, GetOrCreateUser and CreateKey have
no caller in the server. The OSSF feed is read without a failure; TouchSession
changes a time no decision depends on.

Limits of the models, to be kept in mind when reading a result:

- One skill per instance of `SkillLifecycle`; skills of different names share the
  channel only, which the model shows by its two versions. There is one server
  there: two would recover each other's jobs and scan a version twice.
- A session file over 100 MiB is cut off at a mount and at a sync
  (`maxSessionFileSize`); the files of `SessionFiles` are shorter.
- A tenant id with a colon in it, see `SessionManager` above.
- `UploadVersion` and `EditVersion` look at the rows in one step although the code
  reads the active version and the list of versions one after the other.
- `SessionFiles` has one session and one tenant; the creation of its sandbox is
  one step.
- `Backfill` has no server that serves: what another instance uploads or reviews
  during the migration is left out.
- The hazards without a property in `PROJECT.json` are those the code does not
  prevent: the models reach them, section 3 describes them.

## 6. Possible continuations

- `VersionLife`: an abstract specification of the life of a version (waiting,
  settled, promoted), implemented by `SkillLifecycle` up to its named exceptions.
- A composition of two instances over `SkillLifecycle`'s rows: recovery of one
  while the other works.
- A `SessionFiles` over `SessionManager` instead of its one-step creation.
