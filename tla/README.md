# Verification of the content platform's core

This directory holds TLA+ models of the parts of the platform that must not lose
or corrupt content: the Durable Object in which documents are edited, the way its
edits reach Postgres, the version table they are kept in, the edit sessions agents
and people reserve it with, the login transaction that lets people in, the jobs
that merge a branch and that take a new template to the pages made from the old
one, and the store of images. TLC checks the models on small instances; TLAPS
proves the invariants that matter most for instances of every size.

Paths beginning with `ccr` are under `src/workers/ccr/src`, those beginning with
`media` under `src/workers/p1-media/src`.

## 1. Inventory

The repository is a TypeScript monorepo around one Cloudflare Worker.

| Component | State | Operations | Interacts with |
|---|---|---|---|
| **Document session** `ccr/durable-objects/document-session.ts`, `postgres-sync-manager.ts`, `alarm-cleanup-manager.ts`, `websocket-connection-manager.ts`, `apply-operations.ts`, `crdt-endpoint-handlers.ts` | a Y.Doc, the hash last synced, pending actions, `contentLoadFailed`, the sync lock (memory); the Y.Doc's bytes, a persist flag, a sync schedule, one alarm (storage) | socket edit, `/apply`, `/flush`, `/sync`, last socket closes, alarm, reload | sync queue, internal API, Postgres |
| **Sync queue** `ccr/queues/sync-consumer.ts` | messages | send, consume a batch | sessions, version store |
| **Version store** `ccr/services/document-version-service.ts`, `checkpoint-publish.ts` | `app.document_versions` | create, restore, batch sync, direct insert, compaction, publish, replay | every writer of content |
| **Checkpoints** `ccr/services/checkpoint-service.ts` | checkpoints and their manifests | capture, publish, revert, prune | version store |
| **Login transaction** `ccr/durable-objects/broker-transaction.ts` | one transaction and one alarm; nonce claims | create, approve, redeem, get, claim, alarm | broker routes, the panel |
| **Agent edit sessions** `agent-politeness-handlers.ts`, `agent-kill-switch-handlers.ts`, `stopped-turns.ts`, `edit-session-store.ts` | open sessions with their regions, stopped turns | start, complete, abort, kick, stop, clean up orphans | checkpoints, flush, presence |
| **Baseline gate** `baseline-gate.ts` | per connection | open or close on state vectors | sockets |
| **Presence** `presence-manager.ts`, `websocket-presence-protocol.ts` | who is here | register, focus, time out | sockets, alarm |
| **Merge jobs** `ccr/services/merge-job-service.ts`, `merge-execution-service.ts`, `merge-publish.ts`, `ccr/routes/merge-job-api.ts`, `ccr/workflows/merge-workflow.ts` | a merge request, its jobs, a row per document | execute, plan, chunks, finalize, cancel, PATCH of the status | version store, checkpoints, the workflow engine |
| **Template migrations** `ccr/services/migration-service.ts`, `slot-delta.ts`, `ccr/routes/template-api.ts` | jobs, conflicts, a `synced_version` per page | trigger, process in batches, resolve, roll back | version store, checkpoints |
| **Branches and their invalidation** `ccr/services/branch-*.ts` | branch rows, a KV timestamp per branch | create, archive, invalidate | session reload |
| **Media worker** `workers/p1-media` | objects of R2, rows of D1, the edge cache | presign, PUT, finalize, promote, delete, sweep, reconcile, purge | D1, R2 |
| **Agent worker, MCP server** `workers/p1-agent`, `workers/ccr-mcp-server` | a chat turn | calls to the API | edit sessions |
| **Client packages** `packages/css-client`, `puck-css`, `p1-ai-chat`, `p1-next-sdk`, ... | the browser's replica and outbound queue | connect, send, reconnect | document session |
| **Apps, kits, infrastructure** `apps`, `terraform`, `docker`, `e2e` | configuration | | |

What makes it hard:

* **A session is a process that disappears.** Its memory goes at any await; only
  storage and the alarm survive. There is one alarm slot for three purposes.
* **Handlers interleave at network awaits.** While a handler awaits storage the
  runtime's input gate keeps others out; while it awaits the queue or Postgres
  they run.
* **Delivery is at least once, and sometimes less.** A send may fail after it was
  accepted, an insert may succeed and its answer be lost, a queue batch may come
  again, and a queued snapshot may be written after a newer direct one. A message
  whose actor does not resolve is left out of a batch that is acknowledged, and an
  insert that loses its version number is answered with the version that won.
* **The version table is edited by concurrent statements.** At READ COMMITTED a
  writer computes a patch from a row it read in an earlier statement, and
  compaction nulls snapshots while a publish may be pinning them.
* **Content is replaced underneath a session** by merges, reverts and migrations,
  after which it is told to reload.
* **Long jobs are made of short statements.** A merge, a migration or a purge is a
  series of transactions and calls; it may die between any two, some are run again
  from the start of a step and some never, and authors save meanwhile.
* **Two stores have no common transaction.** An image's row and its bytes are written
  and deleted one call at a time.

What makes each component correct:

* Document session: an edit accepted is owed until it is in Postgres; the debt
  survives evictions and always has an alarm; a session that did not load its
  document never writes it; a flush covers what it was asked for.
* Version store: a version replays for ever to what was written as it; nothing
  published is served from patches; the newest version has its snapshot; a save
  that answers is in the table.
* Login transaction: the first approval binds; a redemption that was answered can be
  repeated, and a logout nonce stays claimed, for its window; nothing stays behind.
* Edit sessions: an open one outlives evictions; no two overlap; a stopped turn
  neither edits nor opens one; one nobody closes is ended, and none comes back.
* Merge jobs: a request that says merged is merged whole, from one plan; a step run
  again writes nothing twice; what is published was checkpointed; no request is
  stuck.
* Template migrations: what an author did to a page survives, and what could not be
  merged is reported; a job accounts for every page; jobs end.
* Media: no row without its bytes, no bytes for good that nobody wants; a purge that
  says it is complete stays so.
* Baseline gate: no client of a diverged lineage is merged. (Not modelled.)

## 2. Modules

| Module | Models | EXTENDS / INSTANCE |
|---|---|---|
| `BrokerTransaction` | the login transaction and the logout nonce, with time, evictions and the alarm | |
| `BrokerTransactionProofs` | its theorems | `BrokerTransaction`, `TLAPS` |
| `VersionHistory` | abstract: an append-only list of contents | |
| `VersionStore` | the version table of one document and all its writers | `VersionHistory` by refinement |
| `VersionStoreProofs` | its theorems | `VersionStore`, `TLAPS` |
| `DocumentSync` | one document session, the queue, its consumer and the tip of the table | |
| `DocumentSyncProofs` | its theorem on sessions that did not load | `DocumentSync`, `TLAPS` |
| `DocumentSyncOwed` | its types, and its theorems on what is owed to Postgres | `DocumentSync`, `TLAPS` |
| `EditSessions` | the edit sessions of one document and its stopped turns | |
| `EditSessionsProofs` | its theorems | `EditSessions`, `TLAPS` |
| `MergeJobs` | one merge request, its jobs and both branches | |
| `MergeJobsProofs` | its theorems | `MergeJobs`, `TLAPS` |
| `MediaStore` | assets, versions, bytes, the edge cache, the hourly trigger and purges | |
| `MediaStoreProofs` | its theorems | `MediaStore`, `TLAPS` |
| `TemplateMigrations` | the versions of a template, its pages, jobs and conflicts | |
| `TemplateMigrationsProofs` | its theorems | `TemplateMigrations`, `TLAPS` |
| `MC...` | constants for TLC | the module after `MC` |

`VersionStore` and `DocumentSync` meet at the table. `DocumentSync` sees it as its
newest content and the set of all contents ever inserted (`tip`, `versions`);
`VersionStore` sees sessions and the consumer as writers (`Sessions`, `Batchers`)
and tells what an insert is worth to a reader. `EditSessions` and `DocumentSync` are
two halves of the same Durable Object: the flush of a completion is `CompleteEdit`
in the second and a wait (`closing`) in the first; both serve the object's one alarm,
the first its clean-up, the second its writes. `MergeJobs` and `TemplateMigrations`
each keep what they need of the table: the tip of a document, which versions have
lost their snapshot (what `VersionStore` shows a save may do), and the content last
written.

### 2.1 BrokerTransaction

`tx` and `initialized` are the object's fields, `stored` and `alarm` its storage.
A handler that stores and then calls `setAlarm` takes two steps: the first leaves
its alarm in `arming`, no other handler is admitted until `SetAlarm`, but `Evict`
is. `now` is in seconds, as `expiresAt` is in the code. Two observers carry the retry
window: `window` is its end, counted from when the redemption or the claim was stored,
and `keptUntil` is what an answer has promised of it. The first answer sets `keptUntil`,
be it the call's own (`SetAlarm`) or, after an eviction that took the call, that of a
repetition (`RepeatRedeem`, `RepeatClaim`), which changes nothing and sets no alarm. A
repeated redeem in that case is promised the window or the expiry of the creation,
whichever ends first: the creation's alarm still stands, and section 5 says what the
code's comment promises instead. `ReadOnly` stands for every other request that only
loads the object. The same class serves
logins (its id is a fresh UUID, so `/create` reaches an object once) and logouts (its
name is the nonce of a signed state); `kind` is which. Storage reads do not fail here:
the code answers one that does as if nothing were stored.

### 2.2 VersionStore

A row keeps the columns compaction cares about (`snapshot`, `patch`, the publish
pin, whether a publish checkpoint names it) and `content`, which is not a column:
it is what the writer wrote, for the properties to compare with; nor is `from`, the
version its patch was computed from. A content is a
function from fields to values, a patch the fields it replaces: enough to tell a
patch applied to the wrong base from one applied to the right one.

Each writer is split where Postgres lets others in:

* `createDocumentVersion`: `SaveRead` (latest version, duplicate test, patch),
  `SaveBegin` (the statement's view: next number, checkpoint test), `SaveInsert`
  (the one statement that nulls the predecessor and inserts; it waits for a row a
  publish holds and then rechecks that row's columns, not the checkpoint tables),
  `SaveConflict` (unique violation, answered with the latest version).
* `batchSyncToPostgres`: `BatchInsert`, `BatchFetch`, `BatchBegin`, `BatchCompact`;
  `GiveUp` may stop any writer between statements.
* `executeDirectSync` and `revertToCheckpoint`: one statement each.
* `publishDocument`: `PublishSelect`, `PublishLock` (FOR UPDATE), `PublishCommit`
  (rebuild if null, pin, checkpoint), `PublishAbort`.

`Replay` is `replayVersionChain` as a function over version numbers. A version is
`Straight` when, from the last row that needs no patch up to it, every patch was computed
from the version right below. Only a save that another writer overtook between its read
and its insert, or a revert's copy of a nulled row, makes one that is not;
`ReplayFaithful` is about every version that is, and `Refinement` about those up to the
first row that is not, whoever writes.

### 2.3 DocumentSync

The Y.Doc is `[content, line]`: the edits in it, and the Yjs lineage a load from
Postgres starts. `content.base` counts writes made around the session; base 0 is
the empty document of a session that has not loaded. `HashOf` forgets deletions,
as a state vector does. `active` is the write that holds `syncInProgress` and how
far it has got (to be sent, sent, to be written, written, overtaken), `waiting` the
flushes behind it, `handling` the write the alarm's handler awaits, `step` a handler
between two storage writes, `reload` a `reloadFromPostgres` in progress.

Steps guarded by `Quiet` need the input gate open. Requests of one kind are told
apart only where a property asks about one (`Flushers`, `Completers`).

Four events lose an edit for good, and the code neither retries nor reports them:

* an insert that loses its version number to a row that commits meanwhile, the
  consumer's or a migration's (`MayOvertake`): `createDocumentVersion` answers with that
  row, the internal API passes it on, and the session records the success of a write
  that is in no version (phase `overtaken`);
* a message left out of an acknowledged batch because its actor does not resolve, or
  sent to the dead-letter queue (`Discard`);
* the success of a write that was taken before the document was loaded, or while a reload
  had emptied it, which deletes the schedule that the stored bytes still need
  (`RecordLoss`);
* an eviction between an HTTP edit's bytes and its schedule: restored, the bytes count as
  synchronised (`Evict`).

`lost` is the observer that collects them, and `asked[r]` the one of what flush `r` found
in the session.

Abstractions, and why they are safe:

* Loading (read from Postgres, apply, store) is one step: other handlers of the
  Y.Doc await the same promise. Completing an edit session does not, and its
  action is not guarded by the load.
* Restoring the Y.Doc is a step of its own that opens every handler but the edit
  completion's; handlers are enabled only once `initialized` holds.
* The direct write and its fall-back over HTTP count as one attempt, which another
  writer's row may overtake at any time before it commits. An attempt that fails and is
  not overtaken is repeated by the alarm.
* A schedule's due time is a choice in `AlarmFires`: due or not yet.
* Which batch a consumer is given is any set of queued messages. It writes the latest
  and acknowledges all, or the acknowledgement is lost; or the latest is discarded and
  all are acknowledged.
* A reload replaces whatever a handler restored from storage meanwhile, as applying
  a snapshot over the old keys does; it is not started twice at once; a document that does not exist (404),
  attributed `/apply`, the immediate lifecycle sync, compaction of the Y.Doc and
  clean-up of presence and edit sessions are left out, as are the contents of
  pending actions (their number is kept).

### 2.4 EditSessions

A member of `Sessions` is one `/agent-edit-start` request: its owner, its turn, the
parts of the page under its regions (two region paths overlap when they share one)
and whether it takes a checkpoint. `editSessions`, `stoppedTurns` and
`metadataInitialized` are the object's fields, `storedSessions`, `storedTurns` and
`alarm` its storage. A handler that awaits Postgres lets others in: a Start at its
checkpoint (`starting`), a completion at its flush, an abort or a stop at its
rollback (`closing`), the alarm's handler at its writes and at each rollback
(`cleaning`), a restore at the organization's settings and at each rollback
(`restoring`). A handler between two storage writes is in `step`, and keeps the gate
closed. `CleanUp` and `RestoreSessions` are the two loops over sessions, from one
rollback to the next or to the end; the order of the map is any order. The map of
stopped turns is a sequence, because its order decides which stop the cap drops:
`SetTurn` and `DeleteTurn` are what the code's `Map` does to the order, and `Each` is
the loop over several turns, written as a recursive function so that it can be
reasoned about.

`opened`, `settled`, `ended`, `edited` and `since` are observers. `settled` are the
sessions whose Start has also set the alarm, if it had to; `since[t]` are the turns
stopped after the last stop of `t`, by which `Barred` knows a stop that the cap of
stops may have dropped.

Abstractions: what a checkpoint holds and what a rollback restores are not
modelled, only that others run meanwhile and that a rollback may fail; `edited`
records which turns have edited and nothing of what. A checkpoint that fails leaves
a session that behaves like one that takes none. Stops do not expire (30
minutes in the code, three times a session's life). Requests without a turn cannot
be stopped, and edit nothing here. Sockets and presence would only add
alarms and a clean-up when the last socket closes, which is `CleanUp` without its
alarm. An attributed `/apply` does not take this path's session gate.

### 2.5 MergeJobs

A member of `Jobs` is one execute of the merge request and the job id it mints.
`routes[j]` is where that route stands (`Claim` or `Adopt`, `CreateJob`,
`CreateWorkflow`, or the compensations `ReleaseClaim`, `UndoJob`, `UndoClaim`);
`steps[j]` is the workflow instance: `PlanStart`, `PlanBlocked`/`PlanBlock`,
`PlanFreeze`, `PlanRun`; `ChunkStart` and for each of its rows `RowRead`, `RowWrite`,
`RowMark`; `CheckpointStart`, `CheckpointPost`, `CheckpointStamp`; `FinalizeStatus`;
`PublishStart`, `Publish`, `PublishStamp`; `FinalizeJob`; and the epilogues that fail
or cancel a job (`EpilogueDone`). Each action is one statement. An insert that comes after
another, an editor's, a second job's or a redriven one's, may find its number taken and
settle on the version that is latest then (`RowCollides`); `overtaken` is an observer of
where. `Publish` may commit its checkpoint and then fail in the provenance of the
versions: the versions are live and the job records an error. A step that dies
(`StepDies`) is run again from its start; one that has used its retries
(`StepGivesUp`) goes to the fail epilogue. `jobs` and `rows` are the ledger, `posted`
and `live` what the two checkpoints captured.

Abstractions: which documents conflict is a constant (`Contested`), the target is
the main branch, a content is the number of the source version it came from, the
rows of a chunk go in the order of paths (`FirstOf`), an epilogue succeeds within its
retries, several deaths of one step count as one. Path promotion, notifications,
counters and the sessions' reload are left out.

### 2.6 MediaStore

`assets`, `versions` and `audit` are the tables of D1, `bucket` the objects of R2 with
their age, `cached` and `fetching` the edge. Clients `Presign`, `Put` and finalize
(`Confirm`, then `CreateAsset`, or `ReadOwner` and `AddVersion`), `Promote` and
`Delete`; the trigger sweeps (`StartSweep`, `SweepRows`, `SweepBytes`) and reconciles
(`StartReconcile`, `Visit`, `DeleteOrphan`, `EndReconcile`); a purge resolves, records
its intent, erases the bytes, drops the rows, purges the edge and settles. Each action
is one call to one store; `CronDies`, `PurgeDies` and the failing branches are bounded
by `MaxFaults`. The jobs are modelled as armed: in a dry run they write nothing.

`Overlapping` says whether a finalize may overlap the check-and-delete of its own key:
the code argues that such a race only makes the finalize answer 404
(`media/handlers/reconcile.ts:91-94`), which is so unless the deletion falls between
the finalize's `head()` and its insert; section 5 has that case, the run leaves it out.
A presigned URL takes one PUT.

### 2.7 TemplateMigrations

A snapshot gives each slot its component or none. `Trigger` takes the checkpoint,
`Claim`, `List` (a batch, after the offset), `ApplyRead` and `ApplyCommit` (one page's
transaction: the three-way merge `Migrated` of what the transaction read, and the row of
the props that had diverged when the page was listed), `Report` (a structural clash, or a
page the transaction cannot read), `EndBatch` and `Finish` are `processMigration`.
`ApplyFails` is a transaction that rolls back, `AnswerLost` one that commits and whose
answer is lost: the page is migrated and counted as left behind. `ProcessFails`, `Dies`
and `ListedUnreadable` (a page listed without a snapshot throws outside the page's `try`)
end the job. `RollbackRevert` and `RollbackReset` are the two parts of a rollback,
`ResolveSkip`, `ResolveRead` and `ResolveCommit` an operator's choice. Authors `Edit`,
`Create`, `Recreate`, `Delete` and `Archive` pages, and edit the template.

A revert of `RevertThreshold` documents or more copies the rows the checkpoint names as
they are now. Saves made since, the migration's own first of all, may have nulled their
snapshots, and the pages then become `Unreadable` (`MayBeLost`) until an author's save
through the API replaces the content (`Rewrite`).

`authored`, `run.found`, `run.misled` and the checkpoint's `before` and `authored` are
observers. `authored[d]` are the slots in which page `d` may differ from the version it is
said to carry: those an author changed or an operator chose, and those the template
changed in versions that no delta took to the page, because a delta or a rollback did not
begin at the page's `synced_version` (`Since`, `StillAuthored`).

`Overlapping` says whether, while a job runs, operators roll back, resolve or trigger
and pages leave its listing; nothing in the code prevents it, and section 5 says what
happens then. Left out: the position of a slot in its list and with it the moves of a
delta, pages without a `synced_version`, branches other than main. The template's own row
is taken to keep its snapshot through a rollback, a page whose commit's answer was lost
has one row for the code's two, and a job is rolled back once.

## 3. Runs

| Run | Shows | Instance |
|---|---|---|
| `broker` | an approval binds, memory is never ahead of storage, an answered redemption can be repeated and a nonce is claimed once, what is armed is deleted | 2 people, TTL 3 s, windows 2 s, clock to 9 |
| `versions_all` | nothing nulls a published snapshot, chains stay whole, the newest row keeps its snapshot | 2 savers (symmetric), a consumer, a session, a publisher, 1 field, 4 versions, rebaseline every 3rd |
| `versions_replay` | replay is faithful where patches are direct; up to the first that is not, the table implements `VersionHistory` | a saver, 2 consumers, a session, the bulk revert, 2 fields of 2 values, 4 versions |
| `sync_faults` | an insertion held is written, on its way, scheduled, or lost by one of the four events; the Y.Doc of a failed load or a reload in progress goes nowhere; actions never count below zero | 1 socket and 1 HTTP edit, 1 action, 1 eviction, 1 failed load, 1 reload, queue of 2, messages discarded and inserts overtaken without limit |
| `sync_live` | a schedule has an alarm; a flush covers what it found unless it was answered with another's version; every edit not lost is written in the end | 1 socket edit, 2 flushes, a completion, 1 write around, queue of 2, failures without limit, no evictions |
| `flush_overtaken` | a comment in the code is not what the code does (section 5) | 1 edit, 1 flush, 1 write around |
| `edits_live` | a restore loses no open session; a session nobody closes is ended | 2 sessions, one with a checkpoint, 1 turn, 2 restorers, 2 evictions |
| `edits_stopped` | a stopped turn neither edits nor opens a session | 2 agents, a session each, 3 turns, cap of 2 stops, 1 eviction |
| `merge_jobs` | what is merged is whole and checkpointed, nothing is written twice by a retry, the ledger is final, no claim is stuck | 2 documents, one contested, 2 executes, chunks of 2, 1 death, 1 other event, collisions without limit |
| `merge_moved_source` | a comment in the code is not what the code does (section 5) | 2 documents, 2 executes, the source saved once more |
| `media_store` | no row loses its bytes or its version, a completed purge stays complete, unwanted bytes go | an asset of a chat, its second version, 3 finalizes, 1 purge, 1 fault |
| `migrations` | no page is passed over, the local edits a transaction saw survive, what diverged before the listing is reported, what differs from the template has a reason, jobs end | 2 pages in batches of 1, one slot of 3 values, 3 versions, 2 jobs, 2 events |

Why the bounds are enough. Four versions hold a predecessor, the version written,
a competitor's version between them and one more to compact; three processes in
one table are one more than any race found needs. Two edits are one before and
one during a write; one eviction may fall at any step; a queue of two is a batch of
one stale message and one current. Two flushes and a completion are one that holds the
lock and two behind it. Two sessions are one that is being opened, rolled
back or restored and one that changes under it; a cap of two stops and three turns
drop a stop, and stop a turn again before that; a second eviction may fall into the
restore after the first. Two documents of a merge are one that conflicts and one that
does not, in one chunk; two executes are the one that claims and the one that finds
the claim, adopts it or drives a dead job. A second version is what can be finalized
under a sweep, a reconcile or a purge of the first. Three values of a slot are the
template's before and after and an author's; pages in batches of one are what the
offset can skip.
The clock of `broker` lets a creation, a
redemption and both alarms happen with time to spare. `Tip < MaxVersions`,
`Latest < MaxVersions`, `TimeLeft` (and `Claim`'s own), `Len(messages) < MaxMessages`,
`crashes < MaxCrashes`, the `used` counters, `Death`, `Event` (`spent`), `Fault`
(`faults`) and the `events` counter are the only guards that are bounds and not code.

`sync_live` has what `sync_faults` leaves out, and the other way round: `LoadedOnly` does
not survive a flush beside a reload or a completion beside an eviction (section 5), and
`OwedIsArmed` and `EventuallyWritten` do not survive evictions.

Deadlock is not checked: every model stops when its bounds are spent, and an idle
object does nothing.

Fairness. `broker`: time passes, due alarms are delivered, a handler goes on after
its await. `sync_live`: the runtime finishes handlers, due alarms fire, a waiting
write gets its turn, the consumer is given the queue's first message and
acknowledges (weak fairness: the platform promises each and nothing disables them
for ever); a send or a write that keeps being attempted sometimes succeeds
(strong fairness: an attempt ends with success or failure, so success is enabled
again and again and not continuously). Without the last no retry loop ends.
`edits_live`: the alarm is delivered and wakes the object, handlers go on, Postgres
answers or fails, sessions grow old; all weak, and no client is ever obliged to
come back.
`merge_jobs`: the engine runs every instance on, a route that does not die finishes,
and somebody executes again a request stuck in `merging` (weak; the claim is given up
only through such an execute). `media_store`: the trigger fires and its calls return,
time passes, a finalize request ends (weak); nobody is obliged to upload, promote or
purge. `migrations`: a claimed job goes on until it settles or is killed (weak).
`sync_live` has no evictions: between storing the persist flag and setting the
alarm an eviction leaves a session that only a client's return wakes.

## 4. Proofs

All theorems hold for any number of processes, contents, edits, versions, sessions,
documents, jobs, uploads and pages, and whatever the bounds.

* `BrokerTransactionProofs`: `TypeCorrect`, `Durable`, `RetryIsSafe` and
  `FirstApprovalIsKept`. A window is in one of four stages (`Window`): a handler has yet
  to set its alarm and nothing was answered (`BeingArmed`); the alarm is set for the
  window's end (`Armed`); an eviction came before that, the slot is empty or still holds
  the creation's alarm, and no more was promised than that leaves (`Unarmed`); or the
  object is deleted and no promise is open (`Deleted`). `OneKind` keeps logins and nonces
  apart.
* `VersionStoreProofs`: `TypeCorrect`, `PublishedIsServable`, `TipIsMaterialized`,
  `VersionsAreRebuildable`, `ReplayIsFaithful` and `HistoryIsImplemented`.
  `PublishedServable` is not inductive. `IInv` adds `JobsOK`
  (a writer's target and version lie in the table; a writer that
  will insert is past its target; a publisher that holds its lock and read a
  snapshot still finds one there) and `PublishedOK` (a published row is pinned
  and has its snapshot). The heart is `SaveInsert` and `BatchCompact`: they null a
  row only if it is not pinned *now*, and wait for one that is about to be.
  `TipIsMaterialized` assumes there is no bulk revert; with one it is false.

  The last three are about what `Replay` computes. `ChainInv` says that a row without a
  snapshot has a patch, that row 1 has none, and that a consumer about to null a row
  holds the patch it will leave there; then a chain ends at a snapshot, by induction on
  the version number. It needs that no revert takes a version number before it inserts
  (`Reverters = {}`). `FaithInv` and with it `ReplayIsFaithful` and `HistoryIsImplemented`
  need nothing: they hold with any writers. It says that a snapshot is the content, and
  that a direct patch turns the content *below by number* into the row's, wherever the
  chain up to there is straight; and the same of the patches that consumers and savers
  have in their hands, a saver's measured against the version it read (`HeldBySave`).
  When a saver inserts right above what it read, its patch is direct and `HeldBySave` is
  what `Faithful` asks; when another came between, the row is not direct and nothing is
  claimed of what replays through it (section 5). `HistoryIsImplemented` follows: an
  insert appends a row (`Grown`), which extends the readable prefix or leaves it as it is,
  and every other step leaves all contents as they were.
* `DocumentSyncProofs`: `UnloadedIsNeverWritten`, assuming no edit completions and
  no reloads; with either it is false (section 5). `IInv` adds `Shape` (only what
  the steps need of the types) and `TakenLoaded`: a session that is initialized
  and did not fail holds a loaded document, and the write under way carries one.
* `DocumentSyncOwed`: `SyncTypeOK` holds whatever happens; `LoadsOK` counts the loads
  that may still come, which is what bounds the lineages. `ScheduleIsArmed` assumes no
  evictions and `FlushIsCovered` no reloads, and both are needed: TLC refutes `OwedIsArmed` when
  an eviction falls between the stored schedule and its alarm (with HTTP edits one is
  enough, without them a second that also left the persist flag behind), and
  `FlushCovers` when a reload replaces what was asked for. The proof of `FlushIsCovered` adds that a
  request waits or holds the lock once (`TurnsApart`), that the session keeps what
  the request found (`AskedHeld`), and that a write taken for it covers that and is
  sent to no queue (`TurnCovers`).

  `EditsAreOwed` has no hypothesis: it is about every edit that advances a state vector,
  with deletions, completions, HTTP edits, flushes, evictions and reloads about. An edit
  has landed (`Landed`) when a version has it, when it is lost by one of the four events
  of section 2.3, or when the *last* queued message has it and no write is about to send
  another: the consumer drops the earlier messages of a batch. `OwedInv` says that a
  document, or stored bytes, that did not land are scheduled, and that a document whose
  hash equals the last synchronised one is not owed (`Settled` leaves out the HTTP edit
  whose handler is between its bytes and its schedule); `UsedInv`, that no hash has an
  edit before it is made, so that a new edit never looks clean; `WriteInv`, that a sent or
  written content has landed; `SessionInv`, that a document not in memory is empty, which
  is where the success of a write can end the schedule of stored bytes. The property would
  say little if the losses were many: each is one branch of the code, `lost` is added to
  in that branch and nowhere else, and dropping any one of them makes TLC refute it.

* `EditSessionsProofs`: `SessionsOutliveEvictions`, `RegionsAreNotGivenAway`,
  `EditTypeOK`, `StoppedTurnsDoNotEdit` and `StoppedTurnsOpenNothing`. For the first,
  `IInv` adds `RestoreKeeps` (a restore that waits for a rollback still has, in its local
  copy, every open session that memory lacks) and `StepServed`; every action comes down
  to opening a session, ending some, adding some from a restore, or touching none, with a
  lemma for each. The second follows from it: what a Start looks at when it is let through
  is all that is open, so no region of an open session of another owner is given to it,
  whether it takes a checkpoint or not (`AdmittedRegionsFree`). That no two open sessions
  overlap does not follow, and is false (section 5): regions are looked at before the
  checkpoint is awaited, and another session may open meanwhile. No run has
  `AdmittedRegionsFree`; TLC agrees with it on instances with one and with two sessions
  that take checkpoints.

  All five hold without a hypothesis, and the last three rest on the stored stops. `Stops(q, h)` relates the stored stops `q` to
  the history `h`: no turn is there twice, a turn was stopped before each one behind it,
  and a stopped turn is in `q` or has had `MaxStopped` others stopped after it. When the
  front is dropped, those others are the turns that were behind it: they are distinct, so
  there are `MaxStopped` of them (`TailKeeps`, an injection into the history). That is
  where moving a turn stopped again to the back is needed, and what the in-place `Map.set`
  of the mutant breaks. `StopsInv` adds that memory holds all the stored stops or, before
  the restore, none, so that a restore brings back exactly these (`RestoredFromNone`,
  `RestoredAgain`). `FiniteInv` (finitely many sessions are about) is what lets the
  turns of kicked sessions be listed one after the other.

* `MergeJobsProofs`: `MergeTypeOK`, `MergeLedgerIsFinal`, `MergeIsNotReplayed`,
  `MergePublishesItsCheckpoint` and `MergeIsWhole`, each from an invariant on top of
  the one before. `LedgerInv`: a job that has not planned has no rows, and what a
  chunk holds was pending. `ReplayInv` adds that a row that is about to be written is
  not what the target ends with: the probe before the write is what makes a step
  repeatable. `CaptureInv`: from its checkpoint on, a job's `posted` is what its rows
  recorded. `MergedInv`: the job that moved the request had no row left. `Recorded`: what
  a row records stands (`Stands`), being a version of the target that is a merge of the
  planned source version or says the same, unless another insert came before the job's
  own (`overtaken`).
* `MediaStoreProofs`: `MediaTypeOK`, `MediaIsReadable`, `LibraryIsKept`,
  `MediaIsPurged` and `MediaHasBytes`. `PurgeShape` ties a purge to its audit row,
  `SentInv` says that what has or had a row has spent its URL, so that its bytes
  cannot come back, `ErasedInv` that they are gone once the purge is past its deletion,
  `BytesInv` that the keys a job is about to delete are nobody's. The last needs
  `~Overlapping`; with overlaps it is false (section 5).
* `TemplateMigrationsProofs`: `MigrationTypeOK` and `MigrationReportsDivergence` hold
  whatever overlaps. `MigrationKeepsLocalEdits`, `MigrationDriftIsAuthored` and
  `MigrationAccountsForAll` assume `~Overlapping`, from which `Alone` follows: a job, a
  rollback between its statements or a resolution, one at a time. `WorkInv` says that
  the page being written is live, that what was read agrees with it outside the slots
  its author changed, and that a merge that is committed has no clash; `RowInv` says the
  same of a resolution, and `CheckpointInv` of what a checkpoint holds against the
  template as it was (`Kept`), which is what a rollback brings back. `AccountInv` is the
  argument for the offset: the pages left behind, the batch and the pages still to be
  listed are in the order of the listing, and the offset is the number of those left
  behind.

Assumptions on constants (`BrokerAssumption`, `VersionAssumption`, `SyncAssumption`,
`EditAssumption`, `MergeAssumption`, `MediaAssumption`, `MigrationAssumption`,
`NoneAssumption`, `NoneIsNoSet`) say that the processes' names are disjoint, that time-outs and
bounds are natural numbers, that identifiers that are ordered are numbers, that an
asset is minted by one presign, and that `None` and `Null` are nobody's value; TLC
evaluates them in every run.

Two of these proofs are by induction on a number: over `Replay` and over `Each`. The
library's induction theorems take an operator, so the induction is stated of a set
instead (`NaturalInduction`: a set with 0 and with every successor holds all numbers),
from the least element that the well-founded order of the naturals gives (`WFMin`,
`NatLessThanWellFounded`). The same induction shows that a recursive function has a
solution (`ReplayExists`, `EachExists`), without which its definition by CHOOSE says
nothing.

Only model-checked: liveness (`ArmedIsCleaned`, `EventuallyWritten`, `SessionsEnd`,
`ClaimIsReleased`, `UnwantedBytesGo`, `JobsEnd`), because the prover has neither
fairness nor ENABLED. Every other property of a passing run is a theorem, under the
hypotheses given above: `TipMaterialized` and `Rebuildable` without reverts, `OwedIsArmed`
without evictions, `FlushCovers` without reloads, `LoadedOnly` without completions and
reloads, `VersionsHaveBytes` and three of `TemplateMigrations` without `Overlapping`, and
the others with none.

## 5. Where the code departs from what it says

Two runs check one property each that TLC violates; the trace is the scenario.

* `merge_moved_source`: a plan's "frozen source-version ids make the merge a consistent
  snapshot even if the source branch keeps moving" (`merge-job-service.ts:236-238`). A
  save on the source branch compacts the planned version, the copy reads a NULL snapshot
  and writes `{}` to the target, and it is published (`MergedIsFaithful`).
* `flush_overtaken`: when an insert loses its number, "a concurrent sync (e.g. queue)
  already wrote a version with the same version_number. Return the latest version instead
  of failing — the data is in Postgres, which is what the caller needs"
  (`document-version-service.ts:506-509`). The row that won may be any writer's. A flush
  whose insert a migration's or a merge's row overtakes is answered with that row
  (`internal-api.ts:233-264`), the session records the write as done and deletes its
  schedule (`postgres-sync-manager.ts:731`), and what was flushed is in no version
  (`FlushIsWritten`).

The others have an instance that refutes them, to be run by hand
(`tlc -config <cfg> MC<module>`):

* `BrokerRetry.cfg`: "Keep for 60 more seconds to allow idempotent retries"
  (`broker-transaction.ts:359`). After an eviction between the redemption's `put` and its
  `setAlarm` a retry is answered (342-345), the creation's alarm still stands, and it may
  delete the transaction within those seconds (`FullRetryWindow`).
* `VersionsReplayRace.cfg`: "each version's patch is the forward diff from its
  predecessor" (`document-version-service.ts:843`). Two concurrent saves make a
  patch relative to the predecessor's predecessor.
* `VersionsRevert.cfg`: "A row may only be nulled when it carries a patch of its own"
  (420). A bulk revert inserts a NULL snapshot with no patch.
* `VersionsAck.cfg`: "the data is in Postgres, which is what the caller needs"
  (508), of an API save: the one that loses its version number is not (`SavedIsStored`).
* `SyncComplete.cfg`: "no writer can reach the database with state the session never
  loaded" (`postgres-sync-manager.ts:377`). An edit completion after an eviction can.
* `SyncStaleQueue.cfg`: `/flush` is "to ensure the latest version is in Postgres"
  (`crdt-endpoint-handlers.ts:309`). A queued older snapshot can follow it.
* `SyncDelete.cfg`: "state vector unchanged (no actual content changes)"
  (`postgres-sync-manager.ts:758`). Deletions do not change it.
* `EditsReservation.cfg` (`RegionsReserved`): "two sessions cannot claim overlapping regions whoever owns
  them" (`agent-politeness-handlers.ts:114`). Two Starts that await their
  checkpoints can.
* `EditsReopened.cfg`: completing and aborting "close the session"
  (`docs/ccr/README.md:487`). A restore that read the sessions before it awaited a
  rollback sets them again, and stores them.
* `MergeCollision.cfg`: the same promise of a consistent snapshot, without a
  compaction: a write that collides with another insert, an editor's or another job's,
  settles on that version.
* `MergeRedrive.cfg`: driving a queued job again is "always safe"
  (`merge-job-api.ts:322-330`). When the create that failed did reach the engine, two
  jobs merge one source version (`NoDuplicateMerge`).
* `MergeReleased.cfg`: the status is owned by the merge, because "a mid-flight flip would
  let the job publish while the 'merged' stamp is skipped" (`merge-api.ts:405-408`).
  `ReleaseClaim` under the job of an adopter flips it, as `merge-job-api.ts:209-212`
  admits, and the job publishes (`PublishedIsMerged`).
* `MergeCancel.cfg`: no cancellation is accepted that "cannot happen"
  (`merge-job-service.ts:198-203`). One that comes between the last look at the flag and
  the move to `finalizing` is accepted, and the job completes.
* `MediaPurge.cfg`: a purge leaves "never bytes present, rows gone" (`purge.ts:11-16`,
  `docs/p1-media/README.md:80-81`). A version finalized between the reading of the keys
  and the dropping of the rows loses its row and keeps its bytes, until a reconcile.
* `MediaOverlap.cfg`: the argument of `reconcile.ts:91-94`, when a finalize does
  overlap the deletion of its key: a row without bytes (`VersionsHaveBytes`).
* `MigrationRevives.cfg`: "Tombstone versions are the single mechanism for 'document is
  gone'" (`docs/ccr/COPY-ON-WRITE-BRANCHING-PLAN.md:65`). A migration lists deleted
  pages (`migration-service.ts:862-885`), and a delta that adds a slot writes content
  over the tombstone.
* `MigrationRollback.cfg`: "Reset only what the migration advanced"
  (`migration-service.ts:1390`). The UPDATE takes every page at the job's target back to
  its start, also one that was further behind or got there otherwise.
* `MigrationBackwards.cfg`: "a re-run can never apply the delta twice"
  (`migration-service.ts:1249-1251`). Resolving a structural conflict after a later
  job moves `synced_version` back.
* `MigrationOverwrites.cfg`: a migration keeps an author's edits ("a diverged prop is left
  local", `migration-service.ts:1260-1261`). A save that lands between the transaction's
  read (1041) and its insert is overwritten (`LocalEditsAlwaysSurvive`).
* `MigrationSkipsVersion.cfg`: a job that ends leaves its pages at the target. A job's
  delta begins at `to - 1` (`template-api.ts:674`) and not at the `synced_version` of the
  page: one that is further behind is marked as carrying the target without what the
  template changed in between (`TargetIsReached`).
* `MigrationLostAnswer.cfg`: "a document is never left migrated-but-unadvanced"
  (`migration-service.ts:1249-1251`). It is not; but a page whose COMMIT went through and
  whose answer was lost is counted as left behind although it has left the listing, and
  the offset skips the next (`JobAlwaysAccountsForAll`).
* `MigrationRollbackLoses.cfg`: a rollback of three documents or more copies rows whose
  snapshot the migration's own save has nulled (`checkpoint-service.ts:429-455`,
  `document-version-service.ts:441-471`), and leaves pages whose newest version cannot be
  read (`RollbackIsReadable`).
* `MigrationSkipsPage.cfg`: with `Overlapping`, a page that leaves the listing while a
  job runs makes the offset (1313) skip another (`JobAccountsForAll`).

Three more are known and have no instance:

* A flush that waits behind another write takes its turn when the lock is free,
  which may be while `reloadFromPostgres` has emptied the document and awaits
  Postgres: `LoadedOnly` fails with `Flushers` and `MaxReloads = 1` together.
  `sync_faults` therefore has no flush.
* Cancelling the schedule is to keep old data from overwriting a migration
  (`crdt-endpoint-handlers.ts:453`). A message sent before the reload still does.
* A migration job whose process dies stays `in_progress` and cannot be claimed again,
  where `merge-execution-service.ts:1037-1038` says it can be retried; `JobsEnd` holds
  because a dead job no longer runs.

## 6. Not modelled

The models cover what holds content and decides about it; that is a small share of
the repository, most of which is React components of the editor, SDKs, starter
kits, stateless API routes and their types, and Terraform: code without a state of
its own that interleaves with anything. Each component left out has its reason in
`PROJECT.json`. Of the workers, these have state and are left out:

* the baseline gate, a pure decision over state vectors when a socket opens;
* presence, which nothing else rests on except the clean-up of orphaned sessions;
* branches: creating and archiving are single statements, and the KV timestamp that
  asks a session to reload is one of the ways a reload starts in `DocumentSync`;
* checkpoint manifests, their pruning and the membership a revert restores;
* the browser's outbound queue and its reconnection.

The Yjs merge is taken as what its library promises; Postgres, D1, R2, the queue and
the workflow engine as what the code relies on.

## 7. Plan

Done: the login transaction and the logout nonce, the version store, the session's
path to Postgres, edit sessions and stopped turns, merge jobs, media, template
migrations. What would come next, in this order:

1. `EditSessions` beside the contents: what a rollback restores in `VersionStore`
   while the Y.Doc of `DocumentSync` keeps the aborted edits; presence; the clean-up
   when the last socket closes; the stops' TTL.
2. `BaselineGate` over state vectors of two or three clients, against a reference
   definition of divergence, and the reconnecting client of `css-client`.
3. Rollbacks of migrations and merges as writers of `VersionStore`; branches and their
   invalidation timestamps as what starts a reload in `DocumentSync`; checkpoint
   pruning.
4. Proofs: what reverts may still promise of `Replay` (a chain that ends at a snapshot,
   if a revert's number is retaken on conflict); an abstract specification of
   the debt of `DocumentSync`, of which the queue and the direct write are refinements.
