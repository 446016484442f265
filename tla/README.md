# MindCore: a verification development

MindCore is a conversational companion. A Python backend (`src/app`, FastAPI and
asyncio over libSQL/Turso) answers chat messages, keeps the persona's memory and
runs "cognition" after each reply; a Tauri desktop shell in Rust
(`src/frontend/src-tauri`) starts that backend as a sidecar and keeps the
registry of personas; a React front end talks to the backend over HTTP. A
persona's database can be local to one machine or SHARED by several, each with
a process of its own and no server between them but the database.

This directory holds TLA+ models of that program, TLC configurations that check
them on small instances, and TLAPS proofs of the properties that matter most for
every instance. Seven protocols of the program are modelled: the durable ledger of
turns with the request handler and the recovery that write it; the executions in
which the persona speaks on its own; the beliefs and running totals that change
beside the conversation, and their correction by the user; the manual
synchronisation of a persona between devices; the desktop shell with its backend
process and its registry of personas; the start of a backend on a database of any
age; and the page that shows it all. There are theorems about all seven. What is
left is listed below with the plan for it.

- [Inventory](#inventory)
- [Modules](#modules)
- [How the chat turn is modelled](#how-the-chat-turn-is-modelled)
- [How autonomous executions are modelled](#how-autonomous-executions-are-modelled)
- [How beliefs and totals are modelled](#how-beliefs-and-totals-are-modelled)
- [How synchronisation is modelled](#how-synchronisation-is-modelled)
- [How the desktop shell is modelled](#how-the-desktop-shell-is-modelled)
- [How schema and owner are modelled](#how-schema-and-owner-are-modelled)
- [How the page is modelled](#how-the-page-is-modelled)
- [Runs](#runs)
- [Proofs](#proofs)
- [Where the code and its documents part](#where-the-code-and-its-documents-part)
- [What is not modelled](#what-is-not-modelled)
- [Plan](#plan)

## Inventory

Components, the state each keeps, its operations, how it meets the others, what
is hard about it and what makes it correct. `PROJECT.json` lists the same
components with their files, and the hazards at their lines.

**Turn ledger** (`services/turn_durability.py`, tables `chat_turns` and
`chat_turn_stages`). *State*: per turn a status, the ids of its two messages and
the core-completion mark; per turn and stage a status and an attempt count.
*Operations*: begin_turn, mark_foreground_context_prepared,
mark_provider_started, settle_interrupted_provider_turn, complete_core,
mark_core_failed, run_stage (claim, work, completed mark), mark of a failed
stage, terminalize_missing_input, incomplete_turn_ids, and for persona-initiated
turns begin_autonomous_proactive_turn and complete_proactive_core. *Meets*: the
coordinator, recovery and the proactive execution write it, the repository's
message deletion nulls its ids. *Hard*: several processes write the same rows;
the commit of a transaction may succeed and be reported as failed; a process may
die between any two transactions. *Correct when*: work and row of a stage agree,
a turn is decided once, completed stages are final, the shown status follows
from the rows.

**Chat turn coordinator** (`services/chat_turn_coordinator.py`). *State*: the
local variables of one request (which products it holds, whether a decision was
found). *Operations*: one long procedure from receiving the message to the last
stage. *Meets*: the ledger, the providers, the cognitive stores; spawns the
shadow models in the background. *Hard*: some exceptions are recorded, some end
the request, some are only logged; a stage whose input failed is completed as a
no-op. *Correct when*: each failure leaves the ledger in a state recovery
understands.

**Turn recovery** (`services/turn_recovery.py`). *State*: per process the batch
and what it read of the current turn. *Operations*: recover_incomplete_turns,
resume_turn, the production handlers, the settlement of interrupted calls.
*Meets*: runs beside live requests of other devices on the same rows. *Hard*: it
reads product rows, then stage rows, then acts, each in a transaction of its own.
*Correct when*: it never repeats work, honours the dependencies of stages, never
declares that there was nothing to do when there was, and comes to every turn it
could repair.

**Backend lifespan and SHARED gate** (`main.py`). *State*: whether this process
has validated storage and run its recovery. *Operations*: start, shutdown, the
middleware that holds requests back in SHARED mode until one recovery went
through. *Correct when*: requests of this process never race its own recovery in
SHARED mode.

**Autonomy runtime and execution store**
(`mindcore/autonomy_runtime.py`, `proactive_execution.py`,
`autonomy_execution_store.py`). *State*: one row per execution of an intention
with its status (RESERVED, PROVIDER_STARTED, MESSAGE_PERSISTED, COMPLETE,
FAILED_SAFE, INDETERMINATE), a unique key per intention and anchor, and a turn of
its own in the ledger. *Operations*: gate, reserve, generate, persist, complete,
recover. *Hard*: a guard is read, a provider called, and a message persisted
later; a crash at any point must not lead to a second message. *Correct when*: an
intention yields at most one message, an unconfirmed provider call is not
repeated, execution and turn agree.

**Beliefs and corrections** (`mindcore/narrative.py`, `self_model.py`,
`snapshot_scope.py`, `observation_corrections.py`, the correction endpoints of
`routers/observe.py`). *State*: a row per theme or claim with the episodes that
support it, and a snapshot in memory, with an epoch, that foreground turns read.
*Operations*: the stage of an episode (read, derive, upsert, publish), hydration,
edit and delete of an item. *Meets*: stages run in the transactions of the ledger;
a correction comes from the panel at any time. *Hard*: memory is updated before the
transaction commits; what a stage computes before a correction it publishes after.
*Correct when*: an answered correction stands, rows count what the ledger says was
done.

**Running totals** (`mindcore/goals.py`, `relationship.py`, `internal_state.py`).
*State*: one row per total, a log with one row per event. *Operations*: claim the
event, read, add, write, retry. *Hard*: requests, recovery and retries of two tasks
add to one row; callers hold values read before a model answered. *Correct when*:
every logged event counts once.

**Persona synchronisation** (`services/persona_sync.py`, commands of
`scripts/mindcore_sync.py`). *State*: beside the rows of the persona, a private
metadata store with the revision each row had at the last scan, tombstones,
conflicts and resolutions. *Operations*: scan and baseline, export a delta, import
one (`apply_remote_delta`, checkpoint, `complete_inbound`), list conflicts, resolve
one. *Meets*: the chat changes the rows at any time; the devices exchange files.
*Hard*: two databases that commit separately, so a crash falls between them;
concurrent edits on two devices; a resolution that meets another. *Correct when*:
devices that exchanged everything agree, no edit is silently lost, a deletion is
not undone.

**Sync envelopes and identity** (`services/persona_sync_crypto.py`,
`manual_sync_transport.py`). *State*: the device's key and its anchor, trust in
peers, an outbound sequence per peer, received messages pending or applied, the
highest sequence of each peer. *Operations*: pair, revoke, encrypt,
decrypt_and_reserve, complete_inbound. *Hard*: envelopes travel by hand, so they
come late, twice, out of order or not at all; keys get lost and trust is renewed.
*Correct when*: a message takes effect once and can be retried until it does, and
no nonce is used twice.

**Sidecar lifecycle** (`src-tauri/src/sidecar_lifecycle.rs`, `start_sidecar` and
`stop_sidecar` of `main.rs`, the backend's `desktop_entrypoint.py`). *State*:
phase, generation, active child; one task per process that reports its exit.
*Operations*: begin_start, attach_child, mark_running, record_exit, fail_start,
begin_stop, finish_stop. *Hard*: exit events of an old child arrive after a new
one was started; stop while starting; somebody else on the port. *Correct when*:
at most one child is owned, no event of an older generation touches a newer one,
every child is reaped, every call returns.

**Persona registry** (`src-tauri/src/persona_registry.rs`, commands of
`main.rs`). *State*: a registry file, a directory with a configuration and
avatars per persona, a slot in the credential store, a global configuration.
*Operations*: first setup, create, switch, rename, settings, avatar, delete, and
the recovery each command begins with. *Meets*: starts and stops the sidecar;
`manual_sync_action` runs beside the commands. *Hard*: several files, no
transaction, and a rollback that can fail too. *Correct when*: what runs is what
the registry says, a ready persona has all its pieces, a deleted one none.

**Schema migrations and storage binding** (`database/migrations.py`,
`schema_contract.py`, `persona_storage.py`). *State*: schema version, migration
ledger, the id of the persona that owns the database. *Operations*: fast path,
classify, bootstrap, adopt, adopt the ledger, migrate forward, validate; read and
claim the owner. *Hard*: several processes bring one database up to date, each by
a plan it made before; a crash or a lost commit between two steps. *Correct when*:
the version never claims more than the tables hold, nothing unknown is touched,
one persona owns the database, and a later start always gets on.

**Front end** (`App.tsx`, `ChatWindow.tsx`, `chatHistory.ts`). *State*: the
session (generation, persona, main conversation, connected or not), the cache of
histories with a revision each, the pending sends, the queue and cursor of
proactive events. *Operations*: connect, switch, save, send, delete, open a
section, poll, announce. *Meets*: the shell's commands and the backend's HTTP API.
*Hard*: every answer may come after the session it was asked in. *Correct when*:
at rest the page shows the active persona and her conversation, and what was
received stays.

**Database pool** (`database/turso.py`, `connection.py`): transactions and their
failure; the models see it as committed, rolled back, or committed and reported
failed, and the one write reservation with what frees it (`WriterLock`).
**Repository** (`services/repository.py`): messages; its deletion touches the
ledger. **Other cognitive stores** (episodes, decisions, experiences, knowledge,
memories, preferences, intentions): rows that stages write and later stages need. **HTTP API
and authentication**, **desktop entry point**: modelled as far as their callers
see them. **Context building**, **autonomy judgement**, **LLM providers**: pure
functions of rows, and input and output; no durable protocol of their own.

## Modules

| Module | What it is |
| --- | --- |
| `TurnLedger` | The rows and the transactions of `turn_durability.py`, one operator per committed transaction, with the deletion of a message and the rows a stage leaves behind. |
| `ChatTurn` | The processes: one request handler per turn, one recovery per device, crashes, restarts, faults, lost acknowledgements; `EXTENDS TurnLedger`. All properties. |
| `TurnPromise` | Abstract specification: a turn is opened, then failed or answered; an answered turn settles each stage once, doing its work in that step. |
| `MCChatTurn` | Constants for TLC. |
| `AutonomyExecution` | The executions of an intention over the turns of the ledger: cycle, guards, reservation, proactive execution and recovery, in each process; `EXTENDS TurnLedger`. Properties. |
| `MCAutonomy` | Constants and symmetry for TLC. |
| `WriterLock` | The one write reservation of a database: who holds it, and what frees it. |
| `Beliefs` | The two belief stores of a backend with their snapshot, the stages that feed them, the corrections of a user; `EXTENDS WriterLock`. Properties. |
| `Evidence` | The three running totals and the tasks that add events to them; `EXTENDS WriterLock`. Property. |
| `Cognition` | Both on one database, and the restart that ends them; `EXTENDS Beliefs, Evidence`. |
| `SyncEnvelope` | Device identity, trust, sequences and the replay state of received messages, over files that are imported at any time, again, or never. |
| `PersonaSync` | The sync commands of each device over its rows and its metadata store, step by step with a crash between any two; `EXTENDS SyncEnvelope`. Properties of both. |
| `SidecarLifecycle` | The state machine behind the mutex, the threads that drive it, the processes and their exit tasks. Properties. |
| `PersonaRegistry` | Every command of the shell that changes a persona, one write per action, over an abstract backend. Properties. |
| `SchemaContract` | What the classifier says of a database, as operators; the databases a process may find. |
| `Migrations` | Processes that open one database, bring it up to date and admit requests for their persona; `EXTENDS SchemaContract`. Properties. |
| `Workspace` | The page over the command queue of the shell and the backend's calls. Properties. |
| `MCCognition`, `MCPersonaSync`, `MCSidecar`, `MCRegistry`, `MCStorage`, `MCWorkspace` | Constants and symmetry for TLC. |
| `ChatTurnProofs` | Types, the inductive invariant of the ledger, `LedgerTruth`, `CoreTruth`; what handlers and recoveries know, finality, derived status, prerequisites; `Spec => KeepsPromise`; attempts and skipped work of a device that is alone. |
| `AutonomyProofs` | Types and four properties of the executions, over the proactive turns of the ledger; three more of a process that is alone. |
| `CognitionProofs` | The three properties of `Beliefs` and `Evidence`, of their composition. |
| `SyncProofs` | Types, nonces and replays of the envelopes, tombstones and edits of the records, convergence. |
| `SidecarProofs` | Types, `RunningIsOurs`, `LostOnlyByReadError`. |
| `RegistryProofs` | Types, what each command of the shell holds at each of its steps, the three properties of the registry. |
| `WorkspaceProofs` | What the page and every answer on its way to it hold of the native side and the stored messages; the two properties of the page. |
| `MigrationsProofs` | The classifier on every database, `SchemaTruth`, `StrangersUntouched`, `OnlyOwnerServed`. |

## How the chat turn is modelled

**State.** `turn[t]` is the `chat_turns` row: `status`, `core` (is
`core_completed_at` set), `user` and `assistant` (is the message id present).
`stage[t][s]` is the `chat_turn_stages` row, `absent` before it is inserted.
`older` is the order of `updated_at`, which decides the recovery batch; the
clock is modelled as the order of writes, that is, without skew. `found[t]` are
the product rows (experience, decision, episode) that a query by the turn's
message ids finds; `produced[t]` are the products a committed stage of `t`
handed on; `applied[t][s]` counts committed runs of the work. The last two are
history: no guard of the system reads `applied`, and `produced` only feeds the
handler's own variables.

`pc`, `left`, `has`, `chosen` are the request handler's program counter, the
stages it has not come to, the products it holds and whether it found a decision
candidate. `rpc`, `batch`, `subject`, `inputs`, `seen`, `rows` are the same for
the recovery of a device: the batch of `incomplete_turn_ids`, the turn resumed,
the product rows read by `_recovery_inputs`, the `stage_status` snapshot and the
candidate rows not yet visited. `faults`, `crashes`, `deletions` only count, for
the bounds.

**Steps.** One action is one database transaction, one read that a later step
depends on, or one local step. A handler of the code is therefore cut exactly
where another process can come in between: `run_stage` is one action
(`RunStage`, `ResumeStage`) because claim, work, completed mark and refresh share
a transaction, and three (`ClaimOutside`, `Operate`, `CloseOutside`) for the two
stages whose work leaves the database (`memory_extraction`, `consolidation`).
Recovery's two reads are two actions (`TakeTurn`, `ReadStages`).

**Failure.** A transaction can commit; roll back (`StageRollsBack`,
`SaveReplyFails`, ...); or commit and be reported as failed
(`...Unacknowledged`), which a remote database can do to its client. In each case
the handler does what the code does next: `mark_core_failed`, the separate
failure mark of a stage, or nothing when that write fails too (`Lose...`). A
crash takes every request and recovery of a device with it, wherever they are.
A stage that cannot find the message its product refers to
(`CanProduce`) fails without any fault of the environment.

**Abstractions.**
- The three reads of `_recovery_inputs` are one read; so are the two queries for
  stage rows that follow each other in `_resume_turn_unlocked`. The window that
  matters, between inputs and stage rows, is kept.
- The turns of a batch are visited in any order, not in that of `updated_at`.
- A `running` row is stale or not by choice: `MayClaim` and `MayRefuse` both hold
  of it. No claim rests on the fifteen minutes.
- What decides whether an utterance holds an intention, a memory or a decision is
  a choice (`RequestRuns`, `chosen`).
- The in-process lock of `resume_turn` needs no variable: a device has one
  recovery at a time.
- The shadow models (narrative, self model), which run as background tasks after
  the reply when there is an episode, are the last stages of the handler.
  Cancellation of a task by a client that disconnects is a crash of the process
  or is left out.
- `SettleInterrupted` may hit a handler that is alive: the code takes the
  evidence from its caller (`interrupted_provider_turns`), and the ledger must
  hold even if the evidence is wrong.
- Only the stages in `Tracked` have rows. Stages touch each other only through
  prerequisites, products, and the derived status, so a subset with all the
  prerequisites of its members behaves as in the full set; the proofs are for
  every `Tracked`.

## How autonomous executions are modelled

**State.** An execution row and its turn are inserted in one transaction and
refer to each other for good, so one identity stands for both: `exec[e]` is the
`autonomy_executions` row (status, intention key, and the anchor, the user's
latest message when the intention was formed), `turn[e]` and `stage[e]` are the
ledger's rows. `users` numbers the messages of the user. `pc`, `intent`, `job`,
`listed`, `verdict` are the local variables of a process: of its cycle (the
intention it follows, its execution, the stage it is in and the error on its way
out) or of its recovery (the rows listed, and what it made of the turn it read).
`said` and `called` are history: when a message was saved, and whether a provider
call was made and reported failed.

**Steps.** `Evaluate` is the cycle up to its gate; `PassGuard`, `Reserve` the
second guard and the reservation; `Claim`, `GuardAgain`, `StartProvider`,
`ProviderReplies`, `CloseWork`, `Persist`, `Finalize` the execution, one action per
transaction or per read that a later step depends on. After an error there are
three separate records, each of which can fail in its turn: `RecordStage`,
`RecordCore`, `FailSafe`. Which errors free the key of the intention (`FreesKey`)
follows the order of the tests in `execute_proactive_intention`, and a record that
raises replaces the error, so that a refused gate is no longer recognised as one
(`Replaced`). Recovery lists the open executions, then for each reads the turn
(`ReadTurn`) and writes its verdict in a later transaction (`SettleExecution`),
whose conditions are those of the code: the one on the execution does not guard
the update of the turn.

**Processes.** Autonomy runs only on local databases. Two processes are two
instances of the application on one file (there is no lock file and no
single-instance guard), which is also the case the partial unique index is for.

**Abstractions.** Cooldown, back-off and quiet hours are matters of the clock:
they may refuse at any time there is something to count from (`GuardRefuses`), and
nothing rests on their refusing, except that a cycle may also not be started. The
durable state and the gate of `Evaluate` are one read, since the guard reads the
former again before the reservation and the unique index decides the latter. The
reads of the turn, its stages and its message in recovery are one. The in-memory
key of the last success is implied by the COMPLETE row. Recovery's limit of 100
and its order are left out, and so are the deletion of user messages and of
conversations. Cancellation marks the running stage and ends the process
(`Cancel`).

## How beliefs and totals are modelled

**State.** `rows` are the durable rows of one belief store, each with an id, a
text and `backing`, the episodes that support it; status, confidence and counts
are functions of the latter. `store` says whether a behaviour is about narratives
or about the self model, which differ in the row they keep when a snapshot holds
two of one key (`Preferred`). `shown` and `epoch` are the `VersionedSnapshot`. `at`,
`expected`, `draft` are the stage of an episode inside its transaction; `done` and
`attempts` its row in the ledger. `asked` and `fix` are a correction: how far it
is, what its statement did, and the texts it wrote over.

For the totals, `absorbed` is the durable value as the bag of events that went into
it, `claims` the event log; `step`, `event`, `hint`, `base`, `tries` are the local
variables of a task. `total` says which of the three it is: the emotional state is
overwritten and not retried, the others are updated on a condition.

**Steps.** The claim of the stage, or of the event, is the first write of its
transaction and takes the reservation (`Reserves`); BEGIN takes none. Then
`BeginRefresh` notes the epoch, `WriteStage` reads and upserts, `PublishStage`
changes the snapshot in memory, `CommitStage` commits rows and ledger together. Any
of them may fail, or the server may end the transaction while its task goes on
(`ExpireStage`, `Expire`), which the next statement notices and `PublishStage` does
not. A correction is one statement that commits by itself, then the change of the
snapshot and its epoch; between them the answer may be lost (`RaiseCorrection`).
`Restart` ends everything; hydration reads the rows or fails and starts empty.

**Abstractions.** One backend: another process that shares the database has a
snapshot of its own, which no correction made elsewhere reaches before its restart.
The 48 rows a snapshot is limited to, rows of older releases that double a key, the
repair of missing need rows, and the deletion of episodes are left out; an episode
is the subject of one turn. The statements of one transaction between its first
write and its commit are one or two actions, since nobody else writes in between and
nobody sees what is not committed. The lock per message of the emotional state only
delays.

**Seen in the code**, without a property of its own: a stage that rolls back after it
published leaves rows in the snapshot that no table has (`PublishStage`, `FailStage`),
although the docstring of `narrative.py` calls the snapshot "durable-derived"; a
published result that the epoch rejects leaves its fresh rows out of the snapshot
until the next restart; between the statement of a correction and its effect on the
snapshot a turn still reads the old text; a second correction of an item that
overtakes the first in between shows the older row, and brings back an item it
deleted; the panel says that nothing was changed also when the statement took effect
and its answer was lost. `CorrectionStands` is about corrections that were answered,
and about texts written over before they began.

## How synchronisation is modelled

**State.** `dom[d][e]` is the content of a row as a number, so that "another
content" is all there is to say of it. Two variables are history that no action
reads for a decision: `past[h]` is every content `h` was written or chosen over, or
put over where its user had deleted the row, and `erased[d][e]` the last content of
a row that was deleted. `meta[d][e]` is the
`sync_record_state` row: hash, origin, counter, parent and ancestor of the
revision. `conflicts` and `resolutions` keep the order of insertion, which the
code reads. `job[d]` is the command under way with what it has read and has yet
to write. The envelope part is one variable per table of the crypto store,
`sent` is every file ever written.

**Steps.** A scan and its reconciliation, which hold one metadata transaction,
are one action of the command that runs them: `OpenInbox`, `Export`, `Receive`.
An export then takes its sequence and writes its file (`Send`, `SendFails`, which
wastes the sequence); an import applies the delta to the domain database
(`ApplyRefused`, `ApplyConflicts`, `ApplyCommits`), then writes the checkpoint,
then the resolutions it brought, then completes the message. `Crash` falls
between any two of them, `LoseMetadata` is the loss of the metadata store, which a
later scan baselines anew. `ApplyVerdict` is the classification of a delta, entry
by entry, in the order of the code: which entry refuses the message, which one
raises a conflict, which is already there.

**Abstractions.** One command at a time on a device, as the panel runs them; one
persona; every edit makes a content of its own; the order of two hashes, where the
code sorts by it, is arbitrary but fixed. Both devices start paired and
baselined from one package. An id used again after its deletion counts as written
over the content that was deleted. The cipher and its checks are assumed, as are the
checks of the files an envelope is imported from. `create_tombstone`,
`record_remote_seen`, `generate_delta`, `detect_conflicts` and the comparison of
manifests are called by tests only. `record_conflict` and the saving of the
pending artifact are one step.

**Seen in the code while modelling**, without a property of its own: the sequence
of a sender is shared by all its personas; an envelope that is overtaken by a
later one of the same sender is refused for good; a resolution that arrives
before the sender's own edit is refused as stale; a crash between
`record_resolution` and `complete_inbound` leaves a message whose second import
ends in `CONFLICT_HEADS_INVALID`; `REMOTE_ANCESTRY_UNKNOWN` and append-only
conflicts offer no choice that ends them; the reuse of a deleted id blocks every
later scan. But for the first, all are in the model, where they refuse or stop a message;
none of them overwrites anything (`NoSilentOverwrite`, proved for any number of edits
but for the one case it excuses, described below).

## How the desktop shell is modelled

**The process** (`SidecarLifecycle`). `lifecycle` is the struct behind the mutex,
`child[s]` the processes by order of spawning (starting, serving, leaving, gone;
whether the application is its living parent, whether its task still listens and
what it has to report), `call[c]` where each thread is in `start_sidecar` or
`stop_sidecar`. Each locked section is one action, each poll of the readiness
endpoint another. A process can fail at start, hang, exit whenever it likes, keep
the port while it leaves, or yield a read error of its output, which `record_exit`
takes for its end. `AppDies` leaves the processes orphaned until they see it
(`Orphaned`, the parent watch of `desktop_entrypoint.py`). Which persona a process
serves is remembered to compare, nothing depends on it. The port is taken by
a process of ours or an orphan; a foreign program on it would only make a start
fail, which `StartupFails` may do at any time.

**The files** (`PersonaRegistry`). `registry` is `personas.json`, `disk[p]` the
pieces of a persona outside of it, `backend` the persona the running process was
started for: that it is gone after `stop_sidecar`, and ours after `start_sidecar`,
is what the other module shows. `job` holds the command of each thread with the
registry it read. Every write is one action and may fail (`MaxFaults`); the
application may die before each (`Crash`). The commands of Tauri run one at a time
on the main thread; only `manual_sync_action` is asynchronous, calls `registry()`
on a thread of its own and takes no lock.

**Abstractions.** Writing the configurations of all personas again
(`registry()` projects each profile) is one step, and the removal of a persona's
pieces stops at any of them. In the setup, credential and identity are always
rewritten. The one-time migration of installations before the registry, file
formats and the validity checks on load and save are not modelled.

**Excuses.** `overwritten` is set when `manual_sync_action` saves a registry over
one that a command saved after it read: no property survives that, and the model
says so instead of forbidding it. The converse, a command that saves over the end of
a deletion, is not excused. `confessed` is set when a rollback failed in its
turn and the command reported so.

**Seen in the code**, without a property: an avatar left by a failed save keeps
its directory from being deleted; an interrupted creation leaves an entry that
cannot be deleted, only completed; a crash in the first setup leaves a credential
no registry names; settings outside `profile_config_text` (`tuned`) are dropped by
the next projection, which `docs/V0_4_0_WINDOWS_PRE_RELEASE_RISK_AUDIT.md` (WRA-05)
records.

## How schema and owner are modelled

**State.** `db` is what the classifier can tell of a database: which groups of
tables it has (those that come with one migration stand or fall together), whether
the columns of migration 023 are there, the version row, the rows of the ledger,
and a flaw of its structure or its data. It starts as any of the `Recognised`
databases (empty, unversioned, or at a released version with or without its ledger)
or of the `Strangers` (partial, malformed, of another version, with a ledger that
does not fit). `proc[p]` is how far
a start has come and what it has read; `gate[p]` the same for the first request of
a process in SHARED mode; `owner` the two keys of `schema_metadata`.

**Steps.** Each query is one action and each transaction another, since another
process may be anywhere between them: `FastPath`, `ReadTables`, `ReadColumns`,
`ReadVersion`, `Decide`, `Shape`, then `Bootstrap`, `Adopt`, or `Plan`,
`AdoptLedger`, `Migrate` step by step, and `Validate`. A transaction repeats the
check of the version the code makes inside it, and may commit, fail, or commit and
be reported as failed. `Refuse` is any error: the lifespan logs it and the process
goes on serving without recovery and autonomy until it is restarted. A request
reads the owner, then the older key, then claims the database (`ReadOwner`,
`CheckOwner`, `Bind`).

**Abstractions.** Flaws do not change; the reads of the final validation are one;
a busy database is a transaction that failed; all processes run one release; the
checksum of a migration is right or altered. In LOCAL_ONLY mode there is no gate.
The start-up snapshot does not see a flaw of the data, by design. The second
classification in `bootstrap_turso.py`, `MigrationRegistry.validate`, the
statements of a migration and `inspect_binding_state` are left out.

## How the page is modelled

**State.** `native` is what the page can tell of the shell: the active persona,
the backend that runs and for whom, and the queue of commands with their
answers. `store`, `open` and `news` are the durable messages, conversations and
proactive events of each persona's database. `ui` is the state and the refs of
`MindCoreWorkspace` and of the chat it mounts, `calls` are the HTTP calls whose
handler has not run, each with the generation of the session it was asked in,
`poll` the loop that asks for proactive events. Two fields of `ui` are auxiliary:
`received`, the sends whose answer the session has merged, and `guessed`, that the
session once took its persona from a list (see the excuse).

**Steps.** One action is one event handler together with the effects React runs
after its commit (`Render`). Native commands are synchronous Tauri commands: they
run one at a time in the order given, and their answers arrive in that order. A
call is served by whichever backend runs at that moment, and its answer arrives
any time later; a restart of the backend fails the calls it has not answered; a
fetch the page aborts is a call removed.

**Abstractions.** The order of messages, unread counts and notifications of the
operating system, the legacy key in localStorage and StrictMode's second mount are
left out; the listing of conversations may put any of them first. Storage
state and schema state are one flag, `unavailable`. The setup wizard, reconnecting
to the same persona, web login and logout, the other Data views and the sync panel
are not modelled.

**Excuse.** A switch whose `/auth/me` is answered with a server error takes the
persona from the list the page last loaded, which a switch does not refresh: the
page then shows the persona it came from. `QuietIsRight` excuses the persona shown as
long as the page says it is unavailable, and the conversation shown for the rest of
that session, because a later `/auth/me` puts only the persona right. Nothing excuses
a message that still says it is being sent.

**Seen in the code**, without a property: two loads begun at the same
revision may be applied in the wrong order and hide a newer proactive message
until the conversation is opened again; a user message deleted while its answer
is awaited comes back with the answer; events of a batch that were not yet announced
are lost when the polling effect is torn down after the cursor moved; a settings save
whose restart and rollback both fail leaves the page connected to nothing.

## Runs

| Run | Instance | Shows |
| --- | --- | --- |
| `turn_core` | one turn, devices `d1` (home) and `d2`, stages experience, relationship, knowledge, goal_fulfillment; 2 faults, lost acknowledgements, 1 crash, 1 deletion; about 447,000 states | `LedgerTruth`, `CoreTruth`, `StatusDerived`, `CoreOutcomeFinal`, `CompletedStays`, `RecoveryHonoursPrerequisites`, and the refinement `KeepsPromise` |
| `turn_alone` | one turn, one device in SHARED mode, six stages with both stages outside the database; 3 faults, 1 crash, 1 deletion; about 124,000 states | `NoWorkSkipped`, `AttemptsBounded`, and under fairness `RunnableStagesSettle`, `StartedTurnsAreDecided` |
| `autonomy_pair` | two executions, two processes, one intention key, two user messages; 1 fault, lost acknowledgements, 1 crash or cancellation, 1 deletion; 1,490,000 states after symmetry | `SpokenOnce`, `NoUnknownRepeated`, `ExecutionMatchesTurn`, `SettledForGood` |
| `autonomy_alone` | two executions, one process, two keys, streak limit 1, two user messages; the same faults; 316,000 states | `StreakBounded`, `DoubtIsReal`, `RecoveryFailsBeforeProvider`, and under fairness `ExecutionsSettle` |
| `cognition` | two episodes, one key, two corrections, two tasks, two events; at most 4 tasks begun, 1 failure, 1 restart; 1,339,000 states after symmetry | `CorrectionStands`, `LedgerAgrees`, `CountedOnce` |
| `sync_pair` | two devices, a mutable and an append-only entity; 2 edits, and either 3 envelopes and 1 crash or lost metadata store, or 2 envelopes, 2 keys each and 1 revocation (`OneTrouble`); 818,000 states after symmetry | `TypeOK`, `ConvergedWithoutConflict`, `NonceUnique`, `NeverReapplied`, `NoSilentOverwrite`, `TombstonesStay` |
| `sidecar` | two threads, 2 processes, 2 troubles (exit, read error, death of the application); 336,000 states | `RunningIsOurs`, `LostOnlyByReadError`, and under fairness `CallsReturn` |
| `desktop` | three personas, 2 commands and 1 `manual_sync_action`; 2 failed writes, 1 crash; 228,000 states after symmetry | `RunningServesActive`, `ReadyIsWhole`, `DeletedLeavesNothing` |
| `storage` | two processes, two personas, any database of `SchemaContract`; 1 failed query, lost acknowledgement or death; 567,000 states | `SchemaTruth`, `StrangersUntouched`, `OnlyOwnerServed`, and under fairness `SettlesCurrent` |
| `workspace` | two personas with two conversations each; any three of: 2 commands, 1 message, 1 deletion, 1 proactive event, 2 changes of section, 1 failure; 715,000 states | `QuietIsRight`, `RepliesStay` |
| `turn_skipped`, `sync_dropped` | the smallest instances that show them | the two disagreements described below |

**Bounds.** One turn suffices for the properties of `turn_core`: a transaction
writes the rows of one turn (the lemma `OtherTurns` proves it), and turns meet
only in the batch and in a taken-over episode. Two devices are the least that
race; a third would repeat what the second does, since a recovery keeps nothing
but what it read. Two faults allow a failure and the failure of its record; three
in `turn_alone` let a stage use up `MAX_STAGE_ATTEMPTS` = 3. One crash and one
deletion meet every program point. Four stages contain both kinds of
prerequisite (a product row, another stage). The proofs remove these bounds for
every safety property of `turn_core`. `RECOVERY_BATCH_LIMIT` is 10 in the code and
in the runs; no run fills a batch.

For the executions: two of them are the least that can repeat one another, and
one process running them in turn reaches what a third would do, since a settled
execution is never touched again (`SettledForGood`). `MAX_IGNORED_STREAK` is 1 in
`autonomy_alone`, so that the limit is met with two executions; its real value
only shifts where it bites. A second user message lets the anchor move under a
running cycle.

*Beliefs and totals.* Two episodes of one key are a row and its reinforcement, and
two stages around a correction; two corrections are an edit and a later edit or
deletion of the same item. Two tasks and two events are a lost update; a key more or a
task more would meet the others only in the reservation. Four tasks begun are two
stages and two corrections, or one that is retried. The proofs remove all of these
bounds.

*Synchronisation.* An entity is scanned, compared and applied by itself, except
that one entry that refuses or conflicts decides about its whole message: two
entities, one of each kind of merge, are the least that show it. Two edits make a
concurrent pair or a chain, three envelopes a round trip and one that is late, or
twice the same. Two keys per device give a sequence that starts again, and one
revocation a trust that is renewed; with a crash or a third envelope in the same
behaviour the run would take too long, so the constraint `OneTrouble` cuts it there.
All properties of the run are proved without that cut.
`MaxSequence` and `ReplayLimit` are 3 for 2^63 - 1 and 100,000: a sequence wasted
by failed exports can run out, the replay limit is not reached.

*Shell.* Two threads and two processes are the least that can meet at every
locked section with an old and a new generation. Three personas are the active one,
another, and one to be created; two commands leave what a failed first one left
behind to a second, and two faults let a rollback fail. *Storage.* Two processes,
each behind the other at any point; a third would find what the second left.
*Page.* Three moves let a session change twice or change once around a message, with
answers of all of them outstanding; an instance with four moves (one change of
section, no deletion), 6,150,000 states, holds as well and is left out of the runs
for its length.

Deadlock is checked where the system goes on for ever by itself (the turns, the
executions, the backends of `storage`). The other models wait for a user whose
actions are bounded, so their runs say `CHECK_DEADLOCK FALSE`: the end of the
bounded actions is not a deadlock of the code.

**Fairness.** `WF(RequestAdvances)` and `WF(RecoveryAdvances)`: asyncio runs a
ready task and the steps have no unbounded wait (provider calls and queries
return or raise). `WF(Start)` and `WF(Close)`: the user opens the application
again after a crash and closes an idle one some day. Recovery runs once per
process, so without `Close` and `Start` no second recovery would ever come; this
is an assumption about use, not about the code, and the liveness properties say
"if processes keep being started". Faults, crashes, messages and deletions have
no fairness. `StageRollsBack` is among the fair steps only because failing for
want of a message needs no fault; the number of faults is bounded.

In `AutonomyExecution` the same is assumed of `Executes`, `Recovers` and
`Start`; `Close` needs strong fairness (`SF`), because the scheduler begins cycle
after cycle and the application is closed between two of them.

`SidecarLifecycle` assumes `WF(CallSteps(c))`: a thread inside `start_sidecar` or
`stop_sidecar` polls every 250 ms up to a deadline, so it goes on; the processes
have no fairness at all, and `CallsReturn` holds although they may never start,
answer or exit. `Migrations` assumes `WF(Ensures(p))`, a start that was begun goes
on, and `WF(Restart(p))`, a backend that refused is started again some day: the
property says that no crash and no lost commit leaves a database that later starts
refuse. `Cognition`, `PersonaSync`, `PersonaRegistry` and `Workspace` state safety only
and assume nothing.

`NoWorkSkipped` and `AttemptsBounded` are checked for one device only, because
with two they are violated (*Where the code and its documents part*): the passing
run shows that the second device is what breaks them, and `LoneAttempts` and
`LoneWork` prove it of all constants under the hypotheses they name. The same holds of `DoubtIsReal` and
`RecoveryFailsBeforeProvider` and the second process.

## Proofs

Every theorem holds for any finite or infinite sets of turns, devices, processes,
threads, keys, episodes and personas, any finite set of entities, and for any bound on faults, crashes
and the other things the runs count, under the named assumptions of the modules,
which TLC evaluates in every run. The assumptions say that numbers are numbers, that
a model value for "none" is not a member of the sets it stands beside, and three
things of the program: `TrackedAssumption` (the tracked stages are stages, at least
one), `KeysAssumption` (there is an intention that can be spoken),
`EntitiesAssumption` (entities are finitely many and numbered, which orders a scan).

| Theorem | Statement | Module |
| --- | --- | --- |
| `Types` | `Spec => []TypeOK` | `ChatTurnProofs` |
| `WorkMatchesLedger` | `Spec => []LedgerTruth` | |
| `CoreIsWhole` | `Spec => []CoreTruth` | |
| `OutcomesAreFinal` | `Spec => CoreOutcomeFinal` | |
| `CompletedIsFinal` | `Spec => CompletedStays` | |
| `StatusIsDerived` | `Spec => []StatusDerived` | |
| `PrerequisitesFirst` | `Spec => RecoveryHonoursPrerequisites` | |
| `Implements` | `Spec => KeepsPromise` | |
| `LoneAttempts` | `Alone => (Spec => []AttemptsBounded)` | |
| `LoneExperience` | `Alone /\ ~LostAcks => (Spec => []ExperienceWorkDone)` | |
| `LoneWork` | `Alone /\ ~LostAcks`, one turn, no decision stage `=> (Spec => []NoWorkSkipped)` | |
| `AutonomyTypes` | `Spec => []TypeOK` | `AutonomyProofs` |
| `SpokenAtMostOnce` | `Spec => []SpokenOnce` | |
| `UnknownNeverRepeated` | `Spec => []NoUnknownRepeated` | |
| `OneStory` | `Spec => []ExecutionMatchesTurn` | |
| `SettledOnce` | `Spec => SettledForGood` | |
| `LoneInvariant` | `Alone => (Spec => []LoneInv)` | |
| `LoneStreak` | `Alone => (Spec => []StreakBounded)` | |
| `LoneDoubt` | `Alone => (Spec => []DoubtIsReal)` | |
| `LoneRecovery` | `Alone => (Spec => RecoveryFailsBeforeProvider)` | |
| `AnsweredCorrectionStands` | `Spec => []CorrectionStands` | `CognitionProofs` |
| `BeliefsMatchLedger` | `Spec => []LedgerAgrees` | |
| `EventsCountOnce` | `Spec => []CountedOnce` | |
| `SyncTypes` | `Spec => []TypeOK` | `SyncProofs` |
| `NonceNeverRepeats` | `Spec => []NonceUnique` | |
| `AppliedAtMostOnce` | `Spec => []NeverReapplied` | |
| `DeletedStaysDeleted` | `Spec => TombstonesStay` | |
| `NoEditOverwritten` | `Spec => NoSilentOverwrite` | |
| `DevicesConverge` | `Paired => (Spec => []ConvergedWithoutConflict)` | |
| `SidecarTypes` | `SidecarSpec => []SidecarTypeOK` | `SidecarProofs` |
| `SidecarRunsOurs` | `SidecarSpec => []RunningIsOurs` | |
| `SidecarLosesNone` | `SidecarSpec => []LostOnlyByReadError` | |
| `RegistryTypes` | `RegistrySpec => []RegistryTypeOK` | `RegistryProofs` |
| `RegistryInvariant` | `RegistrySpec => []RegistryInv` | |
| `BackendServesActive` | `RegistrySpec => []RunningServesActive` | |
| `ReadyPersonasWhole` | `RegistrySpec => []ReadyIsWhole` | |
| `DeletedPersonasGone` | `RegistrySpec => []DeletedLeavesNothing` | |
| `SchemaIsTrue` | `StorageSpec => []SchemaTruth` | `MigrationsProofs` |
| `StrangersStay` | `StorageSpec => []StrangersUntouched` | |
| `OneOwner` | `StorageSpec => []OnlyOwnerServed` | |
| `WorkspaceInvariant` | `Spec => []WorkspaceInv` | `WorkspaceProofs` |
| `QuietPageRight` | `Spec => []QuietIsRight` | |
| `RepliesKept` | `Spec => RepliesStay` | |

The type invariants of `ChatTurn`, `AutonomyExecution` and `SidecarLifecycle` are
proved and no longer checked by a run.

*The ledger.* Every step of every process is one ledger transaction or leaves
the ledger alone (`StepsOfTheLedger`), so what only concerns the ledger is
proved over 13 transactions instead of some forty actions. `LedgerInv` is the
inductive invariant: `CoreTruth` and `LedgerTruth` turn by turn, and
`OpenBoundaryOf`. The last is needed because `complete_core` updates boundary
rows with conditions on their status: that all three end up completed follows
only if `assistant_persist` was pending as long as the turn had no reply, and
that a new turn starts with clean rows only if a turn without a row has no stage
rows.

*The handlers.* Finality does not follow from the ledger alone: `complete_core`
does not look at the turn's status, so that a turn settled as `core_failed`
cannot be answered depends on the provider row having been failed with it, and
on the handler being gone when it recorded the failure itself. Likewise the
completed mark of a stage outside the database is conditional on `running`, and
`OperateOutside` repeats nothing only because no one else can claim a stage that
recovery does not touch while its handler works on it. `HandlerInv` says this:
`RequestInv` (a failed turn has a failed provider row or no handler; a manual
stage ahead of its handler is pending, the one it works on is running) and
`RecoveryInv` (the candidates a recovery has left are automatic; what it saw
completed is completed). Interference is handled once: another process's step on
the same turn (`ForeignOperation`) keeps the handler's part, since it never
touches manual stages nor reopens the provider row.

*The refinement.* `Implements` maps each ledger transaction to one step
of `TurnPromise` or to a stutter: `begin_turn` opens, settlement and failure
report fail, `complete_core` answers, a committed stage settles. The mapping only
covers the transactional stages; the two outside the database are by design
at-least-once at the moment of a crash.

*The executions.* `AutonomyInv` has two halves. `WorldInv` is about the database:
each proactive turn has boundary stages only and is complete exactly when its core
is (`TurnStory`), an execution and its turn and the history of the call agree
(`ExecStory`), and of the executions with one key and anchor one at most is not
failed safe (`IndexHolds`, the partial unique index). `JobStory` is what a process
knows of the turn it works on, in a form that no other process can take back: what
was read as reserved may have been failed since, but a key is freed (`FAILED_SAFE`)
only by a process that knows that no call was made or that the call was reported
failed, and only after the turn was decided; `OwnTurns` says that no two processes
execute one turn. Interference is handled once, by `Grows`: whatever another process
does, executions do not vanish, cores stay, decided turns stay decided. `SpokenOnce`
then follows from the index, `NoUnknownRepeated` from the index and the status of an
execution with an open call. TLC checked `AutonomyInv` on the instance of
`autonomy_pair` before it was proved.

*Beliefs.* `CorrectionStands` is about memory, but what may still reach memory is in
the rows and in the drafts of stages. `ClearRows`: no row has a text that a statement
on it has written over. `ClearDrafts`: neither has the draft of a stage that still holds
the reservation (it read after the statement, or the statement had to wait for it), nor,
of answered corrections, the draft of a stage whose epoch is current. The second half
is what the comparison of epochs is for: a stage whose transaction was ended by the
server drafts from rows that are since corrected, and only the epoch tells it.
`LedgerAgrees` needs ids to be unique among rows (`UniqueIds`, from a clock that ids
do not run ahead of) and a draft to be a superset of the rows it replaces while the
reservation is held (`DraftInv`).

*Totals.* `Exclusive`: while a task holds the reservation, the event it claimed is
not in the log and the value it read is the value. It is why the condition of the
update never fails, why the emotional state may be written without one, and why
`hint`, the stale value of the caller, does no harm as long as it only fills
provisional columns.

*Envelopes.* A nonce is a key and a sequence. `KeysInOrder` and `SequencesInOrder`
say that files under the present key have sequences that were given out, and that
keys are never reused, so a sequence that starts again does so under a new key.
`NeverReapplied` needs the receipts: a completed message was for a key the device
lost, or all receipts of it are there and say APPLIED (`CompletedInv`), and what a
command is answering exists and was opened under the present key (`JobInv`). A
tombstone can only be overwritten by the checkpoint of an import, so
`TombstonesStay` rests on `RecordInv`: between the classification of a delta and its
checkpoint no entity it makes live became a tombstone, because a device runs one
command at a time.

*Edits.* `NoSilentOverwrite` speaks of one step, and what makes it true is spread over
both devices: the record in a file says what its content was made over, the classifier
looks at the row, and the row may have been edited since the last scan. `EditInv` says
that everything that travels tells the truth about the history. The history is closed:
what is under a content is under all that stands over it (`HistoryInv`). The latest
content of a row stands over what its metadata name (`RecordsInv`), so that a scan
sends a record made over its parent and ancestor (`RecordOK`), and every file holds
such records and decisions over both their heads (`SentInv`, `DeltaOK`). Between the
write of the rows and that of the records, the command carries only what is under the
row it wrote (`CarriedInv`); this is the window a crash or an edit of the chat falls
into. Conflicts and resolutions are of contents that exist (`ConflictsInv`,
`ResolutionsInv`), which is what `TypeOK` was short of. One lemma per action group
shows that the history only rises (`Rises`), and one per table that it then still
says the truth (`Follows`). The proof found two things a run of two edits cannot show,
both with a row deleted and made anew: the history has to remember the deleted content
(`erased`), and a resolution overwrites a row behind a tombstone, see below. TLC checked
the invariant on `sync_pair` and on instances of one entity with three and four edits.

*Convergence.* `ConvergedWithoutConflict` is about the moment when nothing is left to
do, and says nothing while files are under way. `ReportInv` fills that gap, for devices
that have met no conflict and left no change out (`Undisputed`; such devices have
decided nothing and lost no record). A device's record is what both began with or a
content some file reports (`RecordReports`). Whoever wrote a file has records that are
at what it reports or further on, and so has whoever completed it (`FileReports`);
between the rows and the checkpoint, the content a command is about to record stands
over the one it has on record (`CommandReports`). The step that matters is that
records only climb (`RecordsClimb`): a scan puts on a record what was written over it,
which `EditInv` knows, and a checkpoint what the classifier found to be over it, even
if the row was edited or erased between commit and checkpoint. When all files are
completed, the record of each device is therefore under that of the other, and if no
two contents stand over each other (`Overturned`), they are the same. The hypothesis
`Paired`, at most two devices, is needed: a scan exports to one peer. TLC checked the
invariant on the instance of `sync_pair` and on instances of one mutable entity, with
and without an original row, of up to four edits, four files and two crashes.

*The sidecar.* `SidecarInv`: a generation is drawn by one thread and given to one
process (`CallInv`), a generation belongs to at most one process whose exit has not
been told (`ChildInv`), the current one is set exactly in the busy phases and the
active child is the process of that generation (`LifecycleInv`). That an exit or a
deadline of an older generation touches nothing newer is then the comparison of
generations in each handler.

*The schema.* `StorageInv` says, of a recognised database, that each process is
behind it in a way its next transaction checks (`Fits`), and, of a stranger, that no
process is at a step that writes (`Stays`). It rests on lemmas about the
classifier over every database of `SchemaContract`, not only those that occur
(`CurrentClassified`, `LegacyClassified`, `GapClassified`, `StrangerClassified`), and
on `Evolves`, the only changes a database goes through, under which what another
process read stays usable (`FitsStill`). `OwnerInv`, a second invariant, is about the
first requests: an owner that was read is the owner, since a claim is conditional and
nothing removes one.

*The registry.* `RegistryInv` is `Tidy` as long as nothing was `overwritten`. `Tidy`
says of each command what it holds at each of its steps: its subject and what it
rendered of it (`SubjectInv`, `RenderInv`), which persona the backend was stopped for
and the registry is about to name (`SwitchInv`), which pieces a creation and a first
setup have put in place and owe the file (`CreateInv`, `SetupInv`), which pieces a
deletion has removed (`DeleteInv`), and that the registry it read differs from the
file only in what was taken out or put back since (`SeenInv`). The last is the point
of the proof: a command works on a copy, `manual_sync_action` may finish a deletion
meanwhile on a thread of its own, and its save of a registry in which the deleted
persona is missing does not hurt a command that never looks at her. Interference is
handled once, by `Calm`: whatever the recovery of the other thread does, it touches
only personas that are being deleted. The converse, its save over that of a command,
is the one case `overwritten` excuses. TLC checked the invariant on the instance of
`desktop` and on a larger one of 3,700,000 states before it was proved.

*The page.* What the page shows at rest is decided by answers that are under way
before it rests, so `WorkspaceInv` is about them. `ChatsOK`, `SnapshotsOK` and
`DeletesOK` are about messages: a reply is stored once and in the conversation it was
asked in; a load that may still replace the cache, because its revision is the
current one, was answered after every reply the session has received was stored, so
it has them all; an answered deletion is of a message that cannot be stored again. `PendingOK`:
what says it is being sent has its request open, in this session. `SwitchOK` is the
part that took longest to find: while a switch waits in the queue of commands, there
is no session, and neither a call of the present generation nor a command in front
of the switch that could begin one, so that whatever the switch makes of the active
persona, no answer of this generation speaks of the old one. `PersonaOK` and `MainOK`
then say that the answers of the present generation, and what the page took from
them, are of the active persona. Every handler ends in `Render`; one lemma
(`Rendered`) shows what a commit with all its effects can do to calls, commands and
poll, and one (`Committed`) that it keeps the invariant if the handler left the page
and the calls in order (`Handled`). TLC checked the invariant on the instance of
`workspace` and on larger ones of up to 3,700,000 states, where it refuted the first
form of `QuietIsRight`, see below.

*One device alone.* `AttemptsBounded` and `NoWorkSkipped` are false of two devices.
`Alone` of `ChatTurnProofs` says that there is one and that it runs in SHARED mode,
where its recovery is over before it accepts the first message: no recovery is under
way while a request is (`Exclusive`), and what either has read is still so when it
writes. For the attempts that is all (`AttemptInv`): a failure mark that is owed
belongs to a stage whose claim was granted, and nobody has raised its count since.
Skipped work needs more, because a product passes from the stage that makes it to the
stages that need it in two ways, by hand in the request and by its row in a recovery.
`ProductInv` says that a request holds every product it recorded, that recovery finds
it again if its row is there to be found (`Kept`), and that a stage completed without
work lacks a product nobody is left to make. The last part rests on the stage orders:
in each of the four, whatever makes a product comes before whatever needs it
(`NeedsArePassed`), which is proved from the position of every stage, since the orders
are concatenations the provers do not evaluate. The hypotheses of `LoneWork` are the
three ways in which a product is lost although one device is alone, see below;
`LoneExperience` is what is left of it without the last two, with any number of
turns and with the decision stage. TLC checked both invariants on the instance of
`turn_alone` and on instances of two turns of up to 670,000 states, and it shows each
hypothesis to be needed.

*One process alone.* `StreakBounded`, `DoubtIsReal` and
`RecoveryFailsBeforeProvider` are false of two processes and proved under the
hypothesis `Alone`, that there is but one: `LoneInv` says that what it read is still
so. An execution recovery has listed keeps its status until recovery itself changes
it, a turn it judged ambiguous has no message, and the limit a cycle looked at before
the reservation, and again before the call, is kept until it writes, because nothing
but its own `Persist` leaves a message unanswered; a message of the user in between
only lowers the count. TLC checked it on the instance of `autonomy_alone`.

*Only model-checked*:

- all liveness properties (`RunnableStagesSettle`, `StartedTurnsAreDecided`,
  `ExecutionsSettle`, `CallsReturn`, `SettlesCurrent`): the prover handles neither
  liveness under fairness nor ENABLED.

Every safety property of a passing run is proved, under the hypotheses the table
names where it is false without them (`Alone` of two modules, `Paired`).

No module uses a RECURSIVE operator; stage orders are sequences searched with
quantifiers.

## Where the code and its documents part

Two disagreements are runs of their own:

- **A dependent stage is skipped although its input exists** (`turn_skipped`).
  Recovery on `d2` reads the experience row before the live request on `d1`
  commits it and the stage rows after: `relationship` has its prerequisite
  completed and no input, so it is completed by `_no_op`, whose docstring promises
  a "durable prerequisite" that "proves no work exists".
- **A change that is never sent** (`sync_dropped`). The panel lists the conflicts
  whenever it is opened; the command behind it scans the database, records what it
  finds as seen, and throws the delta away. An edit made since the last scan is then
  in no later export: both devices report that there is nothing to exchange and
  their rows differ. `docs/SYNC_USER_WORKFLOW.md` says to repeat rounds until a fresh
  one "applies zero rows", and only of the first scan that it is not an outbound
  change. The same happens to a change exported to one of two peers.
  `ConvergedWithoutConflict` excuses it (`dropped`).

Others can be seen with the same modules and other constants:

- *An older version comes back* (`ConvergedWithoutConflict` without `Overturned`, one
  mutable entity, `Original` empty, three edits, two files, one crash). `b` writes the
  row of a first file and dies before the checkpoint; it imports a second file, an
  update of that row, to the end; the chat erases the row; the first file, whose
  receipt is still PENDING, is retried although its sequence is below the highest
  applied one (`_reserve`), finds no row and no tombstone, and inserts its version.
  The checkpoint goes back with it, both devices have nothing to exchange and never met a
  conflict, and their rows differ. The docstring of `apply_remote_delta` says that a
  retry "sees identical domain hashes, performs no second mutation", and
  `docs/SYNC_CONVERGENCE_MODEL.md` that it "does not repeat the domain mutation".
  `sync_pair` has no room for it: its two edits are one short.
- *A decision over a row nobody saw* (`NoSilentOverwrite` without its excuse, one
  entity, three edits). Before a resolution is applied, the row's hash is compared
  with the two heads, unless the row has a tombstone: then the tombstone's hash is
  compared in its place (`persona_sync.py`, `effective_hash`). A row the chat made
  anew under the deleted id, in none of the heads, is then updated to the result.
  An ordinary entry of a deleted entity raises a conflict instead.
- *A fourth attempt* (`AttemptsBounded`, two devices). The failure mark increments
  without a limit in its condition; two processes that both passed the claim check
  count one more than "three failed attempts". One device with a local database suffices: its recovery
  runs beside the first requests, may terminalize the turn, which sets the count to
  the maximum, and the request it met adds its own mark.
- *More work skipped* (`NoWorkSkipped`, one device). The run `turn_skipped` needs two
  devices or one with a local database; three other ways need neither. The commit of an
  experience is not acknowledged, and the request goes on without the experience it
  recorded (`LostAcks`). A decision that repeats an active one leaves no row of its
  own, and a recovery does not find it for `decision_episode_link`. Another turn takes
  over the episode of a turn that crashed, and its `narrative` is completed as a no-op.
- *Partial without a failed stage.* Terminalization writes `partial` whenever a
  message is missing, also when nothing was left to do.
- *A full batch starves later turns* (`RunnableStagesSettle`, two turns,
  `BatchLimit` 1). Turns nothing can be done for are listed but not written, so they
  stay the oldest and fill the batch at each start.
- *An ambiguity that is none* (`DoubtIsReal`, two processes). Recovery reads a
  started execution's turn, the message is persisted, and the verdict
  INDETERMINATE is written over MESSAGE_PERSISTED, which its condition admits.
- *The right persona over another's conversation* (`QuietIsRight` without `guessed`,
  one event, two commands of the persona manager, two failures). `/auth/me` fails
  with a server error and the persona shown comes from a stale list; a proactive
  message of that persona is opened; a second `/auth/me` puts the persona right and
  clears `unavailable`, the load of her conversations fails, and the conversation
  opened before stays (`App.tsx:315-321`, `openProactiveEvent`).
- *Recovered before a provider that was called* (`RecoveryFailsBeforeProvider`, two
  processes). Recovery fails the turn of an execution it read as RESERVED although
  its conditional update of the execution found PROVIDER_STARTED; the reply of that
  call is then refused. No message is doubled by it: `SpokenOnce` holds.

## What is not modelled

Scoring and text (context building, autonomy judgement, motivation, temporal
reasoning), provider wire formats, the read views of `routers/observe.py`, request
validation and sessions, command line and logging: no protocol state. The other
omissions are listed with each model above.

Clock skew between devices: it only changes which turns are listed first. A
decision merged with an older equal one and an episode taken over by a later turn
are in the model (`DuplicateDecision`, `MergedEpisode`) but need two turns and the
decision stage, which the passing runs do not track. A turn left pending before the
provider call is, by design, never selected by recovery.

Of the cognitive stores, `memory_service.py`, `knowledge.py`, `preferences.py`,
`intentions.py` and `working_memory.py`: what they compute inside the transaction of a
stage is covered by the atomicity of that transaction, and what they compute from
text is not modelled. Two things seen there: `upsert_memory` reads and writes without
a condition, so that two extractions that find the same memory can both insert it;
and evidence for a preference in one context can make a superseded opposite active
again.

Reconnecting to a persona, the setup wizard and the web login of the page, and the
migration of installations older than the registry: single sequences with no other
party, left out for size.

## Plan

What is left, most important first.

1. An abstract specification of the executions (an intention is spoken at most once
   per message of the user) and the refinement.
2. The command queue of `Workspace` shown to be what `PersonaRegistry` does, so that
   the page's abstract shell is the modelled one.
3. Memories and preferences as stores of their own, with the read and the write of
   `upsert_memory` as two steps.
