# gcx: a verification project

gcx is a command line tool for Grafana. Most of it translates requests and
responses; the parts that can go wrong in ways a unit test does not reach are
those where several processes or goroutines share state that must survive
failures: the configuration document and the secrets it refers to, its layers
and locks, its migration, the rotating OAuth tokens, the browser login, and the
pushing, pulling and deleting of resources in bulk. This directory holds TLA+
models of those parts, TLC runs that check them on small instances, and TLAPS
proofs for instances of every size.

To check a model: `tlc -config X.cfg M`. To check a proof: `tlapm M.tla`.
`PROJECT.json` lists the runs, the source lines behind every definition, the
hazards, and for each checked property a *mutant*: a variant of one definition,
with a plausible bug, that makes the property fail. Mutants stand in the models
right before the definition they vary, marked `Mutant:`; no action uses them.

## Inventory

Processes of gcx are short-lived commands. Those of one user share the
configuration files, their lock files, the OS keychain, and through them the
OAuth tokens; nothing else is shared between processes. Within a process the
concurrency is that of HTTP requests sharing one transport, of the bounded
worker pools of push, pull and delete, of the routes of a login, and of the dev
server.

| component | code | model |
|---|---|---|
| configuration document and keychain transaction | `internal/config/loader.go`, `keychain.go` | ConfigRegister, ConfigStore |
| layered loading and locks | `internal/config/loader.go`, `layered_lock.go`, `keychain_policy_mutation.go` | LayeredLoad |
| schema migration | `internal/config/migrate.go` | LegacyMigration (partly: not the conversion, nor the editor) |
| OAuth token refresh | `internal/auth/transport.go`, `internal/config/rest.go` | TokenRefresh |
| OAuth login flow | `internal/auth/flow.go`, `callback.go`, `paste.go`, `manual.go` | LoginFlow |
| resource push | `internal/resources/remote` | ResourcePush |
| resource pull and delete | `internal/resources/remote`, `cmd/gcx/resources` | ResourcePullDelete |
| HTTP retry | `internal/retry` | partly, in ResourcePush and LoginFlow |

Everything else is under *Not modelled*, at the end.

### Configuration document and keychain transaction

- State: a YAML file; for each credential field a value that is absent, a
  plaintext secret, or a *sentinel* that refers to a keychain account; the
  keychain; a lock file. In memory: the loaded config, with the bytes it was
  loaded from and what became of each reference.
- Operations: load (without the lock), resolving the references of the current
  context, automatic migration of plaintext, an edit by a command, write.
- Write: take the lock (30 s), compare the file with the loaded bytes, stage new
  keychain entries, capture what will be deleted, rename a temporary file over
  the document, sync the directory, delete replaced entries; on the way back
  restore deleted entries, restore the document, discard staged entries.
- Hard: every step can fail or be the last before a crash or power loss; a
  rename survives a power loss only after the directory is synced; loads run
  beside writes; processes with the keychain switched off write plaintext.
- Correct when: every document that can be found has references that lead to
  the secret meant; an edit reported as done is never lost, one reported as
  failed leaves nothing; no secret is left behind in the keychain; commands end.

### Layered loading and locks

- State: up to three files (system, user, repository), reached through links
  that can change, each with a lock; in memory the snapshots, the locks held.
- Operations: a first attempt without locks, which reads every layer, loads
  each, and reads it again; a second under all their locks, in the order of the
  canonical names, after discovering the layers again; the automatic migration
  of plaintext on the way; the keychain policy command, which loads under a lock
  it already holds.
- Hard: nothing is locked in the first attempt; locks of several files; a lock
  taken for one path and a write that goes to another.
- Correct when: what is merged existed at one moment (as far as comparing
  contents can tell: see *Limits of the code*), nobody waits in a circle,
  gcx's own writers never make a load fail, and no file is written while another
  process holds its lock.

### Schema migration

- State: the legacy document, its backup, the lock, and what of them would
  survive a power loss.
- Operations: lock, read again, collect secrets, write and sync a backup once,
  replace the document, reload; deferral of all of it to a later command.
- Hard: failures and deaths at every step; an older gcx that saves beside it.
- Correct when: the legacy document can always be restored, its backup is never
  overwritten, and the next command tries again until it succeeds.

### OAuth token refresh

- State: per process the tokens, the pending generation (rotated, not stored),
  the flight in progress; shared the lock, the stored tokens, the server's view.
- Operations: a request finds its token usable, or joins the flight, or leads
  one: lock, reload, exchange, compare-and-swap store, release.
- Hard: a refresh token is good for one use, so a lost answer or a stale token
  locks the user out; callers cancel; storing fails after the exchange; the user
  logs in again meanwhile.
- Correct when: no refresh token is presented twice and none is lost except by a
  failure nothing could absorb; a login is not undone; every request ends.

### OAuth login flow

- State: the guard on the exchange, the callback server's lock and its one-shot
  flag, two channels of one place each, the reader of the terminal.
- Operations: a callback, a pasted line, the exchange, the teardown; a manual
  mode without a server.
- Hard: both routes may receive the single-use code; a loser may report first;
  goroutines must end before the login returns.
- Correct when: one exchange happens, a token is never reported as a failure,
  and what the browser is told comes true.

### Resource push, pull, delete

- State: a summary, a list per kind fetched once per push, the tasks of a bounded
  pool; on the server the objects with their names, keys and versions.
- Operations: folders level by level, then the rest, each found by name or by
  natural key and updated or created; conflicts replayed; concurrent reads into
  one collection; selection of identities and concurrent deletions; all of it
  also as a dry run.
- Hard: partial failures, cancellation by the group or by the user, lost
  answers, other clients, servers that ignore a dry run.
- Correct when: parents precede children, nothing is created twice, success and
  exit code 0 mean what they say, a failed selection and a dry run delete nothing.

### HTTP retry

Sends a request again after connection errors and 429 or 5xx answers, whatever
its method. What the server sees of it is an action of ResourcePush (`Resend`):
a request that was executed is executed again.

## How the models map to the code

`PROJECT.json` has the lines of every definition. Calls of the file system, the
keychain and the network are steps of their own, because another process, a
goroutine or a crash can come between; what happens in memory between two calls
belongs to one step. Failing variants of a step consume one of a bounded number
of faults.

### ConfigRegister

What a document promises its editors: a register of *meanings* (the edits it
contains, and for each credential the secret a reader obtains). An edit becomes
visible at once (`Apply`), may be taken back exactly (`Undo`) until it is closed
(`Close`), survives power loss once `Settle`d, and is reported: "ok" only if
every document that can survive has it, "failed" only if none has. "undurable"
(the directory was not synced) and "retained" (cleanup failed with the new
document in place) promise neither. There is no code behind it; ConfigStore
implements it.

### ConfigStore

| model | code |
|---|---|
| `file` | the document |
| `disk` | the documents a power loss may leave: those renamed into place since the last directory sync |
| `keychain` | the OS keychain, account to secret |
| `lock` | the flock of the write lock |
| `cmd[p]` | the command process p runs: its program counter, the loaded bytes (`base`), status of each reference (`keychainStates`), the document to write (`next`), the keychain transaction (`staged`, `dels`, `gone`, `saved`) |
| `outcome` | history: what each edit's command reported |

A credential's slot is `Unset`, a plaintext secret, or an account. An edit sets
its field to itself as the secret, so a secret tells which edit it comes from.
`want` in a document is history: what its author meant. The conversion between
in-memory value and sentinel is the pair `Resolve` / `Validate`-`Stage`.

The actions follow the code in order: `Load`, `Resolve`, `FinishLoad` (with the
migration when anything in memory is plaintext), `Mutate`, `Acquire` or
`LockTimeout`, `Validate` (revision check and what `reconcileKeychain` decides
for each field), `Stage` / `StagePlaintext` (keychain switched off), `Preflight`
(capture), `Install` (rename), `SyncDirectory`, `DeleteOld`, `CommitDone`,
`Unlock`, and the way back `RestoreKey`, `RestoreFile`, `RestoreSync`,
`Rollback`. A keychain write that reports an error may have happened; a deletion
that reports one may have happened too.

Outside the model: documents are one file (layers are LayeredLoad's); an editor
that ignores the lock; the text of the YAML; sentinels copied by hand between
documents, which the code rejects by binding.

### LayeredLoad

| model | code |
|---|---|
| `content[f]` | a file: a number that stands for its meaning, and whether a secret is still written in it |
| `target[p][l]` | the file process p finds at the path of layer l (0: none); different processes have different repositories and homes |
| `lock[f]` | the write lock of a canonical name |
| `load[p]` | `loadLayered` and the options it passes down: snapshots, identities, locks held, the layer it is at, `writeLockHeldFor` |
| `seen[p]` | history: every view of the layers since the load began: the file at each path, and what it said |

`Snapshot` is the preflight that reads every layer, `LoadLayer` and
`MigrateLayer` the load of one of them, `Verify` the second look at it;
`Conflict`, `Relock`, `Acquire`, `Recheck` are the second attempt;
`StartPolicy` and `WritePolicy` the policy command. Another process's write of a
document is one step (`WriterWrites`): its details are ConfigStore's. The numbers
of contents are history and have no counterpart in the code (`NextContent`): every
write has a number of its own, which stands for a revision that no other content
has, so that a file changed away and back is not taken for unchanged. A path, though, may be linked away and back, or to another file that
says the same, and the load does not notice: it compares contents. What
`ConsistentView` says is therefore about the layers whose paths led to one file
throughout the load (`InPlace`), which gcx itself never changes. What the second
attempt does about paths that move, layers that appear and layers that vanish while
it waits for its locks is the subject of `OnlyLockedIsMerged`: it starts only with
the lock of every layer there is at that moment, and merges no other.

### LegacyMigration

A document is its revision, its form, and the legacy revision its content comes
from; a backup is absent, partial or complete. `disk` and `kept` are the
documents and backups a power loss may leave. The actions are the steps of
`migrateLegacyConfig` and of the part of `writeConfig` that replaces the
document, each with its failure. A credential that cannot be read defers the
migration, one whose reference is not valid ends the load (`CollectFails`). A
backup that could not be completed is removed, and the removal may fail as well,
which the code ignores (`LeavesBackup`). `torn` is history: a backup was left
behind, by a death or by a failed removal, before it was synced. `OldSave` is a gcx
of an older version, which takes no lock. What `load` reads again after the replacement (`Reload`) is taken
to replace what is in memory.

### TokenRefresh

| model | code |
|---|---|
| `mem[p]` | `RefreshTransport`: token, refresh token, `pending`, its previous generation and error, `blocked` |
| `flight[p]` | `inflight` and the local state of `refreshAndPersist` |
| `request[p][r]` | a goroutine in `RoundTrip` and its context |
| `lock`, `disk` | the config lock and the tokens stored in the config |
| `issued`, `unspent`, `aged`, `login` | the server: what it issued, still accepts, what is about to expire, and after which login |
| `mislaid` | history: generations spent while their successor did not reach the disk |

An access token and the refresh token issued with it are one *generation*, a
number. Each critical section of `t.mu`, each call of the persistence callbacks
and each end of the exchange with the server is a step. `Join` and `Lead` are
`maybeRefresh`; `Acquire` .. `Finish` are `refreshAndPersist`; `Persist` and
`PersistLoses` are the compare and swap of `WireTokenPersistence`;
`PersistFails` covers a write that reports an error, with and without the
document replaced. `Present` and `Receive` are the two ends of the exchange, so
that crash, loss, cancellation and other processes come between.

The configuration write is one step here; that it may be regarded so is what
ConfigStore's refinement of ConfigRegister shows for a document.

Folded together: expiry of the refresh token noticed locally and a changed
binding are failures of `PrepareFails`. Outside the model: a server that keeps
the refresh token (nothing rotates, so nothing is at stake), one that revokes a
family of tokens upon a replay (the model's server refuses the replay only),
logout, and a transport without persistence, which only `ProxyRefresh` uses, for
one call.

### LoginFlow

`tab[t]` is the handler of a request to the callback server, `server` what the
handlers share (its mutex, `consumed`, whether it still serves), `taken` the
`exchangeGuard`, `chan` the channels `resultCh`/`errCh` and the reader's, `flow`
the goroutine that runs `awaitCallbackOrPaste`, the exchange of a pasted code
and the teardown, `reader` the goroutine that reads the terminal. An answer is
what the checks of `handleCallbackParams` tell apart: of another login,
cancelled, denied, incomplete or complete with a code. Left out: the two second
backstop for a reader that does not end (a login that needed it would not end in
the model), the 5 s limit of `Shutdown`, what `reopen` does to the browser.

### ResourcePush

`batch` holds manifests (kind, name, natural key, parent, and what stops them
before any request); `push` is the run of `Push` with its levels and flags;
`task[r]` the goroutine of a manifest; `cache` the `naturalKeyCache`; `store`
the server's objects with their versions and who wrote them last. Kinds are what
the code tells apart: folders and other API resources, those that may ignore a dry
run, native kinds whose names the server derives, provider adapters whose names
the server assigns, with and without `RequireUnique`. A setting says of which
kinds the server `honours` a dry run, and for which the user asserts it
(`assumed`, the flag `--assume-server-dry-run`); adapters do not ask the allowlist
and send nothing. `Phase` and `EndPhase` are
`ForEachConcurrently` over one level and then over the rest; `Get`, `Match`,
`Fetched` are `upsertResource`; `Send`, `Replay`, `Rejected` the request with its
conflict replays; `DryRunHere` the guard, `Allowlisted` its list; `RequestFails`, `AnswerLost`, `Resend`
the network; `Interrupt` is Ctrl-C (`signal.NotifyContext`, `cmd/gcx/main.go`).

Assumed of the environment: a request takes effect at once or not at all, with
its answer lost or not; the names a server assigns are not names of manifests of
another kind; one native object has one key.

### ResourcePullDelete

`read[f]`, `got[f]` are the reads of `pullFilter`, with every way they end
(`Answer`, `ReadFails`, `ReadPartially`, `ReadCancelled`). A single name that
cannot be had is a failure; of a list of names one that is missing makes the
kind pass for one that cannot be listed, but an adapter reports the names it could
not read and returns the others (`Partial`). `Insert` is what follows the reads: in
a pull an adapter's preflight, which reads the server, or a processor may refuse
items (`Refuses`). Ctrl-C may end a preflight: `Pull` records that as a
failure of the item before it recognises the cancellation and ends the pull
(`PreflightCancelled`); and it may end a processor, as a preflight that cannot be
had ends the pull (`InsertFails`). `SelectLocal` is `selectLocalIdentities`, which
the user may interrupt too; `task[i]` a deletion; `failed`, `skipped`, `succeeded`
the summary; `error` and `cancelled` the group's. The command is a pull, a deletion
of what a selector finds, or of what local files say.

## Runs

Nine runs end with no error; three show a divergence between a statement of the
repository and its code. A definition called `AllSettings`, `Sensible` or the
like in an MC module lists the scenarios of a run.

| run | instance | shows |
|---|---|---|
| store_concurrent | 2 processes, one with the keychain off; 2 edits, 2 credentials, 2 faults | types, integrity, durability, invisibility, and that ConfigStore implements ConfigRegister |
| store_liveness | 2 processes, 2 edits, 1 credential, 2 faults, fairness | every command ends; without faults no secret is left behind |
| token_concurrent | 2 processes x 2 requests, 2 faults, 1 login | no replay, no lock-out, no second exchange, no undone login |
| token_liveness | 2 processes x 2 requests, fairness | every request ends while processes contend for the lock |
| token_exposure | 1 process x 2 requests, 1 fault | a divergence, below |
| layered | 3 layers over 2 files; 2 loads, or a load and a policy change; a writer, foreign changes, expired waits (4.4 million states) | consistent views, only locked layers merged in the second attempt, no circular wait, no write against a lock |
| push | batches of up to 4 manifests, 2 places, 2 attempts; faults, other clients, two pushes; dry runs with assertions of the user, true and false | order, account, no second copy, no lost update, dry runs, every push ends |
| pull_delete | 2 filters, 4 items, 2 places, 1 fault, 1 foreign deletion, Ctrl-C | the exit code, a cancelled pull, selection before deletion, every command ends |
| delete_named | the same without failures | a divergence, below |
| login | 2 requests to the callback server, 2 codes, 2 lines, 1 fault, all readers | one exchange, no false failure, what the browser is told comes true |
| login_claimed | the same with a reader of pasted URLs | a divergence, below |
| migration | 2 processes of every kind, 1 or 2 edits; 3 faults and a death, or an older gcx, or faults with a death and power losses | the legacy document can be restored, its backup stays, the migration ends |

### Why these bounds

- Two processes: locks make writers sequential, so what concurrency adds is a
  load beside one writer, and a second process that takes the lock right after
  the first. A third process adds only further waiting. In `layered` three kinds
  of actors meet, two at a time on each lock, which is what a circle needs.
- Two credentials: one in the current context, which every load resolves, and
  one outside, which a write meets unresolved. A write that replaces or clears
  one field must delete one entry and keep the other; with a migration pending
  it stages both.
- Two faults in a row reach the second step of a way back: a deletion fails, and
  putting the entry back fails or power is lost before the restored document is
  synced. In TokenRefresh a store fails, and so does the next one. Three reach
  the third attempt of a migration.
- `Accounts` has as many names as the run can use at once: those that the
  document on disk and the loaded ones refer to, those being staged, and those
  that a failed rollback leaks. An account that was deleted and that nothing
  refers to any more may be chosen again, which stands for another random name.
- `MaxGen`: the server issues a generation at a login, or for one that is about to
  expire (aging, or an invalid answer, which is a fault), so
  `1 + MaxAges + MaxLogins + MaxFaults` is never reached as a limit.
- `layered`: three writes let a writer overtake each of the two attempts and the
  second look of one of them; a load that meets no writer in one attempt is done.
  Two layers in either order are what a circle of locks needs; the third, as the
  same file as the first, is read again between the two and after both
  (`AllThree`).
- `push`: chains of three and trees of four give levels that differ; two places
  make one manifest of a level wait; two attempts make a replay and its end; two
  pushes with two faults lose the answer to a creation twice.
- `pull_delete`: two filters of which one fails, items that are refused, managed,
  not supported, missing; two places and one fault make a cancelled read.
- `login`: two requests and two lines give each route a loser; there is nothing
  a third could find that the second does not.

Symmetry is used in the safety runs of ConfigStore and TokenRefresh only, for
edits, and for processes and requests. Deadlock is checked where a command can
always be started again (ConfigStore, TokenRefresh); the others model one command
or a bounded number of them, which end.

### Fairness

Only the program itself is fair: `WF(Continue(p))` for a process of ConfigStore,
`WF(RefreshStep(p))` and `WF(RequestStep(p, r))` for TokenRefresh,
`WF(EndPhase \/ \E r : Step(r))` for ResourcePush, `WF(Step)` for
ResourcePullDelete and LoginFlow, `WF(Step(p))` for each process of
LegacyMigration. The scheduler of the OS and of Go run every runnable thread; a
call of the network either returns or times out, and `TryLockContext` polls for
at most 30 seconds, so waiting for the lock always has an enabled step. The
steps of the pools are fair only together: that one of them goes on is enough,
because each leaves less to do. LegacyMigration's fairness includes that gcx is
run again: *eventually migrated* says that neither a failure nor a death leaves a
state in which the next runs cannot succeed, unless it left a backup behind that
was not completed. Users (`Load`, `Mutate`, `Request`, `Cancel`,
`Login`, `Interrupt`), the clock (`Age`), other clients and failures are not
fair. Nothing is strongly fair: the lock may always be taken by someone else, and
then a command ends by its time limit. LayeredLoad states no liveness: what it
waits for is bounded by the same time limit.

### Divergences and remarks

Each is a run that violates one property.

- *token_exposure*: `internal/auth/transport.go:96` says a rotated, not yet
  stored generation must not be exposed before it is stored. `RoundTrip` decides
  under `t.mu` that the token is good and reads it later; a refresh in between
  has put the unstored token there, and the request sends it. The request
  succeeds; what is lost is only the stated order.
- *delete_named*: `cmd/gcx/resources/onerror.go:17` says that the default mode
  continues with all resources and exits with a non-zero code if one failed. When
  several names of a kind are given and one is missing, the read of all of them
  fails with 404, which `pullFilter` takes for a kind that cannot be listed: the
  others are not deleted, and the command exits with 0.
- *login_claimed*: `internal/auth/callback.go:53` says that the route that won
  the race delivers the result. The claim is taken before the exchange; when the
  exchange of a pasted code fails, the browser's own callback is told that the
  login is complete, nobody exchanges its code, and the login waits until it is
  interrupted.

Remarks without a run:

- `docs/architecture/config-system.md:133` says that reads without migration do
  not wait for the lock. `load` calls `writeConfig` whenever a plaintext secret is
  in memory, and a reference that was just resolved is one (`loader.go:653`):
  such a read waits for a writer, up to 30 seconds.
- The same document speaks of a plaintext fallback when the keychain is
  unavailable or a readback fails; `stageBoundSet` falls back only when the
  keychain is switched off, and fails the write otherwise.
- A comment at `internal/config/rest.go:465` says that a zero expiry triggers
  renewal upon the first request; `maybeRefresh` treats it as usable.
- `internal/retry/transport.go` repeats requests after connection errors whatever
  their method. `NoSecondCopy` therefore excepts a creation that the transport
  has repeated.
- `folder_hierarchy.go:109` speaks of parents that are always created before
  their children. Without stop-on-error a parent that failed does not keep its
  children from being sent; `ParentsFirst` says what does hold.
- `puller.go:212` says that a cancelled invocation must not become a batch failure.
  `Pull` records an interrupted preflight in the summary all the same, before it
  asks whether it was cancelled, and then returns the cancellation. Nobody sees the summary:
  `fetchResources` drops it with the error (`cmd/gcx/resources/fetch.go:95`), which
  is what `CancelIsNotAFailure` says. A caller that used it would be wrong.

### Limits of the code that the models make visible

- A save by an editor, or by a gcx too old to take the lock, between the revision
  check and the rename (`loader.go:1009`) is overwritten. LegacyMigration has the
  case (`OldSave`, then `Replace`): the save is lost, but what the backup holds
  still is what the new document was made of.
- A path that is linked to another file while a load is under way, and back, or
  to a file of the same content, is not noticed: the load compares revisions,
  which tell contents apart and not files (`loader.go:1316`; the identities are
  compared in the second attempt only). Two such changes can make a load merge a
  combination of layers that existed at no moment. The proof of `ConsistentView`
  came upon this; the property states what holds. A file rewritten to its earlier
  bytes would do the same, and is left out by giving every write a content of its
  own.
- A process that dies between writing its backup and syncing it leaves it to the
  next, which finds it complete and does not sync it (`migrate.go:1125`). A power
  loss after that can take the backup. The same
  happens when a process can neither sync its backup nor remove it. `RollbackSafe` excepts these sequences of mishaps, and
  only these.
- A load that has read the document and not yet resolved its references may find
  an entry deleted by a writer that has finished meanwhile (`loader.go:642`); it
  then sees the credential as missing, which the model has (`NotFound`).
- A process that dies while the backup is being written leaves a partial one. So
  does one that fails to complete it and then fails to remove it: the error of
  `os.Remove` is ignored (`migrate.go:1137`). An older gcx that saves after a backup
  was made leaves one of another document, and a power loss may leave one that was
  not synced. Each of these blocks the migration until someone removes the backup
  (`migrate.go:1164`). `EventuallyMigrated` excepts them: it is stated for runs
  without power losses and older versions, as long as no backup was left behind
  unsynced (`torn`). A death anywhere else does not matter to it.
- Requests that wait for the flight of another share its end, also when it was
  cancelled by a caller of its own (`transport.go:213`).
- A push repeated under other names finds by its natural key what another
  manifest has created, and updates it.

## Proofs

The provers establish these theorems for all values of the constants: any number
of processes, requests, edits, layers, manifests, items and faults. Each proof
module extends the model it is about, names an inductive invariant, and has a
lemma for each action or group of actions. What is proved from `Spec` needs no
fairness. The assumptions are those on the constants (`ConstantsOK`, `NoFileOK`,
`NoSaveOK`, `BoundsOK`, `LayeredConstantsOK`, `MigrationConstantsOK`,
`LoginConstantsOK`, `PullConstantsOK`, `PushConstantsOK`: finiteness, and that
the special values are no ordinary values), which TLC evaluates on every run.
Three theorems assume more, which the text below gives the reason for: `Alone`
and `Distinct` (ResourcePush; both evaluated by TLC for the checked settings) and
`Disjoint` (ResourcePullDelete). Every inductive invariant below was checked by
TLC on the instance of its component's run before it was proved.

Each safety invariant and action property of the runs that end with no error is
the subject of a theorem.

### ConfigStore

`ConfigStoreProofs`:

- `TypeCorrect`: `Spec => []TypeOK`.
- `IntegrityHolds`: `Spec => []Integrity`: every document that can be found, now
  or after a power loss, yields for each field the secret its author meant.

Integrity is not inductive: whether a deletion or a restored file is harmless
depends on where the writer is. `IInv` adds

- `LockHeld`: the lock is held exactly by a process in the critical steps, so
  that the file, the disk and the keychain hold still for the writer;
- `Documents`: readable, and no two fields of a document share an account
  (clearing one field would otherwise break the other);
- `Phase`, for each command by its step: before the write nothing is staged and
  the intended document differs only where it was touched (`Untouched`,
  `Intended`); from staging on, the new document refers to old accounts that are
  not to be deleted and to staged ones (`Linked`), it is readable but for what
  is still to be staged (`Staging`), and no visible document refers to what a
  rollback would delete (`Invisible`); before anything is deleted the old
  entries are captured (`Captured`), the old document cannot come back
  (`disk = {file}`), and each deleted one is restored or the document stays.

- `NoOrphansHolds`: `Spec => []NoOrphans`: while nothing fails and the keychain is
  on, no entry is left behind.
- `OnlyGoesOnHolds`: `Spec => OnlyGoesOn`: no command repeats itself.

`NoOrphans` speaks of the moments when all processes are idle; `KInv` says who
answers for an entry at any other. Every entry is one the document refers to, or
is in the hand of a writer (`InHand`): before the rename what it has staged, after
it what it will delete. For nothing to slip between the two, a command knows of
every reference in what it has loaded, and takes none for missing that is there
(`Known`); and what the new document no longer refers to is on the list of
deletions or is not there (`Settled`). That `Known` lasts while others write is
again the lock's doing together with the revision check: a command whose document
has been replaced meanwhile may know nothing true of it, and does not get past
`Validate`.

`OnlyGoesOn` is an action property: whatever step a command takes, and whatever
fails, it comes to a later round (a load with its migration, the load after it,
the write of an edit), a later step of the round, or has fewer references,
secrets or entries left to deal with at the same step, or is over (`Later`). It
is the part of `EveryCommandEnds` that is about this program, and not about its
scheduling: a command takes a bounded number of steps. It rests on `AllOnce`: a
command that is making an edit never goes back to loading, and a migration is
made once. No run has it as a property; it was checked with TLC on the instance
of store_concurrent.

`ConfigStoreOutcomes` builds on these:

- `SuccessHolds`: `Spec => []SuccessIsDurable`.
- `FailureHolds`: `Spec => []FailureIsInvisible`.
- `RefinementHolds`: `Spec => RefinesRegister`, that is, `ConfigStore`
  implements `ConfigRegister`.

Its invariant `EInv` follows an edit from its command to its report. Every
document that can be found *agrees* with the reports so far: it has each
successful edit and no failed one. An edit has one command (`Owned`). By step
(`EditPhase`): before the rename the command's edit is in no document, and while
it waits for the lock in nothing any process has loaded either, so that no other
write can bring it in; the new document has the edits of the loaded one and its
own; after the rename the loaded document, which may still be restored, agrees
with every report. The last clause needs the lock: other commands report
failures meanwhile (their wait times out), but no success.

For the refinement `RInv` adds what the register knows of a write and the
outcomes do not: the document to be written differs from the loaded one in at
most one credential, set to the command's secret or cleared (`Wanted`), and after
the rename the edit is in place, or, for a migration, no meaning has changed
(`InPlace`). With `IInv` every document means what its author meant
(`AsMeant`), so that keychain steps are stutters. The rename is `Apply`, or a
stutter for a migration; the directory sync is `Settle`; putting the old
document back is `Undo`; a report is `Report`, whose promises are `EditPhase`;
the step that ends the time in which a write can be taken back is `Close`.

### LayeredLoad

`LayeredLoadProofs` has `NoCircularWaitHolds`, `NoUnlockedWriteHolds`,
`OnlyLockedIsMergedHolds` and `WritersNeverFailALoadHolds`. The invariant is `Types`, `Shape` (what a process
has read and holds at each step) and `Owns` (a lock is held exactly by the
process that thinks so). From it, every process waits for a file above all that
it holds, so that a circle would climb for ever; the wait of a migration is for a
file that it does not hold, because `writeLockHeldFor` covers those. A write
happens only under its lock. The second attempt starts when the load
holds the lock of each layer that it finds, and reads every layer under them. For
`WritersNeverFailALoadHolds` `OInv` says: as long as no
foreign change has happened, every load is undisturbed (`Undisturbed`) and none
has failed because a layer changed, moved or vanished. Undisturbed means that
under the locks the layers are those that were found, and what was read is
current, but for later layers that are the same file as one just migrated; those
are read again. Without locks a disturbed load may conflict, and goes on to the
second attempt.

`TypeCorrect` adds to `Types` and `Owns` that no version is larger than the number of writes
and foreign changes so far, which their own bounds limit (`Bounds`).

`ConsistentViewHolds` has to show that a moment exists, in the past, at which all
layers said what was read of them one after the other. `VInv` says for a running
load that what is there now is among the views it has seen (`Watched`), and that
some view seen so far is a witness (`Faithful`, `Witness`): nothing that was read
is of a later version than that view, a file that has not been written since says
what it said in it, and what has been merged is what it says. The view is that at
the end of the first reading. Whether a layer still says what was read is found out
only when it is looked at again; if it does, its version is not later than the view,
and it said so in the view too. Versions only grow (`Newer`), so that a witness
remains one.

### LegacyMigration

`LegacyMigrationProofs`: `TypeCorrect`, `RollbackHolds`, `BackupStays`. The
invariant adds to `RollbackSafe` that a complete backup is synced unless it is
just being made (`Settled`), that a command that edits works from a current
document (`BaseOK`), that while a backup is being made every document that can
be found is a legacy one, which needs none (`MakingOK`), and that before a legacy
document is replaced its backup is complete and the only one a power loss can
leave (`ReadyOK`).

### LoginFlow

`LoginFlowProofs`: `TypeCorrect`, `OneExchangeHolds`, `NoFalseFailureHolds`. A
handler that decides has the server's mutex and nothing was decided before
(`Deciding`); the guard is never given back, so that only one exchange is started
(`Guarded`); a result is told only with a token, and once there is one no
handler's failure is told or will be (`Sent`, `Clean`). The manual mode has
neither server nor reader (`Alone`).

### TokenRefresh

`TokenRefreshProofs`: `TypeCorrect`, `NeverReplayedHolds`,
`LockedOutOnlyByFailureHolds`, `NeverPresentedAgainHolds`, `LoginWinsHolds`. They
share one invariant: a flight has one leader (`Led`), the lock is held from its
acquisition to its release (`Locks`), and for each process (`Orderly`) what is
pending follows a generation that is or was on the disk and is unspent while that
is still there (`Pending`), a process that is not blocked finds on the disk
something later than all it had an answer for (`Answered`), and what it presents
is what is on the disk (`Flying`). Behind it is one idea (`Kept`): the disk moves
on to later generations only, and what is on it is unspent, or mislaid by a
failure, or being used up by the holder of the lock.

Two more theorems are about how often the server is asked:

- `PresentedWhenOldHolds`: `Spec => []PresentedWhenOld`: a refresh token is
  presented only when its access token is about to expire, although many requests
  and processes find it so at once. A refresh that waits for the lock was begun
  for want of a usable token, and one that finds a usable one stored adopts it
  (`Needed`).
- `EnoughGenerationsHolds`: `Spec => []EnoughGenerations`: the bound `MaxGen`
  excludes no behaviour. `GInv` counts: what is spent had grown old, so there are
  at most `MaxAges` of it and one more for each fault; unspent is one generation,
  and one more for each login.

And two are about how a request comes to its end, as far as that is the program's
doing:

- `NobodyLeftWaitingHolds`: `Spec => []NobodyLeftWaiting`: whoever waits for a
  refresh waits for one that is under way. A refresh that ends, also with its
  process, ends all the waiting for it at once (`Over`).
- `OnlyGoesOnHolds`: `Spec => OnlyGoesOn`: a refresh goes from the lock to its end
  without taking a step twice, and a request from its check to its end; who has
  waited for a refresh that failed gets its failure and does not begin another.

None of the four is a property of a run; they, and `GInv`, were checked with TLC on
the instance of token_concurrent.

### ResourcePush

`ResourcePushProofs`: `TypeCorrect`, `ParentsFirstHolds`, `AccountedHolds`,
`StaleHolds`, `DryRunHolds`, `NoSecondCopyHolds`, `SuccessIsStoredHolds`,
`VerdictsAreFinalHolds`, `OnlyGoesOnHolds`. The invariant has: versions
seen are not later than the server's (`Versions`), so that an object that has
changed since it was read never gets the old version back; the levels put every
folder right below its parents (`Ordered`); only the manifests of the phase are
under way and the folders of earlier ones are done (`Turns`); done means to have
an outcome (`Outcomes`), so that with as many outcomes as manifests every one has
had its turn; folders that were pushed are there (`Stored`).

`NoSecondCopyHolds` adds `KInv`: a list that the push uses has everything of its
kind that is on the server, except for what manifests of this push have put
there that are done or were sent twice (`Covers`); so what is missing from a list
is absent from the server until the manifest itself is sent. For adapters,
which check no version, it assumes `Alone`: their manifests have natural keys, no
two the same, and nobody else changes the server meanwhile. Without that a second
copy can appear in the code too: the list is read once and the creation comes
later. `MCResourcePush` states that `Alone` holds of the checked settings.

`SuccessIsStoredHolds` adds `SInv`: what the push is about to update is the object
of the manifest (`IsOf`: of its key, or of its name where the kind has no keys),
what is in a list of the push is still there and still of the same key (`Remains`),
and a manifest that succeeded has its object on the server, last written by
itself. That nobody of the batch writes it afterwards needs `Distinct`: the
manifests are of different objects, and what an adapter finds by the name in a
manifest is what it finds by its key. Two manifests of one object overwrite each
other in the code as well, and a name that comes from another server may be
that of a different object on this one. `MCResourcePush` states `Distinct` of the
checked settings.

`DryRunHolds` says that a dry run changes nothing on whatever server, unless the
user has asserted of a kind that dry runs are honoured where they are not
(`RightlyAssumed`): then the request is sent and the server carries it out.

The last two are action properties that no run has, checked with TLC on the
instance of the push run before they were proved. `VerdictsAreFinal`: until the
next push begins, what is recorded of a manifest stays, and it does not come back
to an earlier step. `OnlyGoesOn`: each step takes a manifest further, is a replay
(`TypeCorrect` bounds these by the retry steps), begins a level or a phase, or is
a fault. They are the part of `PushEnds` that is about this program: a conflict
or a lost answer never makes a push start over.

### ResourcePullDelete

`ResourcePullDeleteProofs`: `TypeCorrect`, `ZeroMeansDoneHolds`, `CancelHolds`,
`DryRunHolds`, `SelectionHolds`, `OnlyGoesOnHolds`. The invariant has the stages of
a command (`Stages`); that, unless some failure is recorded, what is on the server is in
what was read, then in the collection, then deleted, or was skipped (`Complete`);
that what could not be selected is not read, and with stop-on-error stops
everything (`Selection`). `CancelHolds` is about every step that Ctrl-C may end,
reads, preflights and processors of a pull, selections and deletions: a failure
that is recorded for it is one of a pull that ends with the cancellation and drops
its summary, or one of a deletion that is reported. `DryRunHolds`, that a dry run
deletes nothing, no run has as a property. `SelectionHolds` assumes that filters
are of different kinds (`Disjoint`), and shows that nothing of a filter that could
not be selected is collected (`Spared`). `OnlyGoesOn` is an action property that no run has,
checked with TLC on the instance of pull_delete: nothing is read or deleted a second
time, no stage comes back, and each step of a command brings a filter, an item or
the stage further. A command so takes a bounded number of steps, which is the
part of `CommandEnds` that is not about scheduling.

### What is only model-checked

- Liveness: `EveryCommandEnds`, `EveryRequestEnds`, `PushEnds`, `CommandEnds`,
  `ToldEnds`, `EventuallyMigrated`. Fairness and ENABLED are out of the prover's
  reach. What bounds the steps of a command or a request in ConfigStore,
  TokenRefresh, ResourcePush and ResourcePullDelete is proved (`OnlyGoesOnHolds`
  in each); that it takes them is not.

A note for readers who change the models: intersections of two enumerated sets,
and SUBSET or UNION followed by a set difference without parentheses, are
avoided; the provers' front end reads them differently from TLC. No module with a
theorem uses a recursive operator; levels of folders are given by their
recurrence.

## Not modelled

The models cover the protocols; most of the repository's 200 thousand lines are
providers for Grafana products, command lines and rendering, which have no state
that outlives a request, so that the mapped lines are about one in fifty of all.

- Login orchestration (`internal/login`, `cmd/gcx/login`): a sequential dialogue.
  Its effects are modelled where they land: `Login` in TokenRefresh, an edit in
  ConfigStore.
- The conversion of legacy documents and its self-checks (`migrate.go`), the
  merge of layers field by field (`merge.go`), the editor command: functions of
  documents, which the models treat as values.
- Optimistic read-modify-write (`internal/providers/instrumentation/rmw`): one
  remote object without a version check at the API; the window between the second
  read and the write is documented in the code and has no protocol to check.
- Watcher reconciliation: two writes, of which the second may fail and is
  reported; the next push does both again.
- Dev server and live reload: keeps nothing; the worst outcome is a page that
  does not reload.
- Telemetry, agent log, notifier: best effort, no decision depends on them.
- HTTP retry: backoff, Retry-After and the number of attempts; only what the
  server sees of a repetition is modelled.
- Providers for queries, datasources and products, assistant conversations,
  output, formats, linting, graphs, docs, skills, command line: translation of
  requests and responses, pure functions, wiring.
