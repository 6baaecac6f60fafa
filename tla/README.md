# Zhaocai Gateway in TLA+

A specification of the parts of Zhaocai Gateway whose correctness depends on the
order in which things happen: what device configurations are published and how
nodes install them, what the installed file contains, how nodes are paired, how
requests to models fail over, how the registry is filled with free models and
templates, and how an older database is brought up to date; with the legacy gateway,
the legacy node sync and the legacy aliases for free models. The modules are
translated from the source; `PROJECT.json` maps their definitions to its lines.

    tlc -config MCConfigSync.cfg MCConfigSync     # a model checking run
    tlapm ConfigSyncProofs.tla                    # the proofs of a module

## The system

| Part | State | Operations | Interacts with |
|---|---|---|---|
| **Control plane**: `zhaocai_gateway/` (FastAPI) over one SQLite connection, `db/store.py` | every table of `db/schema.py` | below, by service | everything but the agent's files |
| Configuration: `services/config_compiler.py`, `save_config_snapshot` | `config_snapshots`, `devices.current_config_version` | compile a device's configuration, save it as the next version when it differs, read the latest | the registry it reads; the agent that polls |
| **Node agent**: `agent/` | `agent.json` (tokens, last version and ETag), `openclaw.json`, its backup and the preserve sidecar; local variables | register; poll, fetch, merge and install, reload, report, save | the control plane's agent API; OpenClaw through a reload command; a service manager that restarts it |
| Pairing: `services/pairing.py` | `pairing_tokens`, `devices.sync_token_hash` | issue, consume, activate, heartbeat | the console that shows the token, `agent register` |
| Runtime gateway: `services/gateway_aliases.py`, `api/runtime.py` | `gateway_aliases`, `gateway_alias_targets`, accounts' health and cooldown, usage events | replace an alias's targets, invoke an alias with failover | upstream accounts over HTTP; client keys |
| Upstream accounts: `services/gateway_accounts.py` | `gateway_upstream_accounts`, `gateway_models` | create, edit, delete, test, discover, import, sync | upstream `/models`; the runtime gateway that reads them |
| Registry: `services/providers.py`, `services/models.py`, `services/devices.py` | `providers`, `models`, `devices`, `device_model_bindings` | edit, test, synchronise OpenRouter's free models, bind models to devices | the compiler reads all of it |
| Templates: `services/universal_templates.py`, `services/media_*.py` | template tables, `media_providers` | edit, list, import into the registry | the registry, the console |
| Client keys, usage: `services/gateway_client_keys.py`, `services/gateway_usage.py` | `gateway_client_keys`, usage events | create, edit, authenticate; aggregate | the runtime gateway |
| Schema and migrations: `db/schema.py`, `SQLiteStore.init_schema` | every table | run at each start, commit by commit | the restart policy of the container |
| **Legacy gateway**: `gateway.py`, `providers/`, `responses/` | routing table, health, round robin cursor and rate limits, in memory | chat with fallback, health check, refresh | upstream providers; `config.yaml` and the legacy control plane |
| **Legacy control plane**: `control_plane/`, `scripts/node_sync_agent.py` | its own SQLite database behind a lock; the node's file and ETag | edit, fill the aliases of free models, compile a node's file, answer by ETag; poll, write, reload | the legacy gateway reads its routes |
| Console: `web/` | none of its own | calls the admin API | the control plane |
| Deployment and maintenance scripts | none | one-shot | |

### What is hard about it

* **One connection, many threads.** FastAPI runs `def` endpoints in a thread
  pool, and `SQLiteStore` shares one connection (`check_same_thread=False`)
  without a lock. A statement is atomic; a method is not, nor is a transaction:
  every thread reads what another has not committed, and any commit makes
  everybody's statements durable. The v2 modules interleave statement by
  statement, and those that model crashes keep the state on disk apart from the
  one the connection sees.
* **Crashes.** The control plane may end between two statements; the agent's loop
  catches nothing, so every failed request ends it and the service manager starts
  it anew; `agent.json` is written by truncating it first.
* **Requests of many statements.** A synchronisation of free models or an import
  looks for a row, inserts it when it is missing and deletes what is not selected,
  each with a commit of its own; no UNIQUE stands behind the look-up, and two of
  them interleave as they like.
* **Migrations in steps.** `init_schema` commits after each of its steps, and may
  fail or be killed between any two; the next start sees what is left.
* **Two requests that should be one.** The agent learns the version from `/meta`
  and the content from `/config`, between which the configuration may change. A
  registration consumes the token in one transaction and activates in another.
* **Rows read before a call and used after it.** Upstream calls last up to 30 s,
  during which accounts, models and targets are edited, tested or deleted.
* **Coroutines.** The legacy gateway interleaves at its awaits only, but replaces
  its routing table during them. The v2 runtime endpoints are `async def` and
  block: at most one runs, beside the admin threads.

### What makes each part correct

* Configuration: versions of a device are gapless, unique and never change what
  they stand for; equal content makes no new version; the device never goes back,
  never records or reports what it does not run, and ends on the last one.
* Pairing: a token registers one machine once; what a machine was told is on disk.
* Runtime gateway: a failure moves on exactly when the target's flags say so; a
  cooling account is left alone, but not for ever; the client sees the answer of
  the last call made for it.
* Registry: a synchronisation leaves what it selected, two that overlap leave the
  selection of one of them and no mixture, and a row is listed once.
* Templates and bindings: readers see a list as it was before a save or after it
  (they do not: see hazards in `PROJECT.json`), but never a mixture of two.
* Migrations: no row is lost, orders are kept, and in the end the process serves.
* Legacy gateway: turns are fair, a failed request has tried all it may, health
  follows the upstream.
* OpenClaw file: the default models resolve, what is preserved stays, what was
  withdrawn is gone, and installing again changes nothing.
* Legacy node sync: versions are unique, the node never goes back, the ETag it
  sends is that of the file it has, and OpenClaw ends up with the current models.

## Modules

| Module | What it is |
|---|---|
| `ConfigHistory` | abstract: a history of configurations that is published and installed forward |
| `ConfigSync` | the control plane's snapshot statements, composed with the agent that polls them; implements `ConfigHistory` |
| `ConfigSyncProofs` | its theorems |
| `Pairing`, `PairingProofs` | tokens, registrations, devices; its theorems |
| `AliasFailover`, `AliasFailoverProofs` | a runtime request beside the administrators' edits, saves, tests and syncs; its theorems |
| `OpenClawMerge`, `OpenClawMergeProofs` | the payload, the merge into `openclaw.json`, the preserve sidecar; its theorems |
| `Registry`, `RegistryProofs` | free models synchronised and templates imported, statement by statement, beside edits; its theorems |
| `FreeModels`, `FreeModelsProofs` | which free models both control planes choose, as operators; theorems about them for every listing |
| `Ordering` | the members of a finite set in a given order: every `sort` and `ORDER BY` of the other modules |
| `Migration`, `MigrationProofs` | `init_schema` on the database of any earlier release, and the media and binding requests served after it; its theorems |
| `LegacyGateway` | the legacy gateway's event loop |
| `LegacyNodeSync` | the legacy control plane's node files and the script that polls them |
| `LegacyFree` | the legacy control plane's aliases for free models |
| `LegacyProofs` | the theorems of the three legacy modules |
| `MC…` | instances for TLC; each `.cfg` is one run |

### ConfigSync

`db` is what the shared connection sees (the registry the compiler reads, the
snapshot rows, the device's current version), `disk` what the last commit made
durable. Each request thread `handler[h]` has a pc and its local variables: it
compiles (`CompileRead`, one step for each statement the compiler executes, so a
compilation may mix two states of the registry), looks up or compares the latest
row, inserts, points the device at its version, commits, replies. A row that the
UNIQUE constraint refuses ends the request with an error (`InsertConflict`), and
the agent that waited for it dies. The agent's pc follows `sync_once`; its memory
holds the stamp it compares, `agentFile` the one it saved, or `Corrupt` when it was
killed between truncating and writing. `output` and `running` are the snapshots
that `openclaw.json` and OpenClaw have. A payload is abstracted to the values that
were read (`Content`), and a snapshot's ETag, a hash of content and version, to the
snapshot itself: this is the assumption that SHA-256 does not collide.

`ConfigHistory` says what a reader of this code would promise: configurations are
appended, become durable in order, and a device installs forward. A crash may lose
what was not durable; a device that had installed such a configuration is out of
the promise from then on, and only then.

### Pairing

`db`/`disk` again, with the tokens' owner and used mark, the devices' sync token
hash and the deleted devices. A thread selects, marks, commits, activates, commits
and replies; a machine may give up waiting and ask again, the token may expire,
the device may be deleted with its tokens, the process may crash.
Sync tokens are numbered, which stands for their being random and distinct. How often a
token stored one (`uses`) is kept beside the rows and taken back with them by a crash;
`lost` names the tokens of the registrations that a crash found between the `UPDATE` of
the token and the commit of the device, the only ones `SpentForUse` excepts.

### AliasFailover

`request` is the local state of `_invoke_alias_request`: the targets it still has
to try, the account row as it was read, the last failure. The rows of a list are
numbered in the order in which `list_gateway_alias_targets` returns them (`First`,
`Rest`); a deleted row leaves a gap. Administrators' actions
change `account`, `model` and `targets` between any two steps; a save deletes the
alias's rows and inserts the new ones one by one (`saving`), and a row refused by a
constraint leaves the list partial, as in the code. Tests and syncs (`probe`) end
with a status update that clears the cooldown; a sync selects once which models upstream
no longer lists (`Missing`) and then switches them off one by one. There is no clock: a request
compares deadlines with the time at which it began, so it is enough to know which
deadlines are ahead (`cooling`) and which are after that time (`held`). The alias
itself exists throughout; a request for an unknown alias is a 404 without effect.

### LegacyGateway

A request (`chat[r]`) runs from its start to its first call upstream in one step,
since nothing is awaited before; then each answer is one step, which ends the request or
sends the next call. `sent` keeps whether the provider worked when the call was
sent: the answer is one that it may have given then or since, so late results are
included. `Candidates` are the healthy providers in the order of the table, `Orders`
the orders a strategy may put them in, `Attempts` what of an order is tried. A refresh may happen at each place the code calls it, or be skipped
because the last one is recent.

### OpenClawMerge

What `ConfigSync` calls content, seen from the inside: `db` has the device's bindings
(an ordered list of model keys), the providers that are switched off and the
preserve configuration; a save deletes the bindings and inserts the new ones one by
one (`saving`). A document is what `openclaw.json` means: provider entries with their
models and who wrote them, the aliases, the default chain of models, and `other` for
the rest. `Merge` is `_replace_model_sections`, `Output` the whole of
`write_openclaw_config` up to the replacement, `KeptProviders` and `Override` the
selection of preserved entries. The agent's cycle compiles statement by statement,
then compares, writes the sidecar (truncating it first), reads and merges, replaces,
reloads. Somebody may edit `openclaw.json` or the sidecar on the node between any two
steps, or leave a file that does not parse. The transport is the one of `ConfigSync`
and is not repeated: one agent, and one compilation per cycle. The `.bak` copy is
left out, since no code reads it.

### LegacyNodeSync

Again one connection for all threads, but writers hold a lock (`saving`) from their
first statement to their commit, readers do not take it, and
`save_node_config_version` compares and computes the next version before it takes
it. A thread verifies the token, reads the node, reads the models, stamps the payload
with the second, compares, inserts or is refused by the UNIQUE constraint (400),
reads the latest row again and answers it. `script` is `sync_once` and its loop: it
remembers the ETag in memory only, may time out while the thread goes on, may fail to
write or to reload, and may be restarted. `file` and `running` are the stored rows
that `openclaw.json` and OpenClaw have. An ETag is a hash of payload and version and
stands for the row. An administrator may fetch the file too. A crash of the control
plane is left to `ConfigSync`, whose store has the same shape. `ReloadFails` happens
only while the modelled clock can still tick: in the code seconds never end, and a
later second is what repeats the reload.

### FreeModels, Registry, LegacyFree

An item of OpenRouter's listing is abstracted to what the two programs look at: its
price, context, parameters, modalities, and the marks they search its id for.
`FreeModels` has both scores, both selections and the legacy aliases as operators on
listings, in which an item is named by its index (`Named(answer)`, those that count),
and states without an order of work what they are to return (`TopIsRight`,
`MapIsRight`). A sort is `Ranked`, the order of `Higher`: by score, and as listed
where scores are equal. `IsListing` is what is assumed of an answer: no id twice.

`Registry` is the console's side. `providers` gives the id behind each of the names
that matter, `models` the rows of the table; one step is one statement with its
commit, since every store method ends in one. `request[r]` is a handler's local
state: `op` is what it does, `todo` and `list` what is left to write and what was
selected, `row` the row it found, `doomed` what it listed and will delete. The two
providers are looked up one after the other (`FindLegacy`, `FindProvider`), so a rename
may come between. The administrators' other requests are single steps (`AdminEdit`); a row that is gone when
it is read back, and a refused constraint, end a request where it is (`Abort`). `keys`
says whether the connection enforces foreign keys: it does not for as long as the
process runs that migrated the database (see `Migration`). `last`, `clean`, `raced`
and `mixed` are history, of which the properties speak.

`LegacyFree` is the legacy control plane's side. Its store takes a lock in each
method, so a step is a method; aliases and providers are unique there and nothing is
deleted, so the interest is in four aliases written one by one, beside providers that
are created with their models, or renamed. Each sync carries as history what the aliases
were when it began (`before`) and which of them others have written since, or since it
wrote them itself (`touched`). `tidy` is history of the whole: every sync had two free
models or more, those that overlapped had the same map, no crash cut one off, and nobody
else wrote a slot.

### Migration

`table` is `media_templates` (none, of the old schema or of the new, the columns it
lacks, its rows), `legacy` the table it was renamed to, `behind` and `priority` the
columns of other tables. A start has no company and is a sequence of commits (`Schema`
to `EnsureMediaColumn`); what `sqlite3` holds in one transaction, the copy and the
drop, is one step, and DDL commits at once. `Crash` may fall anywhere and the initial
states are the databases of every earlier release. Then the process serves: media
providers and templates, whose requests check first and act later (`calls`), and the
saves of a device's models, whose order the migration of `priority` must keep. Such a save
is one step here; the list that it leaves half written is the subject of `OpenClawMerge`.
`owed` are the rows of the old schema that nobody edited since.

## Runs

Each module has one passing run, with its safety properties and, where the code
promises that something happens in the end, its liveness property under the fair specification;
the others are the findings'.

| Run | Instance | Shows |
|---|---|---|
| `sync` | 2 threads, 2 statements per compilation, 2 contents, 1 edit, 1 agent death, 1 crash (633k states) | snapshot history, agent's record, forward motion, refinement of `ConfigHistory`, convergence |
| `pairing` | 1 device, 2 tokens, 2 machines, 2 threads, 3 activations, 2 crashes (421k states) | registrations are durable, late reuse is refused, only a crash between two commits uses a token up for nothing |
| `pairing_onetime` | 1 token, 2 threads | a token *can* register two machines (finding) |
| `failover` | 2 accounts, 3 models, 4 target lists, 2 admin requests, 1 outage (411k states) | flags, cooldowns and answers; recovery |
| `failover_cooldown` | as `failover` | a failed test ends a cooldown (finding) |
| `legacy` | 3 providers, 3 tables, 1 request coroutine, 1 check, 1 retry, 1 change (487k states) | turns, attempts, health follows the upstream |
| `merge` | 2 providers with 2 models each, 2 admin requests, 1 edit on the node, 1 agent death (306k states) | default models resolve, preserved entries stay, withdrawn ones go, the last save arrives |
| `merge_dangling` | as `merge` | a payload without models leaves default models that do not resolve (finding) |
| `nodesync` | 2 threads, 2 profiles, 2 models, 1 admin request, 1 fault, 2 seconds (782k states) | version history, ETag, forward motion, OpenClaw ends up current |
| `registry` | 2 threads, 3 requests, 5 row ids, 3 listings, 2 template lists, 1 edit, crashes (2.2M states) | what overlapping syncs leave, no twins without a race, an import reads one save, the ranking |
| `migration` | 2 devices, 2 models, 2 template keys, 3 ids, 2 requests in flight, 4 edits, 2 crashes (873k states) | no row lost, orders kept, nothing hidden, serves in the end |
| `legacyfree` | 2 threads, 3 requests, 4 listings, 1 edit, crashes (1.4M states) | a sync fills its slots beside others, `general` is not `best` after syncs of one listing that overlap, the choice of aliases |

`registry` and `legacyfree` also check the choice itself, once, on every listing of up
to five of seven items that differ in price, name, marks and modalities, among them
ties, items without an id and listings without a model that takes images.

Why these bounds: two threads are enough for every race between a read and a write
of the same row, since each conflict in the code is between two statements; a
single edit during a compilation is enough for a snapshot that mixes two states, and
a binding list that repeats a model for a save that fails halfway. Content that
returns to an earlier value (A, B, A), which an ETag comparison could confuse, needs
more edits than TLC affords beside two threads and a crash: the safety properties
are proved for any number of them. One crash and one death may fall anywhere; two
models of one account and one of another are the smallest case in which a
cooldown matters within a request; three providers the smallest in which a
rotation differs from a swap. Two crashes are enough for a start that is killed while
it repairs what a killed start left, and one edit for a provider that is renamed or
removed under a running synchronisation; five row ids let a template be saved and
imported while a synchronisation creates its provider and a model. The safety
properties of all modules are proved for all bounds. Bounds are in the guards and named `Max…`; `CHECK_DEADLOCK FALSE` stands in
every configuration because the bounds let the model stop, and a node whose
`agent.json` is corrupt does stop.

## Fairness

* `ConfigSync`: a thread runs on (the operating system schedules it), the agent's
  loop has no end of its own and its service is restarted, and an administrator's
  request goes on to its commit. Edits, deaths and crashes are not fair.
  `Converges` excludes a corrupt `agent.json` and undone snapshots in its
  hypothesis: with them the property is false of the code.
* `AliasFailover`: clients keep asking, handlers that began go on (every upstream
  call has a timeout), and deadlines pass.
* `OpenClawMerge`: a save of bindings goes on, and the agent's loop has no end.
* `LegacyNodeSync`: the lock is given back, threads go on, the script's loop catches
  every exception and has no end, and time passes. `Settles` asks that the node is
  active and the script's token good in the end.
* `Migration`: a start goes on, and the container is started again whenever it ends
  (`restart: unless-stopped`, `docker-compose.yml`). Requests and crashes are not fair;
  `EventuallyServes` is about a finite number of crashes, as its bound says.
* `Registry` and `LegacyFree` have no liveness property: a request may end in an error
  at any step and nothing repeats it.
* `LegacyGateway`: every call ends, if by its timeout, and somebody polls
  `/health`, as the container's health check does. Requests alone never make a
  provider healthy again.

## Proofs

What TLC checks on small instances, eight modules prove for every number of threads,
machines, tokens, models and values and every bound, from the assumptions in the
modules (the `…Assumption`s on constants, which TLC evaluates in the runs) and nothing
else. `PROJECT.json` lists the theorems.

**ConfigSync.** `SnapshotHistory` is not inductive: a thread holds a version number
it computed before others inserted. `StoreInv` adds `HandlerKnows`, what a thread
between its read and its insert knows: the number is one past a stored row whose
content differs from its own, and whoever takes that number first makes the
constraint refuse the others. `AgentKnows` adds what the agent knows at each pc
about the stamps it carries, with the exception that runs through the whole
argument: `lost`, the snapshots a crash undid. `SyncInv` is the conjunction; each
step of `Next` preserves it, with one proof step per action and under it one per
conjunct that the action can disturb. The invariants of the run, the action
property `NeverGoesBack`, the theorems on the history itself (`HistoryCorrect`,
`CurrentCorrect`) and the refinement `ImplementsHistory` follow from it; the
refinement maps each step to one of `ConfigHistory` or to a stutter.

**Pairing.** `PairingInv` adds to the properties what the store knows about used
tokens and what a thread knows about the token it selected: in particular that a
request that began after a token was spent cannot have selected it. `SpendInv` is
an invariant beside it, for `SpentForUse`: a device that is gone took its tokens with
it, a thread registers the device that owns the token it read (`UsedKnows`), and what a
crash would take back of the uses is what a thread has stored and not committed
(`UsesKnown`), whose token the crash therefore names in `lost`.

**AliasFailover.** `Inv` adds two facts about the running request. `Progress`: what it
would answer now is what its last call brought, so that a target which is skipped or
whose account is gone changes nothing. `Protected`: each account that it put into a
cooldown is still held against its `now` or was cleared, and one that it is about to
call was found free of both. `CooldownProtects` is an action property that follows from
it: the account is read again for each target, but no deadline set during the request
can have passed by the time it began. The lists are functions on sets of numbers
because their rows are removed in the middle by cascades.

**OpenClawMerge.** The lemmas about the operators come first: what a merge returns is
a document, its providers are the payload's or preserved, its default models resolve
when the payload has any; `MergeIdempotent` says that installing a payload again
changes nothing, for every document, and `ManagedAlwaysRefreshed` that no entry of an
earlier payload survives. The properties need little more than them:
`MergeInv` adds `SidecarHolds`, that from the writing of the sidecar on the agent reads
the control plane's preserve configuration, up to what somebody added by hand, and
that what it is about to put in place is the merge by such a sidecar of the file it
read.

**LegacyGateway** (in `LegacyProofs`). `GatewayInv` has beside the types what each
coroutine holds across its awaits. `Plans`: what is left of a plan and what has failed of
it are different providers, all of them candidates of the time when the plan was made, and
together as many as the configuration allows; refreshes and other requests may change
the table meanwhile, but not this. `AllTried` follows. `Probes`: a check that runs has a
provider left to ask. `Rounds`, for `TakesTurns`: with the cursor at a place, the turn d
turns ago was that of the place `Back` steps before it, on the same candidates, so that
as many turns as there are candidates are turns of different ones. This is why it matters
that the cursor moves by one and is reset only together with the candidates. The lemmas
on rotations, orders and attempts say that each is a list of the candidates without
repetitions. Of the sources it is assumed that they list no provider twice, as the table
is a dict, and that priorities with names as ties order the providers.

**LegacyFree** (in `LegacyProofs`). `FreeInv` says of each synchronisation, whatever runs
beside it, what it has done so far (`Filling`): an alias that nobody else wrote names what
the listing gave it, once it is no longer left to this sync, and until then what it named
before. For `GeneralDiffers` it follows a pair of slots through syncs that overlap:
while all is tidy they have one map (`TidyRuns`), which gives the two aliases
different models; what a sync has passed holds its value, since whoever overwrites it
writes the same (`TidyHolds`); so that the two aliases differ whenever no sync is
between its first slot and its last (`TidyDiffers`). That the listing gave them different models
is `GeneralIsAnother`.

**LegacyNodeSync** (in `LegacyProofs`). `VersionHistory` needs two facts about threads.
`Gapless`: a last version exists and none is missing before it, so a thread that inserts
past the row it compared with cannot slip in between two others. `HandlerKnows`: that
row is stored and its payload differs, so the neighbours differ. `ScriptKnows` carries
these to the node: whatever the script is about to receive, write or reload is a stored
row, no older than the one it has, because the thread that answers reads the latest row
after the script has asked. `NodeForward` and `EtagCorrect` follow.

**Registry.** `RegistryInv` says where each request stands (`Phases`) and three
things that are needed together. `Unraced`: as long as nothing raced, one request at
most inserts models, so what a synchronisation did not find when it looked is still
missing when it writes, and an import writes under another provider. `Listed`: after
a listing, each row of the free provider was selected or is among those that the
lister is about to delete, unless some request is a `Threat`, that is, has reached
its provider and not listed yet; a request that ends in between spoils `clean`.
`Undisturbed`: what a synchronisation that is alone has done so far, from its provider
to the set that it deletes. The last three conjuncts are stated of tables and requests
that are arguments, so that the states before and after a step can be compared, and
few lemmas (`Bystander`, `FillerStep`, `Leaves`, `FillerBegins`, `EditRest`) treat most
actions at once. `ImportOfOneSave` follows from an invariant of
its own: the rows that a writer of the template has left, in the order of their ids,
spell the beginning of a list (`Told`), and what it has still to write is the rest of
it (`Writing`); a crash, a refused row or a failure leaves a beginning, and the import
reads the rows in one statement. `AloneSyncIsExact` joins what such a sync leaves (`AloneExact`) to what the choice of a
listing is worth, the subject of the next paragraph.

**FreeModels.** That the selection and the legacy aliases are right (`TopIsRight`,
`MapIsRight`) is proved for every listing in which no id occurs twice (`IsListing`,
which is what is assumed of OpenRouter and evaluated on each listing of the instances).
There is no induction over a sort in it. `InOrder` gives a member the place that the
number of members before it says; `RanksAreTaken`, through injections on finite sets,
says that for a strict total order each place is taken by one member, and
`InOrderLists` that the result therefore lists the set once, in order. The price, context
and other points are natural numbers (`ScoresAreNatural`), so `Higher` is such an
order. `SelectionIsRight` then compares what is left out with what is kept, in the case in
which the last place goes to a model that takes images too (`KeptPlaces`);
`AliasesAreRight` goes through the slots in the order in which they are filled, and
`GeneralIsAnother` says that `general` and `best` differ as soon as two models count.
The same lemmas serve every `ORDER BY` and `sort` of the other modules.

**Migration.** `MigrationInv` adds to the types the shape of the two tables at each pc
(`Shape`), what is complete at it (`Whole`), and where checked requests and foreign keys
stand (`Guarded`). `RowsKept` rests on the rename being one step and the copy another:
between them the rows are in the legacy table, and nothing ever writes to that.
`OrderKept` holds with and without the backfill, because rows with equal priority are
read by id. The greatest id of a bounded set exists because `<` is well-founded on the
naturals (`MaxOfBounded`; `MinOfNaturals` in `FreeModelsProofs`).

Only model-checked: liveness (`Converges`, `Recovers`, `HealthTracks`,
`EventuallyServes`, both `Settles`), which needs fairness and ENABLED and is beyond
this prover, and the three violations below. Every other property of a passing run is a
theorem. No definition is recursive; sequences that the code builds by loops are
comprehensions or orders, so nothing had to be left out for want of induction over data.

## Findings

* A pairing token registers two machines when two requests overlap, or when a
  retry overlaps the first try; the first machine's sync token is then void.
* A connection test or model sync that fails clears the cooldown of its account.
* A payload without models removes the managed providers but leaves the default
  models that name them.

Where the code breaks a promise nobody made, the model has the case and the property
leaves it out by name: rows of two overlapping saves (`mixed`), twins of two overlapping
fillers (`raced`), the process without foreign keys (`migrated`), a corrupt `agent.json`,
aliases of overlapping syncs with different listings (`tidy`). The notes of the hazards
in `PROJECT.json` say so at each.

What else the models show, and no document claims otherwise or only in passing:

* `fallback_on_timeout` is stored and shown but never read: a timeout moves on like
  any other connection error.
* A preserved model is removed when the payload has a provider of the same name.
* The legacy node file is answered 304 only within the second of its stored version:
  `generated_at` is part of what is hashed.
* A kill while `agent.json` is saved stops the node for good.
* An account deleted during a call turns a good answer into a 502; a provider removed
  during a call of the legacy gateway turns it into a 500.
* An undone snapshot's version number is used again for other content.
* An answer of OpenRouter whose `data` is no list empties the free provider, and the
  devices' bindings to its models with it.
* Two synchronisations that overlap list a model twice under one provider.
* An import that failed after it created its provider can never be repeated: the name
  is taken.
* A start that is killed between the rename and the copy leaves the templates in
  `media_templates_legacy` for ever; a database that also lacks the newer columns
  fails its first start and loses sight of them in the same way. The rows that are
  copied keep provider ids of another table.
* The process that migrates serves without foreign keys until it is restarted.
* The legacy aliases `general` and `best` may name one model after a listing with a
  single free model or after syncs of different listings that overlapped, although
  `docs/plans/2026-03-22-phase2-impl.md` keeps them apart.

## Plan

1. `OrderedRows`: delete-then-insert saves by two writers with crashes, against an
   abstract register of lists; what a reader may see, and what a refused row leaves.
2. `RateLimiter`: the token bucket with clocks read before the lock; how many
   requests a window can admit.
3. `ConfigSync` with a second agent process (`agent sync-once` beside the service).

## Not modelled

* Client keys and usage statistics: single statements without interaction.
* Model discovery and connectivity tests of providers: they read an upstream and write
  one timestamp.
* What a row holds besides the names and ids that are compared: credentials, base URLs,
  the schemas of media templates, which are validated and stored; request validation.
* The legacy profiles and routes, which change the compiled list in the way models do.
* The adapters, the Responses conversion and the synthetic stream of the legacy
  gateway, which are data; its rate limiter is a choice to refuse.
* A second agent process on one node and two writers of one binding list: see the plan.
* The console and the scripts, which keep no state of their own.
