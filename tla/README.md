# A formal model of autoform-panel

This directory is a TLA+ development of the server under `src/`: modules that model its
stateful parts, TLC configurations that check them on small instances, and theorems about
them whose proofs TLAPS checks.

    tlc -workers 2 -config <X>.cfg <M>.tla     # a run of PROJECT.json
    tlapm CatalogStoreProofs.tla               # the proofs, one module each

## 1. The system

The panel is one Node process. It publishes versions of a *catalog* (form profiles, global
settings, adapters) that phones fetch, and pairs phones by one-time tickets. There is no
other server, no database server and no lock file: every piece of concurrency is between the
awaits of one process, and everything that must survive is in one data directory.

| component | code | state it keeps | operations | interacts with |
|---|---|---|---|---|
| Catalog object store | `stores/catalog-bucket.mjs` | objects as files, a promise queue | `get`, conditional `put` | file system; called by the publish path |
| Catalog publish and read path | `api/catalog-snapshot.js`, `catalog-publish.js`, `catalog-r2-state.js`, `worker-api-routes.js`, `worker-catalog-routes.js`, `request-handler.mjs` | current pointer, immutable snapshots, what each request has read | `/api/publish`, `/api/settings`, `/api/config`, `/catalog/*`, `/api/profiles` | object store, session backend, validators |
| Start-up and shutdown | `server.mjs`, `config/autoform-panel.service` | the data directory | seed on first run, listen, exit on a signal, restart by systemd | object store |
| Pairing ticket store | `stores/pairing-store.mjs`, `api/app-pairing-store.js` | SQLite rows (records, alarms), a lock per object, one connection | `issue`, `redeem`, `rate`, alarm sweep | SQLite; called by the pairing endpoints |
| Pairing endpoints | `api/app-pairing-routes.js`, `app-pairing-tickets.js` | none | issue, redeem: two rate gates, then the ticket | ticket store |
| Panel editor | `public/index.html` | version token, draft, working copies of the dialogs | load, edit, publish, save order, save settings | the two writing routes |
| Session verification | `api/backend.js` | none | `verifyToken` | external backend |
| Publish validation | `api/worker-publish-validation.js`, `worker-capabilities.js`, `worker-compatibility.js` | none | pure checks | called by the writing routes |
| Profile schema, daily statistics, backend and notification adapters | `api/profile-*.js`, `daily-stats-*.js`, `backend-adapter-*.js`, `notification-adapter-*.js` | none | pure validation and rendering | called by the routes |
| Notifications | `api/worker-notifications.js` | none | `/api/notify`, two independent deliveries of a round | external provider |
| Backup | `backup/backup.sh` | archives | copy of the live data directory, retention | files of both stores |
| AI drafting, translation, conversion | `api/ai.js`, `translate.js`, `convert.js` | none | pure transformation around an external call | the publish route |
| Static assets, previews, provenance, GitHub catalog, seeding tools | see `PROJECT.json` | none | read-only or not reached by the server | |

What makes it hard, and what must hold:

* **Publishing.** A route reads the catalog, waits for the session backend (and perhaps for a
  translation), validates, then `publishCatalog` reads the catalog *again*, writes a snapshot,
  and moves the pointer under an ETag precondition. Between any two of these other requests
  run, and the process may be killed. Nothing may be overwritten silently, a read must never
  hit a pointer without its snapshot, what a publisher is told must be true, and the profiles
  that were validated must be stored with settings they are valid for.
* **The put queue.** The precondition of a put is evaluated several awaits before its rename;
  a single promise queue makes that sound, and must not get stuck when a put throws.
* **Start-up.** The first run copies a seed file by file and recognises a later run by one of
  those files.
* **Tickets.** Redeemable once, whatever is retried, rolled back or restarted; all objects
  write through one SQLite connection whose transactions stay open across awaits; a sweep
  wipes objects from a list read earlier.
* **Rate limits.** Counted per window in an object that the same sweep wipes.
* **What a catalog may hold.** Profiles and settings are written by two routes, refer to each
  other, and profiles refer to profiles: each route has to validate what the other one stored,
  or two legal saves leave a catalog whose parts do not fit, or one no later save can leave.
* **Notifications.** Two deliveries of one report that must not hold each other up, providers
  that stay silent or take a message nobody waits for any more, and settings that change
  between the check and the call.
* **Editing.** A panel has one version token for all its writes, set by every load and by most
  answers, and several copies of content taken at different times. The token of a write and
  the version of its content can come apart.

`PROJECT.json` lists each hazard at its line with the properties that cover it.

## 2. Modules

| module | what it is |
|---|---|
| `CatalogData` | the data of the catalog, and a publish as a function of what it was given and what it read |
| `CatalogRegister` | abstract specification: what the catalog promises its clients, one atomic register |
| `CatalogStore` | the catalog as it runs: object store, publish path, routes, failures and kills; its properties; the refinement to `CatalogRegister` |
| `MCCatalogStore` | TLC instance: what earlier runs left, the bodies of each publisher |
| `CatalogStoreProofs` | theorems about `CatalogStore` |
| `ProfileRules` | what one profile must satisfy: scanners, payload fields and their writers, previous steps, materials, submission policy |
| `AlternateEntries` | entries of one profile that submit into another, hidden one |
| `DailyStats` | the cards of the daily summary and what they count |
| `Capabilities` | what the backend adapter and the notification adapter must offer for the profiles |
| `CatalogRules` | the two writing routes as sequences of publishes and saves under all these rules; what every stored catalog satisfies |
| `MCCatalogRules` | TLC instance: drafts of a source and a target profile, saves of each setting |
| `CatalogRulesProofs` | theorems about `CatalogRules` |
| `Notification` | `/api/config` and `/api/notify`, the deliveries and their providers, settings saves meanwhile |
| `MCNotification` | TLC instance: adapters of each version, settings, events |
| `NotificationProofs` | theorems about `Notification` |
| `ServerBoot` | seeding, kills and restarts on the data directory |
| `Backup` | `ServerBoot` with the walks of `backup.sh` over the same files |
| `BackupProofs` | theorems about `ServerBoot` and `Backup` |
| `TicketRegister` | abstract specification: what the pairing endpoints promise, one atomic record per ticket |
| `PairingStore` | the pairing endpoints, their objects and the SQLite store; its properties; the refinement to `TicketRegister` |
| `MCPairingStore` | TLC instance: which objects each request calls |
| `PairingStoreProofs` | theorems about `PairingStore`: control, types, rate limits |
| `PairingTicketProofs` | theorems about `PairingStore`: tickets, and the refinement |
| `PanelEditing` | several browsers that load, edit and save the catalog under one version token each |
| `MCPanelEditing` | TLC instances: which buttons each panel uses |
| `PanelEditingProofs` | theorems about `PanelEditing` |

### CatalogData

A version is an `Entry`: its number, each profile reduced to the *capability* its workflow
needs, and the capabilities the stored adapters offer. Three shapes matter to the store and
are kept: `/api/publish` upserts by id or replaces, `/api/settings` takes a full profile array
verbatim or keeps the stored one, and settings are merged over what is stored. The order of
profiles is not part of an `Entry`, so the id-list form of `/api/settings`, which only
reorders, is a request that changes nothing but the version. The SHA-256 of a stored state
covers its parent's digest and the bytes of its files; it is modelled by the *line* of entries
that led to it, which is what a collision-free digest identifies. Snapshot objects, the
pointer and its ETag are therefore lines.

### CatalogStore

| state | in the code |
|---|---|
| `pointer`, `snapshots` | `catalog-current-v1.json`, the objects under `catalog-snapshots-v1/` |
| `queue` | `FileSystemR2Bucket.queue` with the requests whose put is in it |
| `pc`, `seen1`, `seen2` | the await a request is at, the catalog its route read (`currentCatalog`), the one `publishCatalog` read (`snapshot`) |
| `body`, `answer` | the posted body, the HTTP answer: 200, 409, 400/401/422 (`rejected`), 500 (`error`), or none (`lost`) |
| `up`, `crashes` | the process and how often it was killed |
| `committed` | history: publishers whose pointer was renamed in |

A step is the code between two awaits: `ReadPointer`, `ReadSnapshot` (`r2CatalogSnapshot`,
once for the route and once more in `publishCatalog`), `SessionInvalid` and `Admit` (the
route's checks in their order), `ReadSnapshotAgain` (expected version, merge, version limit,
enqueue), `SnapshotCheck`, `SnapshotRename`, `SnapshotDone` (the put of the snapshot),
`PointerEnqueue`, `PointerCheck`, `PointerRename`, `PointerDone` (the put of the pointer).
The catalog starts as what earlier runs of the server left (`Earlier`; a fresh install has the
seed alone), and each publisher posts one of its `Requests`.

`IoError` is any of these awaits throwing, with the queue settled by its second `then`
handler; after a rename it leaves the object in place and answers 500. `Crash` loses memory
and keeps what was renamed; `Restart` brings the process back. A publish has two writes and
may fail on either side of each.

### CatalogRegister

State: the line of published versions (at first the `Earlier` ones), and per client what it asked,
looked at and was told. `Publish` applies a request in one step, once, on the version it was based
on. `Justified` says which answers are allowed. The mapping in `CatalogStore`: the register
changes when the pointer is renamed; a request looks when it reads the pointer. Since every step
of `CatalogStore` is a step of the register or a stutter, the promise queue, the ETag and the
double read together give linearizable publishes.

### ServerBoot

The pointer file is absent, torn or names a version; snapshots are those complete on disk.
`cpSync` copies in directory order, which is unspecified, so the model allows both. The two
writes of a publish are included so that restarts happen on a catalog that has moved on.

### Backup

Extends `ServerBoot`: `VisitPointer` and `VisitSnapshots` copy one entry each, in either
order, and the server takes steps in between. `EndWalk` is a `tar` that noticed nothing, `Disturbed`
one that complained: the script then walks again over the first archive, and ends with an error,
the archive left in place, when it is disturbed once more. `Noticed` is what GNU `tar` is bound to
see: the pointer is replaced by a rename, which changes the directory it is in, and `tar` looks at
that directory again when it is through with it; a snapshot that is added after the visit to its own
directory passes unnoticed, and a change of something the module leaves out may be noticed at any
time. `archived` is what the last walk copied; `begun` and `moved` are history. The copy of the
pairing database and the retention of 14 archives are left out.

### CatalogRules and the rules it is built from

State: `profiles`, a sequence, and `settings`, a record in which `None` is an absent value.
`Publish(body)` is `/api/publish` (upsert by id, or the whole list), `SaveSettings(body)` is
`/api/settings` (whole list, id list, or neither; and a change of settings). Requests take
effect one after another: the version lock, which is what makes that sound, is
`CatalogStore`'s, where the same routes appear with all their interleavings and with profiles
reduced to one capability.

The four rule modules are pure predicates, one per validator, over records that keep the
fields the rules relate: a profile has about forty. A validator that returns errors is a
predicate that is false when it returns any. What is left out of a validator is the shape of
single values (is it a string, does it match a pattern, is it short enough), since a value of
the wrong shape never takes part in another rule. The backend adapter keeps its
address, its endpoints, the three signals by which a session is known to have ended, the two
outcome policies by which of their lists name any answer, its resolvers and, for each other part
that profiles rely on, whether it is there and valid; `AdapterOk` is the schema as far as it
relates these (which endpoints an operation brings, policies whole or absent), and the rest of the
document is the part `core`. `Adapter` is `resolveBackendAdapter`: the stored adapter over the flat
session signals over the environment over the flat address and endpoints, merged key by key
(`Merged`). Of the settings, `SettingNames` are those that some rule compares with another setting
or with the profiles; the others (brand, web origin, minimum App version, diagnostics ...) are
stored as they come. The environment does not change between two requests.

### Notification

| state | in the code |
|---|---|
| `settings` | the notification part of the stored settings: the switch, the diagnostics policy, the adapter |
| `config` | what `/api/config` told the App |
| `event`, `read` | the request of the App, the settings `handleNotification` read for it |
| `contact`, `left` | per delivery its fetch, and the ticks until `AbortSignal.timeout` |
| `accepted` | what the providers took |
| `answer` | 200 (`sent`), 4xx and 503 (`refused`), 502 (`failed`, with the names a round reports) |
| `known`, `since`, `waited` | history: settings in force since the App read its configuration and since its request arrived, ticks it has been sending |

`ReadSettings` is the handler up to its second await, `ReadBody` the checks after it and the
start of every delivery that applies, in one turn as `Promise.all` does it, a delivery that
cannot be rendered failing at once; `Answered`, `FetchFails` and `TimedOut` end a fetch;
`Respond` is the answer. `Accepts` is the provider taking a message, also after the server
gave up on it. A provider is assumed to say what the panel's adapter takes for an acceptance
only of messages it took: the marker or code in the body where the adapter has a rule for it,
else a listed status. A read of the catalog that fails answers 500 before anything is sent
and is left out.

### PairingStore

| state | in the code |
|---|---|
| `db`, `saved`, `txn` | rows as the connection sees them, rows at `BEGIN`, whose transaction is open |
| `locks` | the promise chain of each object name (`withLock`) |
| `pc`, `stage`, `expires`, `window`, `got`, `allowed` | where a request is, which of its calls, and the locals of the call |
| `sweep` | the due names still to be wiped and the one it waits for |
| `granted`, `wiped` | history for `RateLimited` |

`Arrive` and `Advance` are the endpoints: one call after another, each must allow the next.
`IssueAlarm`, `RateAlarm`, `Begin`/`BeginNested`, `Work`, `Commit` are a call on an object,
with a yield at every await. `SweepList`, `SweepJoin`, `SweepWipe` are `runDueAlarms`.
`SqlError` rolls back an open transaction with *everything* written through the connection
since it began; `Kill` does the same to the file. Every await is allowed to let any other
request in. Most awaits inside a lock resolve from the microtask queue, where a given Node
version interleaves less than that; the checked safety properties therefore hold for the code
too, and do not rest on scheduling details the code does not mention.

### TicketRegister

State: the clock, one record per ticket, and per client whether its request is open, granted,
told ok or over. `Issue` makes an absent ticket a ticket, `Redeem` consumes an issued one of a
redeemer it was issued to, each in one step and for good, and `Tell` comes after. `Forget` is
everything that is promised to do no harm: refusals, errors, restarts, and tickets that
disappear, but only when they have been over for `Grace`. The mapping in `PairingStore`: the
record of a ticket is the row in the *file*, not the one the connection sees inside a
transaction, and a request is granted when its `COMMIT` returns (`Phase`). So a ticket that
another object's transaction drags along, or that a rollback takes back, is visible to the
register only if a client was told of it. The register does not say that a redemption comes
before the expiry: the callback compares the clock before the `COMMIT`, which may come later.

### PanelEditing

| state | in the code (`public/index.html`) |
|---|---|
| `line`, `author` | the catalog: per version and part (profile, settings block) the version that last changed it, and who wrote each version |
| `token`, `lists` | `CATALOG_VERSION`; the versions `CATALOG_PROFILES` and `CATALOG_SETTINGS` are of |
| `work` | what is edited: `DRAFT` (`publish`), `ORDER_WORKING` (`order`), the form of the dialog (`settings`), each with the version it was copied from |
| `loads` | the `GET /api/profiles` of the reload button and of the handlers that reload after a save |
| `post` | the write each disabled button waits for |
| `loaded` | history: the latest version the panel downloaded |

`Save` posts a copy with the token as `baseVersion`; `ServerWrites` and `ServerRefuses` are the
server, taken as the register that `CatalogStore` is proved to implement; `Published`,
`OrderSaved` and `SettingsSaved` are the three answers, which treat token and lists
differently; `Loaded` and `LoadFailed` end a load and, by `Resume`, the handler that waited for
it. The dialog is modal. `SaveFailed` is an error answer, a lost request or a lost answer; a
request that the server takes after the browser gave up on it is seen as one it took before.
The three settings buttons, which post parts of one block, are one button. The server checks
nothing but the base here: a write refused for another reason is a `SaveFailed`.

## 3. Runs

| run | instance | what it shows |
|---|---|---|
| `catalog_store` | 3 publishers with bodies of their own, 1 reader, versions 2 to 4 (`MaxVersion`), 1 kill, fairness | `TypeOK` (no version beyond the last), `PointedSnapshotExists`, `AnswerTruthful`, `ConflictHasCause`, `CatalogExecutable`, `NoLostUpdate`, `AtomicRegister`, `EveryRequestEnds` (about 370,000 states) |
| `catalog_rules` | 24 bodies of `/api/publish`, 22 of `/api/settings`, in any order and number | the nine properties of `CatalogRules` (about 18,000 states: every catalog these bodies can lead to) |
| `notification` | 1 App, 8 events, 8 first settings, 5 saves in any order and number, fairness | the seven properties of `Notification` (about 440,000 states) |
| `server_boot` | 4 versions, 4 kills, one backup, fairness | `RestartKeepsCatalog`, `ComesUpReadable`, `WrittenRestorable`, `BegunArchived` (about 48,000 states) |
| `backup_restorable` | 3 versions, 1 kill, one backup | **violated**: `ArchiveRestorable` |
| `server_boot_first_run` | 2 versions, 2 kills | **violated**: `BootstrapWorks` |
| `pairing_ticket` | 1 issuer, 2 redeemers, 1 ticket, 1 gate, clock 0..4, 1 fault | `TypeOK`, `RedeemedOnce`, `ConsumptionDurable`, `IssuedTicketHonoured`, `RateLimited`, `TicketsAtomic` (about a million states) |
| `pairing_shared` | 2 issuers and a mismatched redeemer, 2 tickets on one connection, fairness | `EveryRequestEnds`, `TicketsForgotten` |
| `pairing_alarm` | 2 tickets on one connection, 1 fault | **violated**: `TicketHasAlarm` |
| `panel_lock` | a panel in its dialog, a panel that publishes, 3 versions | `NothingUnseenOverwritten` (about 930,000 states) |
| `panel_others` | 2 panels that publish one profile | **violated**: `OthersWorkKept` |
| `panel_own` | 1 panel, alone, that publishes and saves the order | **violated**: `OwnWorkKept` |

Bounds, and why they are enough:

* *Publishers, `MaxVersion`.* A conflict needs two publishers; the third lets one commit while the
  other two are between their two reads. Earlier runs brought a capability (version 2); one
  version relies on it or takes it away, and the last, 4, is the App's limit
  (`MAX_APP_CATALOG_VERSION`, 2147483647 in the code), which one request reaches and a request
  based on it is refused for. One cause of a conflict, or one stale read, needs no longer history.
  The reader comes between the pointer and the snapshot of any of them.
* *`MCRequests`.* Profiles that need the settings, settings that would take the capability away,
  upsert and replace, each on a version an editor may have loaded; of two bodies that meet the
  same states one is enough. Two profile ids distinguish upsert from replace.
* *Drafts and saves of `catalog_rules`.* One profile that submits into another is every reference
  between profiles there is. Three adapters (the environment's, one for everything, one for
  another place) differ in address, endpoints, signals and policies. Each draft of the two is
  legal by itself and breaks one cross-reference with some other draft or setting, so that every
  rule is met both by a body it accepts and by one it refuses. Steps are not counted: TLC reaches
  every catalog.
* *Adapters and events of `notification`.* Each version, with and without a rule for the body,
  with deliveries of unequal and of excessive patience, with one that long data cannot be
  rendered for; rounds with no list, a list that is a problem and one that is not. Requests
  share nothing but the settings, so one App is enough. 1000 to 8000 ms are the ticks 1 and 2,
  15 s are 3.
* *`MaxCrashes`, `MaxKills`, `MaxFaults`.* What one fault can break shows with one; the requests
  of a run end with the process, so a second kill meets only requests that came later.
* *Clock.* Long enough for a ticket to be issued, expire and be swept within the run, and for
  a gate to be armed again in a later window while a sweep is under way. The code's grace of
  60 seconds is `Grace`, its windows and limits (`RATE_LIMITS`) are `Window` and `Limit` 1.
* *Panels.* Three versions: one write to be overlooked and one that overlooks it. `panel_lock`
  does not explore a state further once the last version is written (`Unfinished`), since
  nothing can be accepted after it. One reload of the reload button is in flight per panel,
  and a panel clicks only the buttons of `Uses`; one profile, since profiles differ in nothing.
* Requests come once each. A client that retries is another request with the same body.

Deadlock checking is off where a run ends when its requests are answered, and on in
`catalog_rules`, where a next publish is always possible.

Fairness: `WF` on the steps of a request that has started, since every await of a running process
settles (`IoError` is one way to settle); on `Restart`, from `Restart=always` in the service unit;
on the sweep, from its 15-second interval; on the clock. None on clients arriving, on kills or on
errors: these may, and need not, happen. Of notifications, `WF` on the steps of the handler and on
timers that are due, none on Apps sending, on panels and on providers: an answer is owed however
long the providers stay silent. `WF` on `ReadBody` supposes that the body of a request that has
arrived comes in, or is cut off by the request timeout of Node's HTTP server. `PanelEditing` and
`CatalogRules` state no liveness and assume no fairness.

## 4. Findings

1. **An interrupted first run is never repaired** (`server_boot_first_run`,
   `server.mjs:35-38`). `cpSync` may have created `catalog-current-v1.json` before the
   snapshot; if the process is killed there, the next start sees the file, skips the seed and
   serves a catalog no read of which succeeds. `ComesUpReadable` shows that this is the only
   way: without a kill in the copy the server always ends up readable.
2. **A ticket can be without its alarm** (`pairing_alarm`, `stores/pairing-store.mjs:90` against
   the comment at `api/app-pairing-store.js:100-101`). `setAlarm` writes through the shared
   connection; while another object's transaction is open, it writes into that transaction. If
   that one fails and rolls back before the `BEGIN` of the issue, the ticket is stored, and
   handed out, without an alarm. The sweep has a second way to this: it deletes the alarm row
   before the record (`118-120`), in two commits, and an error or a kill in between leaves the
   record; TLC finds this one when no other object uses the connection (one ticket and no gate in
   `PairingAlarm.cfg`). Either way the ticket expires and is never wiped; `RedeemedOnce`,
   `ConsumptionDurable` and `TicketsAtomic` hold with the same faults. `AlarmsKept` proves that
   without a fault it cannot happen.
3. **Reloading defeats the optimistic lock** (`panel_others`, `public/index.html:331` and `1409`
   against the comment at `328`). The token belongs to the page and not to what is edited: a
   reload moves it under an open draft, and the draft then replaces what another panel
   published. The conflict message (`250`) asks for exactly this: reload and retry.
4. **Saving the order can undo one's own publish** (`panel_own`, `1410` and `2029`). The answer
   to a publish moves the token before the lists are loaded again, or although that load
   fails; an order copied from the old list is posted with the new token as the complete
   profile array.
5. **An archive can be unrestorable** (`backup_restorable`, `backup/backup.sh:17-20` against
   `README.md:88-89`). A publish between the visit to the snapshots and the visit to the pointer
   leaves an archive whose pointer names a snapshot it does not hold. `tar` complains, but the
   second walk is just as unprotected; after a publish in that one too the script stops with an
   error and leaves the archive under its final name, as the latest of the 14 it keeps.
   `WrittenRestorable` shows that this needs a publish in both walks and that the script then
   reports nothing as written; `BegunArchived` that even such an archive holds the snapshot that
   was current when `tar` came to it, so that the catalog can be restored by hand.

`PanelEditing` also reaches states in which a settings form that was opened before the first load
(`public/index.html:275` shows its button before the load has answered) is saved blank on the
version that load brought. No run checks this one; it is listed as a hazard.

What the lock does guarantee is `NothingUnseenOverwritten`: whatever an accepted write replaces,
the panel had downloaded it, or written it itself. A panel that has not loaded a version can
never replace it, in whatever order its answers arrive.

`RateLimited` states what the gates do guarantee: a window lets through at most its limit
*for each time the sweep wiped the counter in it*. The sweep works off a list read before it
waits for each object, so a counter that was armed again meanwhile can be wiped in
mid-window, and the allowance starts anew.

## 5. Proofs

`CatalogStoreProofs` proves, for all publishers, readers, request bodies, earlier versions
and bounds that satisfy `CatalogAssumption`, `EarlierAssumption` and `CrashAssumption`:

| theorem | states |
|---|---|
| `Invariance` | `SafeSpec => []IInv`, the inductive invariant |
| `TypeCorrect` | `SafeSpec => []TypeOK` |
| `ReadsSucceed` | `SafeSpec => []PointedSnapshotExists` |
| `AnswersHonest`, `ConflictsCaused` | `SafeSpec => []AnswerTruthful`, `SafeSpec => []ConflictHasCause` |
| `VersionsExecutable` | `SafeSpec => []CatalogExecutable` |
| `UpdatesKept` | `SafeSpec => NoLostUpdate` |
| `Refinement` | `SafeSpec => AtomicRegister` |

None of the properties is inductive. `IInv` adds, each as a named conjunct:

* `StoreInv`: every snapshot is a line numbered 1, 2, 3, ... whose last entry is executable;
* `SeenInv`: each line a request has read is in the bucket and is the current line or an
  ancestor of it (`Past`), because the pointer only grows;
* `StagedInv`: what a publisher has checked stays true of what it holds. With `SeenInv` this
  is the heart of the argument: two reads that agree on the version agree altogether
  (`StagedLine`), which is what makes it sound to store profiles validated against the first
  read with settings merged from the second;
* `QueueInv`: only the head of the queue is between a check and its write, so at `ptrFile` the
  pointer still is what the request read;
* `AnswerInv`: what `committed` and the answers given so far say of where a request is.

`UpdatesKept` and `Refinement` are then step by step: under `IInv`, only `PointerRename`
changes the pointer, and it is `Publish` of the register; a read of the pointer is `Look`; an
action that ends a request is `Answer`, justified by the part of `IInv` about its `pc`;
`Crash` is `LosePending`; everything else stutters.

`PanelEditingProofs` proves, for all panels, profiles, uses and versions that satisfy
`PanelAssumption`, `PanelInvariance` (`Spec => []IInv`), `PanelTypes` (`Spec => []TypeOK`) and
`SeenBeforeOverwritten` (`Spec => NothingUnseenOverwritten`). Its invariant says that nobody
holds a version that does not exist (`Existing`), that no content is newer than the version it
is in (`Stamped`), and that up to the token, and up to the base of each post, every version
was downloaded by the panel or is its own (`TokenKnown`, `PostKnown`). The last two carry each
other: the base of a post is a token, and the token that an answer brings is one more than the
base of an accepted post. Steps that write nothing are one lemma, `QuietStep`; the accepted
write is `WriteKeeps`. TLC checked `IInv` on the instance of `panel_lock` first.

`CatalogRulesProofs` proves, for any bodies of the two routes that satisfy `SavesAssumption`, any
environment and any set of valid addresses:

| theorem | states |
|---|---|
| `StoredAccepted` | `Spec => []IInv` |
| `AlwaysSavable` | `Spec => []LaterSavesAccepted` |
| `EntriesWellOwned` | `Spec => []EntriesSubmittable` |
| `EntriesCountedApart`, `CardsNeverEmpty` | `Spec => []EntryCountedApart`, `Spec => []CardsHaveSources` |
| `ScannersUsable` | `Spec => []ScannersTakeSomething` |
| `NoUnattestedRetry` | `Spec => []RetriesNeverDuplicate` |
| `BackendsReplaceable` | `Spec => []BackendReplaceable` |
| `RulesTypes` | `Spec => []TypeOK` |

The invariant `IInv` says that a catalog is the seed or would be accepted again as it stands. It
is inductive because the two routes check the same rules of what will be stored, except that a
publish leaves out the two that only the settings take part in, which it does not change. Each
property then is a fact about accepted catalogs, proved from the rules: for `EntriesSubmittable`
that the owners of a field, counted per origin (`OverrideOrigins`, `OneOwner`), cannot be two;
for `ScannersTakeSomething` that the bounds of a scanner and of the fallback leave a common
length. `EntryCountedApart` joins two rules that do not mention each other: the
target of an entry is hidden from the picker, and a card counts results of shown profiles only, each
with an id of its own. `BackendReplaceable` needs of `IInv` that what is stored agrees with itself in
everything the move does not touch; that flat settings which could not be cleared are overtaken by
those the move brings is what is proved of the settings (`MovedSettings`). `IInv` is needed since none
of the properties survives a step by itself: a publish checks what it brings against what is
stored, and only `IInv` says that the latter is sound.

`EntryCountedApart` speaks of `dailyStatsV2`, whose cards name the profile. The older `dailyStats`
counts result keys of whatever profile, and its code promises nothing about entries.

`PairingStoreProofs` and `PairingTicketProofs` prove, for any requests, tickets, gates, scripts of
calls, limits, lifetimes and number of faults that satisfy `PairingAssumption` (whose one
substantial clause is that no two issuers draw the same 32 random bytes):

| theorem | states |
|---|---|
| `PairingTypes` | `SafeSpec => []TypeOK` |
| `LimitsKept` | `SafeSpec => []RateLimited` |
| `AlarmsKept` | `SafeSpec => [](faults = 0 => TicketHasAlarm)` |
| `TicketsRedeemedOnce` | `SafeSpec => []RedeemedOnce` |
| `ConsumptionsKept` | `SafeSpec => []ConsumptionDurable` |
| `TicketsHonoured` | `SafeSpec => []IssuedTicketHonoured` |
| `TicketRefinement` | `SafeSpec => TicketsAtomic` |

The argument has four layers, each inductive over the ones before it:

* `Control`: who waits for which object and who runs in it (`LockInv`), that one callback runs
  at a time inside the transaction it began (`TxnInv`), that what it read is still there
  (`GotInv`), and who was told what (`DoneInv`). One connection makes a transaction of one
  object take in what any other writes meanwhile, so every later layer says what holds of *two*
  databases: the one the connection sees and the one a rollback restores (`saved`).
* `RateInv`: what a gate let through in a window that is still open is counted there, or was
  when the sweep wiped it (`CountedInv`), in `db` and in `saved`; whoever is about to be let
  through has been counted (`PassingInv`). A window stays open for as long as a call that took
  it from the clock is under way, also when the clock has moved on.
* `TicketInv`: an alarm stands for the end of its ticket (`AlarmInv`, `DueInv`), a ticket is
  stored by its issuer, once (`IssuedInv`); what was granted is there, is there after another
  request's rollback (`HonouredInv`, `ConsumedInv`), and was granted to one (`OnceInv`).
* `RegisterInv`, for the refinement: a record is its issuer's, with the life it gave it
  (`StoredInv`, `LifeInv`), and the two databases differ only by what the open transaction is
  about, or by tickets that are over, which the sweep forgot meanwhile (`ApartInv`).

The refinement then follows the store and not the actions: a step writes outside a transaction,
opens, writes, ends or rolls back one (`StoreSteps`), which says what it does to the file
(`DurableSteps`); with what it does to the phases (`PhaseSteps`) it is a `Grant`, a `Tell`, a
`Tick` or a `Forget` of the register. TLC checked each layer as an invariant before it was
proved, the last one also with two tickets on the connection. `AlarmsKept` rests on `Control` and
on `CoverInv`: an issuer that is past its `setAlarm` finds the alarm there, since the sweep
waits for the lock, and both databases have an alarm for each ticket they hold.

`NotificationProofs` proves, for all Apps, settings, adapters, events and timeouts that satisfy
`NotificationAssumption`:

| theorem | states |
|---|---|
| `NotificationTypes` | `Spec => []TypeOK` |
| `AnswersTrue` | `Spec => []AnswerTruthful` |
| `DeliveriesIndependent` | `Spec => []NoneSuppressed` |
| `OnlyConfigured` | `Spec => []OnlyAsConfigured` |
| `AdvertisedKept` | `Spec => []AdvertisedHonoured` |
| `BudgetKept` | `Spec => []InBudget` |

Its `IInv` says per App, and as a function of its `pc`, what of the settings it knows is in force
(`History`), that its handler read them once and checked them (`Reading`), that providers were
contacted for what those settings permit and for all of it at once (`Contacts`), that the time
passed and the time left of a delivery stay in the budget together (`Waiting`), and that the
answer is drawn from what became of the deliveries (`Answering`). The rest is about operators:
what a valid adapter gives to each event, and that what `/api/config` advertises of a legacy
adapter is what its migration supports. TLC checked `IInv` on the instance of `notification`.

`BackupProofs` proves, for any number of versions and kills:

| theorem | states |
|---|---|
| `BootTypes` | `BackupSpec => []TypeOK` |
| `WrittenArchivesRestorable` | `BackupSpec => []WrittenRestorable` |
| `BegunCatalogArchived` | `BackupSpec => []BegunArchived` |
| `CatalogKept` | `BackupSpec => RestartKeepsCatalog` |
| `UninterruptedReadable` | `BackupSpec => [](~interrupted => BootstrapWorks)` |

Neither property of the archive is inductive, since the server writes while `tar` walks. What `tar`
came to first it archived as it was then: the pointer, whose snapshot is never deleted and is
walked later, or the snapshots with the one of that pointer among them (`BegunKept`, which is all
that `BegunArchived` needs). As long as the pointer has not moved it is the one `tar` found, also
when `tar` comes to it last (`Unmoved`), and the script reports no archive under whose walk it moved
(`WrittenUnmoved`); together they give `WrittenRestorable`. `CopyInv` says what the copy of the
first run finds and `WalkInv` that a walk comes to every entry once. `UninterruptedReadable` is
what remains true of the property that finding 1 refutes, and the safety half of
`ComesUpReadable`. TLC checked the invariants on the instance of `server_boot`.

Only model-checked:

* liveness, that is the three properties `EveryRequestEnds`, `ComesUpReadable` and
  `TicketsForgotten`: it needs `ENABLED` and fairness, which the prover does not handle;
* `ProfilesKept`: upsert is a fold over a sequence, and what a fold computes needs induction
  over data.

The violated properties have no theorem, of course. What is proved in their place is
`NothingUnseenOverwritten` for the two of the panel, `UninterruptedReadable` for
`BootstrapWorks`, `WrittenRestorable` and `BegunArchived` for `ArchiveRestorable`, and
`AlarmsKept` for `TicketHasAlarm`; that a lost alarm
costs storage only follows from `TicketRefinement`, which holds with the same faults.

## 6. Not modelled

* Power failures. Renames are taken for durable; the code does not `fsync`, so after a power
  loss the pointer may be on disk and its snapshot not. A `COMMIT` is taken for durable too;
  the database is opened with `journal_mode = WAL` and `synchronous = NORMAL`, under which a
  power loss may take back the last ones, a consumption among them.
* In `CatalogStore`, the content of profiles and adapters beyond capabilities; in `CatalogRules`,
  the shape of single values and the rest of the schema of the backend adapter with its recipes
  (`backend-adapter-recipe-dsl.js`, `backend-adapter-schema.js`), which relates no two parts of
  a catalog; settings no rule compares with anything; a restart with another environment, after
  which nothing is promised until the next save;
  wording of answers; HTTP parsing; authentication beyond "the session was refused"
  and "the redeemer does not match".
* The text of notifications: templates, formatters and the values of an event's fields.
* In the backup, the pairing database: whether its copied files fit together is SQLite's matter.
* `delete` and `list` of the bucket and the GitHub branch of the publish path: the server
  never reaches them.
* A clock that is set back.
* In the panel: drafts made from a backend template or by the AI, and the removal of profiles.
* Components with status `not_modelled` in `PROJECT.json`, with the reason.

## 7. Plan

In the order of importance.

1. Done: `CatalogData`, `CatalogRegister`, `CatalogStore`, `CatalogStoreProofs`; `ServerBoot`,
   `Backup`, `BackupProofs`; `PairingStore`, `TicketRegister`, `PairingStoreProofs`,
   `PairingTicketProofs`; `PanelEditing`, `PanelEditingProofs`; the rules up to `CatalogRules`
   and `CatalogRulesProofs`; `Notification`, `NotificationProofs`.
2. Proofs: `OthersWorkKept` and `OwnWorkKept` for panels that do not reload under a draft.
3. Proofs: what the shared lemmas of `PairingStoreProofs` on queues say for any promise queue, to
   be used for the queue of `CatalogStore` as well.
4. `AdapterRules`: the rest of the schema of the backend adapter in place of the flag `core`; `Session`
   (`verifyToken` with its proof codes and retries).
5. In `PanelEditing`, drafts from templates and from the AI, and a base per working copy as the
   remedy to check.
