# DarkCopy: TLA+ models, model checking and proofs

DarkCopy is a paste and file host: a Go backend (`src/backend`) over PostgreSQL
(a primary, and optionally a read replica), Redis and an S3-compatible object
store, and a Next.js frontend (`src/frontend`). Several backend processes may
run beside each other; the code is written for it (a distributed cleanup lock, a
settings channel, counters in Redis).

This directory holds the TLA+ modules that model the backend and the stateful
parts of the frontend, the TLC configurations that check them, and the proofs that
TLAPS checks.
`PROJECT.json` is the machine-readable index: components, runs, mutants, the map
from definitions to source lines, findings, hazards, theorems.

Go paths below are relative to `src/backend/`, TypeScript paths to `src/frontend/`.

## 1. Inventory

| component | state | operations | talks to |
|---|---|---|---|
| paste service and handlers (`internal/paste/service.go`, `internal/handler/paste.go`) | none of its own | create, view, peek, raw, unlock, fork, list | paste repository, slug generator, rate limiter, quota; starts a goroutine per burn |
| paste repository and cache (`internal/db/repository.go`) | table `pastes`; Redis `paste:cache:*`, `paste:tombstone:*`, `paste:recent`, `paste:views` | GetBySlug, InsertPaste, DeletePasteBySlug, ListPublicRecent, IncrementViews | write pool, read pool, Redis |
| view and download flusher (`internal/db/flusher.go`) | Redis `paste:views:flush`, `file:downloads:flush` | a cycle every ten seconds, in every process | Redis, write pool |
| expiry manager (`internal/expiry/manager.go`) | Redis `lock:expiry_cleanup` | periodic cleanup, on-demand purge | read pool, write pool, Redis, blob store |
| admin (`internal/admin/admin.go`, `internal/handler/admin.go`) | none | delete paste or file, purge, statistics | repositories, expiry manager, settings, backup |
| file service and handlers (`internal/file/service.go`, `internal/handler/file.go`) | table `files`, temporary files | upload, presign, register, serve, unlock | file repository, blob store, quota |
| blob store (`internal/file/storage.go`, `s3.go`, `multi_s3.go`) | objects by storage key | save with failover, open, delete, presign | S3 providers |
| access control (`internal/access/controller.go`) | failed attempts per client and slug, in memory or Redis | record, check, reset | Redis |
| quotas (`internal/quota`) | counts and bytes per client and day, in memory or Redis | allow, add | Redis |
| runtime settings (`internal/settings`, `internal/db/settings_repo.go`, `cmd/server/main.go`) | the provider of every process; table `settings` | update, reload on a pub/sub ping | write pool, Redis |
| backup (`internal/backup`, `internal/db/backup_repo.go`) | snapshot files | export, restore (with or without wipe) | all tables, caches |
| reports (`internal/report`, `internal/db/report_repo.go`) | table `reports` | create, list, resolve | write pool |
| slug generator (`internal/urlgen`) | none | draw, check, retry | read pool |
| migrations (`internal/db/db.go`) | table `schema_migrations` | apply at start-up | write pool |
| server lifecycle (`cmd/server/main.go`) | the goroutines | start, shut down | everything |
| admin session (`components/AdminDashboard.tsx`: `TokenGate`) | the token in `sessionStorage` | log in, log out, be refused | admin API |
| admin dashboard (`components/AdminDashboard.tsx`) | statistics, lists with page and search, reports, busy flags | page, search, delete, handle a report, purge, reload | admin API, session |
| admin settings form (`components/AdminSettingsForm.tsx`) | the edited settings, loading and saving | load, edit, save | admin API, session |
| admin backup section (`components/AdminDashboard.tsx`) | snapshot list, mode, busy flags, message | list, create, restore, restore an upload | admin API, session |
| password gate (`components/PasswordGate.tsx`) | a reducer and a cooldown timer | submit, be answered, cool down | unlock endpoints; the unlock pages render it |
| paste pages (`components/PasteForm.tsx`, `PasteViewer.tsx`, `app/[slug]`, `app/new`, `lib/crypto.ts`) | form, viewer, keys of encrypted pastes | create, show, reveal, decrypt, unlock, fork | paste API, password gate, router |
| file pages (`components/FileUploader.tsx`, `app/f/[slug]`, `app/upload`) | the upload under way | upload through the server or directly, show, unlock | file API, object store, password gate |
| page furniture, API proxy (`components/*`, `pages/api/[...path].ts`) | display only; none | | |

**What is hard here.** A request is a goroutine that makes several calls to
Redis and PostgreSQL, none of them in a common transaction; requests of one or
several processes interleave between any two calls. Reads go to a replica that
may lag. The record of a paste has up to four copies (primary, replica, cache,
the local variable of a reader), and deletions must reach all of them. Burning a
paste is asynchronous and addresses it by slug, and a slug may be used again.
Errors of Redis are ignored nearly everywhere. A process may die between any two
calls. Counters, locks and settings are shared by processes through Redis with
time-outs and with no owner. In the browser, what a handler awaits outlives the
component that awaits it: answers arrive out of order, late, or at another page;
some requests are cancelled by the cleanup of an effect and others are not; and a
button that is off until an answer comes must get one.

**What makes each component correct.**

- *pastes*: a row disappears only for a cause (expiry, an admin, the read of a
  burn paste); whoever is shown a burn paste, other than as a fork, has launched
  its deletion, and a completed deletion is final; no request is shown what had expired before it
  came; caches and replica forget in the end; a new paste becomes readable.
- *flusher*: no process counts a view twice; until two processes flush at once no
  view is counted twice at all, and none is dropped while nothing fails.
- *expiry*: one cleanup at a time (as long as the lock holds), every expired
  item goes in the end (files once there is room in the batch), the purge drains
  what had expired.
- *files*: a served row has its blob; no blob without a row stays for ever.
- *access control, quotas*: no more guesses, uploads or bytes than configured.
- *settings*: every process converges to what the database holds.
- *backup*: a restore leaves the backup's state or the old one.
- *migrations*: each migration is applied once, in order, by one process.
- *admin page*: rows on screen are those of the page and search on screen, unless
  they could not be fetched; nothing waits for ever; within one mount of a panel no
  save, snapshot, upload or listing is sent twice; no edit is lost under a save.
- *paste pages*: what a page burns it shows, unless its reveal is refused; a link
  opens what was typed.
- *file pages*: one upload at a time; the URL is that of the file, with the
  visibility chosen at the start.

`PROJECT.json` lists the hazards the modules are about, each at its line, with the
properties that cover it; section 11 has those of the parts not modelled.

## 2. Plan

| order | module | models | status |
|---|---|---|---|
| 1 | `PasteStore`, `PasteContract` | a paste in primary, replica, cache, tombstones and listing, under concurrent requests, burns, admin deletions and sweeps; refinement of the contract | checked, proved |
| 2 | `ViewFlush` | the buffered view counts and the flushers of several processes | checked, proved |
| 3 | `SettingsSync` | updates, reloads and pings of the runtime settings | checked, proved |
| 4 | `FileStore`, `FileContract` | upload, presign and register, admin deletion, the cleanup cycle with its lock and batch limit, the purge: rows against objects, and the providers of `multi_s3`; refinement of the contract | checked, proved |
| 5 | `AdminSession`, composed into `AdminConsole` and `AdminPanels` | the admin page: gate and token, dashboard, settings form and backup section | checked, proved |
| 6 | `PasswordGate`, composed into `PastePages` and `FilePages` | a visitor's tab on the paste and on the file pages | checked, proved |
| 7 | `RateLimit`, `Quota` | the counters and their atomicity | not written (section 11) |
| 8 | `Backup`, `Migrations` | restore and start-up as transactions or not | not written (section 11) |

Abstract specifications: `PasteContract`, which `PasteStore` implements, and
`FileContract`, which `FileStore` implements.
Compositions: `FileStore` is the file service, the storage, the admin and the
expiry manager together; `AdminConsole` and `AdminPanels` each put the session
beside a dashboard and a server; `PastePages` and `FilePages` put the gate into the
pages that render it. For each module that is proved the theorems are its inductive invariant and
the safety properties that follow from it. No module uses a RECURSIVE operator.

## 3. Pastes: `PasteStore`

### State and actions

| variables | code |
|---|---|
| `primary`, `replica`, `wal` | the `pastes` row of a slug in the write pool's and the read pool's database, and the changes the replica has not applied |
| `cache`, `tombstone`, `recent`, `views` | the Redis keys `paste:cache:<slug>`, `paste:tombstone:<slug>`, `paste:recent`, `paste:views` |
| `born`, `expired` | the rows ever inserted; those past `expires_at` |
| `op`, `at`, `new`, `pc`, `got`, `checked`, `page`, `out` | the locals of a request goroutine: its kind, slug, new paste, next call, the paste it holds, the paste whose password it proved, its listing, its response |
| `del` | the deletion by slug that a request performs (admin) or launched (burn goroutine) |
| `sweep` | per process, the expired rows a cleanup cycle still has to handle, and the one it handles |
| `before` | history: what had expired or had been deleted when a request started |

A paste of the model is one row: its slug, burn flag and visibility are
constants of it, and two pastes may have the same slug, one after the other. A
request goroutine runs one request.

One action is one call to Redis or PostgreSQL and the local computation that
follows it, so requests interleave exactly where the code waits:
`CheckTombstone`, `CacheGet`, `SelectRow`, `RecheckTombstone`, `CacheSet` are the
five calls of `PasteRepo.GetBySlug`; the `Return...` actions are what the service
and each handler do with its result, including the launch of the burn goroutine
before the handler has looked at the visibility; `CountView` is the buffered
view count (an unlock then looks the paste up again); `ReturnFork` hands the content
out and burns nothing; `ProbeSlug`, `InsertRow`, `InsertRefused` and `ForgetRecent`
create (the INSERT and the DEL of the listing are two calls); `ListCached`, `ListQuery`, `ListKeep` list;
`ForgetCache`, `SetTombstone`, `DropRow`, `DropRowFails` are the calls of
`DeletePasteBySlug`; `SweepList`, `SweepForget`, `SweepDrop` are a cleanup cycle
over pastes; `Replicate`, the TTL actions, `ExpirePaste` and `Crash` are the
environment. A Redis error (`"redis" \in Faults`) is treated as the code treats
it: as a miss, or ignored. A database error fails the lookup, the insert or the
deletion. A crash loses the requests, burn goroutines and sweep of one process.

Time is abstracted: a key with a TTL may vanish at any moment, an inserted paste
may expire at any moment. This is weaker than the code's 30 s, 60 s and 10 min,
so what holds in the model does not rest on these figures.

`PasteContract` is what remains without replica, caches and the order of calls:
a paste is published at most once and on a free slug; it is withdrawn only
when it has lapsed or its slug was given up; a burn paste is shown only when its
slug has been given up for deletion; and any paste, a burn paste as well, may be
copied without further ado, which is what a fork does. The refinement mapping takes
the primary's rows for `live`, the inserted rows that are gone for `gone`, the slugs of
deletions launched for `spent`, the pastes shown for `seen` (`Seen`: every route that
answers with content but fork), and those forked for `copied` (`Drafted`).

### Runs

| run | question | result |
|---|---|---|
| `paste_safe` | two requests of every kind, an open, a burn and a protected burn paste, a sweep, deletions that fail, crashes: the inductive invariant `IInv`, `BurnSettled`, `ViewsCoverReplies`, `RowLossHasCause`, and the refinement of `PasteContract` | holds |
| `paste_live` | a lagging replica and failing Redis calls: `ExpiredNeverServed`, and under fairness `BurnEventuallyForgotten`, `CreatedBecomesReadable`, `ExpiredEventuallySwept` | holds |
| `paste_recache` | what a comment says of deletion and the cache | violated (section 10) |

Three configurations are kept beside the runs and are violated, too: `paste_aba.cfg`,
`paste_twice.cfg` and `paste_fork.cfg` (section 10).

What the properties leave open is said in them. `BurnSettled` is about views, raw
views and unlocks (`Consuming`), not about forks; several readers may each be shown
the paste, each with a deletion of its own. `RowLossHasCause` takes a reader that was
denied for a cause like any other, since its lookup burns; and the deletion it
launched goes by slug, so that the row it takes may be a later one.

*Bounds.* One slug, two or three pastes, two or three requests, one process (two
processes share every variable but the sweep and the fate in a crash; that two of
them sweep at once is covered by the proofs, which have any number). The
hazards are all about one slug: slugs share no state except the listing, whose
invalidation is global. Two pastes are the paste that was and the one that takes
its slug (`paste_safe` has one of each kind to choose from); the passing runs have
two requests, in `paste_live` of the kinds that change or show a row (view, admin
deletion, create); any number of any kind is covered by the proofs of section 9; the violations
take three: a reader, a second reader or deleter, and a creator. View counts are bounded by the requests. The initial states include an
empty table and one with an old row. Requests are symmetric in `paste_safe`; no run with symmetry checks a liveness property.

*Fairness* (`paste_live`): a goroutine that is running goes on
(the Go scheduler, and time-outs on the pools), a launched deletion and a cleanup
cycle go on, the replica replays its log, a TTL runs out. Not assumed: that
requests arrive, that pastes expire, that faults happen or stop.
`CHECK_DEADLOCK FALSE`: the model has finitely many requests and may end.

## 4. View counts: `ViewFlush`

`buf` and `flush` are the Redis hashes `paste:views` and `paste:views:flush`,
`column` the `views` column, `pc` and `batch` the position of each process's
flusher and what it read; `hits`, `added`, `overlapped` and `disturbed` are history:
the views counted, what each process has added to the rows, whether a cycle ever began
while another process was in one, and whether a call failed, a process died or a row
was deleted. `Rename`, `Read`, `Commit` and `Clear` are the four steps of
`flushViews`; `IncrementViews`, `DeleteRow` and `InsertRow` are what happens beside it.
Each call may fail, or succeed and lose its answer; the process may die. The download
counts (`flushDownloads`) are moved by the same code over other keys and are not
modelled a second time.

| run | question | result |
|---|---|---|
| `flush_safe` | two flushers, all faults, two slugs: `IInv`, `AddsOnce`, `NeverOverCounted`, `ClearsOnlyItsBatch`, `NothingDropped`, and `ViewsReachTheRow` under fairness of the ticker | holds |
| `flush_overlap` | what a comment says of the RENAME, with two flushers that nothing disturbs | violated (section 10) |

`main` starts a flusher in every process, on one buffer and one flush key, and nothing
keeps their cycles apart. What holds whatever they do is `AddsOnce`: no process adds a
view twice, not even when its commit's answer is lost and the flush key stays behind,
because its next cycle renames over it. The other promises hold until two cycles
overlap (`overlapped`), and each is false afterwards, without any failure: two that
have read one flush key both add it, and a RENAME between another's RENAME and DEL
makes that DEL erase what nobody has read. Until then, and until something is
disturbed, nothing is dropped; after a failure even a single flusher may lose a
batch (the next RENAME overwrites it) but never counts it twice.

*Bounds.* Two processes, which take every overlap of two cycles; two increments per
slug, one that is flushed and one that arrives during the flush or after a failure
(three in `flush_overlap`, which has one slug). *Fairness*: the ticker never stops, so
a flusher that can take a step does.

## 5. Runtime settings: `SettingsSync`

`saved` is the row of `app_settings`; `cur`, `sub`, `pings` and `loaded` are, per
process, the provider, whether the subscription stands, the messages its
subscriber has not handled, and what the reload under way has loaded; `pc` and
`home` are the position of an update request and its process. `Update`, `Save` and
`Set` are `Manager.Update`; `Publish` is the goroutine of its hook; `Load` and
`Apply` are `Manager.Reload`, run by the one subscriber goroutine of a process;
`Boot` and `Subscribe` are the start of `main`, which loads first and subscribes
later; `RestoreSettings` is what a restored backup does to the row. A failed Save
may have been executed; a ping may be lost for any of the subscribers; a reload
may fail; a process may die with its updates and publishers.

`missed` is history: the processes a change has passed by without a ping, or whose
reload failed, since they last loaded the row. It is what the two convergence
properties except, and it names the ways in which a process stays stale.

| run | question | result |
|---|---|---|
| `settings_sync` | two processes, three updates (one invalid), all faults: `IInv`, `ServedWasAccepted`, `StaleIsComing`, and `Converges` under fairness | holds |

Without Redis, `AppliedIsSaved` fails (`settings_race.cfg`, section 10).

*Bounds.* Two processes are the one that updates and one that is told; three
updates give two that race and one invalid or restored; each may be made once. A
ping counter is bounded by the updates. *Fairness*: an update that has begun and
its publisher go on, the subscriber reconnects and handles its messages. Restarts
and faults are not assumed to happen or to stop.

What the model shows is that the ping a process sends to itself matters: two
updates in one process may save in one order and apply in the other, and it is the
reload of its own ping that repairs this (the mutant `PublishToOthers`).

## 6. Files: `FileStore`

| variables | code |
|---|---|
| `origin` | how a storage key came about: not yet, by an upload through the server (`proxied`), by a presigned URL that is good (`signed`) or has lapsed (`closed`) |
| `blobs` | the providers that hold the object of a key |
| `row`, `ids` | the row of the key in table `files`, as the number of its id, and the last id used |
| `expired` | the rows past `expires_at` |
| `at`, `key`, `tried` | a request goroutine: its next call, its key, the providers Save has tried |
| `lock` | Redis `lock:expiry_cleanup` |
| `cl`, `locked`, `room`, `todo`, `item`, `removed` | a cleanup goroutine: its next call, whether it is a scheduled cycle (with the lock) or a purge, and the locals of `RunCleanup` and `PurgeExpired` |
| `aim`, `lapsed`, `faulted`, `crashes` | history: what had expired when a purge began, whether the lock ran out under a cycle, failures and deaths |

`Upload`, `Save` (one attempt at one provider) and `InsertFile` are
`Service.Upload`; `Presign`, `ClientPut`, `UrlLapses`, `Register` and `InsertFile`
are the direct upload; `FindFile`, `DropRow`, `EraseBlob` are the admin's
`DeleteFile`; `Acquire`, `CleanPastes`, `ListFiles`, `CleanBlob`, `CleanRow`,
`Finish`, `Release` are `runOnce` and `RunCleanup`, and with `StartPurge` in place
of `Acquire`, and a `Finish` that begins again, `PurgeExpired`. A failed call of
the store or the database may have been executed. Failed providers are tried in
any order after the first.

Abstractions: the half of a cycle that deletes pastes is one step (`CleanPastes`), which
finds any number of expired pastes up to a full batch, since any number may have
expired since the last cycle (`PasteStore` has its calls). The cached file records and their tombstones are
the code of the pastes' over other keys; here they only let the admin's lookup
find a file that is gone. Clients register keys they were given a URL for; a
client that registers some other key is not modelled. Sizes, hashes and passwords
are left out. Without Redis the lock is a no-op (`LocalLocker`), and there is one
process.

`FileContract` is what remains without providers, calls, lock and batches: a key is
claimed once; a file of an uploaded key is published with its object in the store,
and is the only one its key ever has; a file is withdrawn when it has lapsed or while an
admin deletes its key; and the object of an uploaded file is erased only when the
file is no longer live or has lapsed. The mapping takes the keys some provider has
an object of for `objects` (`Stored`), the rows of the table and those that were for
`live` and `past` (`Listed`, `Ever`), and the keys of deletions about to drop a row for
`doomed` (`Doomed`), which shrinks when such a request ends or dies.

| run | question | result |
|---|---|---|
| `file_sweep` | `IInv`, `UploadedIsServable`, `NoOrphans`, `OneCleanup`, the refinement of `FileContract`, `PurgeDrains`, and `ExpiredFileGone` under fairness | holds |
| `file_failover` | `DirectFindsFile` | violated (section 10) |

*Bounds.* One key with one row, since keys meet only in the limit of a batch, which is
1 here, so that one expired paste fills it; one request at a time beside two
cleaners (both may be cycles, purges, or one of each); two providers; one death;
every kind of fault at any call. Two requests for one key, any number of
keys, and a presigned key with a second row (which a cleaner with an old listing leaves
alone, since it deletes by id), are covered by the proofs. *Fairness*: a cycle that has begun goes on, the
tickers try for the lock (their `Acquire` is taken when the lock stays free), a key with
a TTL goes. A purge, an upload, an expiry are not assumed to happen.

`ExpiredFileGone` is conditional. `RunCleanup` returns before the files whenever the
pastes filled the batch (`manager.go:185`), so while every cycle finds a full batch of
expired pastes, expired files stay. The property assumes that from some time on no
cycle does (`RoomInTheEnd`); without the assumption (`FileGoneAnyway`) it is violated
(`file_starved.cfg`, section 10).

`UploadedIsServable` survives every failure, because Save comes before the INSERT,
the admin removes the row first, and the sweep touches expired rows only.
`NoOrphans` holds without failures only: a crash between Save and INSERT, a
failed INSERT, a best-effort deletion that fails, or a fallback provider whose
error `MultiS3Storage.Delete` swallows leave an object no row names, and nothing
ever looks for it. A presigned key has neither guarantee: it may be registered
while the admin's deletion is about to remove its object, or uploaded again after it.

## 7. The admin page: `AdminSession`, `AdminConsole`, `AdminPanels`

`AdminSession` is `TokenGate` and the token: `stored` is `sessionStorage`, `gate` and
`typed` the request and the input of the gate, `serverToken` the `ADMIN_TOKEN` of the
running server (`Off` without one). `Verdict` is `requireToken`, which comes before
every admin handler. A server may restart with another token, so a token that was
good may be refused later.

An answer is `ok`, `401`, `404` or `failed`; the last stands for everything the page
treats alike, a lost answer included: every call may fail although the server has
carried it out (`Arrivals`).

**`AdminConsole`** puts the dashboard beside it.

| variables | code |
|---|---|
| `there`, `filed` | the content and the reports of the server |
| `tab`, `page`, `search`, `debounced` | the controls, the debounced search included |
| `rows`, `total`, `listing`, `reports`, `stats`, `loading`, `loadingReports`, `purging`, `busySlug`, `busyReport` | what the dashboard shows, and its flags |
| `statsFetch`, `listFetch`, `reportsFetch` | the fetches of effects whose `cancelled` is not set |
| `calls` | the calls of event handlers; `own` says their dashboard is still mounted |
| `shownFor`, `missed` | history: page and query of the fetch the rows came with; whether the last fetch of the list failed |

The distinction the code makes is kept: an effect's fetch is cancelled when the
effect runs again or its component unmounts (`Cleanup`), and what it brings is
dropped; a handler's call is never cancelled. After a logout its setters reach
nothing, but a refusal still calls `onLogout`, also in the next session
(`PurgeRefused`). Deletions and reports change the rows and the statistics on screen
without asking again (`RemoveRow`); a purge and the RELOAD button run the effects
again (`Reload`). Deleting what was reported is two requests, one after the other, the
second of which is made also when the dashboard is gone (`ContentLands`).

**`AdminPanels`** puts the settings form and the backup section beside it. A panel
mounts with its tab and unmounts with it or with the session; a load of the
settings is cancelled then, other calls go on with what their closure captured
(settings, snapshot, mode, token). `SaveCarriedOut` and `Run` change the server before
the answer arrives; `ran` is history, the modes of the restores run in this mount.
Other administrators save, and the operator removes snapshot files.

| run | question | result |
|---|---|---|
| `admin_lists` | `IInv`, `WaitingIsForSomething` (whatever shows LOADING or is busy has a request behind it), `RowsMatchControls` (the rows of the open list came with an answer to the page and the debounced search in effect, unless it is being fetched or its last fetch failed) | holds |
| `admin_panels` | `IInv`, `OneSubmitAtATime`, `EditsSurviveTheSave`, `MessageNamesTheModeRun` | holds |

*Bounds.* `admin_lists`: three pastes on pages of two, so that there are two pages
and a deletion may empty the second; one file, one report about a paste, two
queries; two calls of handlers in flight; four events. Logging in and answers are no
events, and of an effect's fetches one counts at a time. A tab, a search, a turned page and
a removal fit into four events, as do a tab, two deletions and a restart.
`admin_panels`: one good and one bad limit, a filled and a blank option,
lists of at most two, two snapshots, three calls, five events: enough to submit,
leave, return and submit again while the first answer is out. One token beside `Off`
is enough for refusals, since a session ends on 401 and on 404 alike. `CHECK_DEADLOCK
FALSE`: a page on which nothing is under way rests, and the events are bounded. No
fairness is assumed: the properties say that what is waited for is under way, not
that the network delivers it.

Two things the properties leave out by name. A fetch of a list that fails only sets the
error: the rows of the former page stay, below the number of the new one (`missed`;
`AdminDashboard.tsx:178`). And `OneSubmitAtATime` is about one mount of a panel and not
about restores: a single `restoringFilename` stands for all of them, so that restoring A,
then B, then A again submits A while its restore runs (`OneRestoreEach`); and a panel
that is closed and opened again knows nothing of the save it has under way
(`OneSaveEver`). `admin_restores.cfg` and `admin_saves.cfg` show both (section 10).

What the model shows of the code: the flags need no cleanup in the cancelled branch
because the effect that cancels a fetch has just started the next one (`ListEffect`);
saving disables the whole form (`FormEnabled`), which is why the answer that replaces
it loses nothing; the message of a restore uses the mode its closure captured.

## 8. The visitor's pages: `PasswordGate`, `PastePages`, `FilePages`

`PasswordGate` is the reducer of the gate (`NextState`, with the events that do not fit
the status ignored) and its cooldown timer. Its submit and its answers are actions of
the pages that render it.

**`PastePages`** is one tab. `page` is the page and the slug and key of its URL, `form`
and `viewer` the state of the two components, `decrypts` the decryptions under way,
`calls` the requests, `pastes` the server's pastes. `used`, `links`, `took` are history:
the keys generated, the links to his pastes the visitor was given, and what a
request of the page on screen burned. A paste of the model is a content, and whether
it is encrypted, to be burned and protected; a content is a text and the keys it was
encrypted with, so that decrypting with another key fails, as AES-GCM does.

`FollowLink` and `OpenAddress` leave a page: a link keeps the tab's scripts (its calls
go on, disowned), an address ends them. `PasteViewPage` is the server component with
its peek and its redirect to the gate. `HandleSubmit` draws a fresh key for
an encrypted paste; `CreateShowsLink` and `CreateRedirects` are the two ends of a
create; `HandleReveal`, `HandleFork`, `SubmitPassword` send, `...Lands` and `...Fails` take
the answers. `RevealRefused` is a reveal whose slug was taken anew by a paste with a
password: the lookup burns it, if it is to be burned, before the handler answers 401. `router.push` in a handler takes the visitor away also when he has left
the page meanwhile, and the model does, too. `Vanish` is expiry, an
administrator, or another reader. The server of the model answers a request in one step: its
own interleavings are `PasteStore`.

**`FilePages`** is one tab with the upload form. A direct upload is a chain of three
requests (`PresignLands`, `PutLands`, `UploadLands`), the upload through the server one.
Leaving aborts the transfer under way (`Unmount`: `xhrRef`), but not a presign or a
registration: a chain goes on without its form and stores and registers a file nobody is
shown. `asked` is history: the visibility chosen when the upload began. Whether the
page uploads directly is decided by the server at every rendering (`direct`).

| run | question | result |
|---|---|---|
| `paste_pages` | `IInv`, `WaitingIsForSomething`, `BurnedIsShown`, `LinkOpensPaste` | holds |
| `file_pages` | `IInv`, `OneUploadAtATime`, `UrlLeadsToTheFile` | holds |

*Bounds.* `paste_pages`: two slugs, one taken by somebody's paste of any kind, that
paste's key and one key to generate, one text to type beside the empty one, two calls
in flight, eight events; creating an encrypted paste, leaving, and revealing or
unlocking the other one takes seven. The slugs are symmetric. `file_pages`: two files
and one that is too big, three slugs to draw, three calls, ten events: an upload left in
the middle, a second one in a new form, and an unlock. The proofs of section 9 have no
such bounds. `CHECK_DEADLOCK FALSE`, and no fairness, as in section 7.

`BurnedIsShown` is the promise the peek is there for: opening the page of a paste to be
burned must not burn it, and the answer to the request that does must reach the
screen. A visitor who leaves before the answer, or an answer that is lost, forfeits the paste: the
property speaks of the page on screen. And a reveal that is refused (`RevealRefused`) may
burn what nobody sees; the property names it as its exception, `BurnedIsSeen` is the
property without the exception, and `paste_refused.cfg` shows its violation. `LinkOpensPaste` ties four
things that are kept apart: the text typed, the key in the closure of one submit, the
slug of the answer and the fragment of the link.

## 9. Proofs

Checked by TLAPS (SMT, Zenon, LS4), for every value of the constants that the
named assumptions allow (`StoreAssumption`, `FlushAssumption`,
`SettingsAssumption`, `FileAssumption`, `SessionAssumption`, `ConsoleAssumption`,
`PanelsAssumption`, `PagesAssumption`, `FilesAssumption`).

`PasteStore_proofs`: `Invariance` shows `Spec => []IInv`, where `IInv` is the
conjunction of

- `TypeOK`;
- `CreatesOK`: a create owns its new paste, which is no row before its INSERT;
- `RowsOK`: every copy of a row (primary, replica, log, cache, a reader's
  locals) is of an inserted paste under its own slug;
- `FlowOK`: where a request stands determines what it holds, has answered and
  has burned;
- `BurnsOK`: a request about to show a burn paste, fork apart, has launched its deletion, and
  after a finished deletion the paste that was read is not stored;
- `ExpiryOK`: a request about to show a paste found it unexpired after it came;
- `SweepOK`: a cleanup cycle holds expired pastes only;
- `ViewsOK`: the buffer of a slug is at least the number of requests of that slug that
  have been counted, those that have not replied yet included (`Counted`), unless Redis
  calls may fail.

The safety properties alone are not inductive: that a finished deletion is
final needs that no create re-inserts a row that was there (`CreatesOK`) and that
a row is stored under its own slug (`RowsOK`); that an answer is launched-first
needs the position of the request (`FlowOK`). One lemma per part has one step
per action. From `IInv` follow `TypeCorrect`, `BurnsSettle`
(`[]BurnSettled`), `ExpiryHolds` (`[]ExpiredNeverServed`), `ViewsAreCounted`
(`[]ViewsCoverReplies`) and `LossHasCause` (`RowLossHasCause`, an action property).

`ViewsCoverReplies` compares a counter with the number of requests that got a reply;
it is not inductive, since a request is counted one step before it replies, and an
unlock looks the paste up again in between. `ViewsOK` counts the requests from the
step that counts them. That the set of the counted grows by one request is a lemma
(`CountViewCounts`), by the theorems about finite sets; it is where the proofs need
that `Requests` is finite, which `StoreAssumption` says.

The last theorem of the module is `Implements`, `Spec => ImplementsContract`. Initial states
map to initial states; each action maps to one contract action (`InsertRow` to
Publish, `DropRow` and `SweepDrop` to Withdraw, the launch of a deletion to
GiveUp, `ExpirePaste` to Lapse, `Reply` and the direct answers to Show, `ReturnFork` to
Copy) or to a stutter, under `IInv`.

`ViewFlush_proofs`: for any number of flushers `Invariance` (`IInv`: `TypeOK`, `AddedOK`,
`AloneOK`, `CountsOK`, `BatchOK`), and from it `EachAddsOnce`, `CountedOnce`,
`ClearsItsBatch` and `NoneDropped`. `AddedOK` bounds, for each process, what it has added
and what may still come to it by the views counted, and needs no assumption about the
others, since a flusher past its RENAME never sees the buffer again. Until two meet,
`AloneOK` says that one flusher at most is in a cycle, `CountsOK` bounds the row, the
buffer and what is still coming by the views counted, and `BatchOK` says that a flusher
past its read has read what the flush key holds.

`SettingsSync_proofs`: `Invariance` (`IInv`: `TypeOK`, `SourcesOK`,
`ServedWasAccepted`, `StaleIsComing`, `ReloadsOK`), and from it `ServesAccepted` and
`StaleProcessesAreTold`. `SourcesOK` says that only accepted, valid settings are on
their way to a provider. `StaleIsComing` is not inductive alone: a reload that
loaded an old row would make a process stale again, and `ReloadsOK` says that
such a reload has another ping behind it, since the ping of an update follows
its Save.

`FileStore_proofs`: `Invariance` (`IInv`: `TypeOK`, `FilesOK`, `RequestsOK`,
`CleanersOK`, `ItemsOK`, `LockOK`, `PurgeOK` and the three safety properties), and
from it `UploadsAreServable`, `NothingLeftBehind`, `OneCycle`, `PurgesDrain`.
`UploadedIsServable` needs that an upload is alone on its key until its INSERT and
has saved the object (`RequestsOK`), that an uploaded key has one row ever
(`FilesOK`), and that a cleaner's items are expired (`CleanersOK`). `NoOrphans`
needs that the object of the row a cleaner deletes next is gone (`ItemsOK`).
`PurgesDrain` needs that a purge that has removed nothing and listed nothing has
nothing left of its aim (`PurgeOK`); its listing had room, so it listed all there was.

`Implements` in the same module is `Spec => ImplementsFileContract`. One lemma per
contract action says when a change of rows or objects is that action (`Claimed`,
`ObjectStored`, `Published`, `Withdrawn`, `Erased`, and `Quiet` for the steps that change
neither), and `ContractStep` has one step per action of `FileStore`. The
insert of an upload maps to Publish because the upload is alone on its key and
has saved the object (`RequestsOK`); `CleanRow` to Withdraw because its item is expired
(`CleanersOK`) and the DELETE is by id, so that a second row of the key stays; `CleanBlob`
to Erase because the only row an uploaded key ever has is the expired one the cleaner
holds (`ItemIsLast`, from `FilesOK`).

`AdminConsole_proofs`: `Invariance` (`IInv`: `TypeOK`, `WaitingIsForSomething`,
`FetchesBelong`, `RowsMatchControls`), and from it `NothingWaitsInVain`,
`RowsAreThoseAskedFor` and `TypeCorrect`. `RowsMatchControls` is not inductive: it says
nothing of the answers that are still out. `FetchesBelong` says that a fetch that is
not cancelled asks for the page and the search in effect, and that a list that is
not on screen has none, which is what the cleanups of the effects are for. A fetch that
lands keeps the rows or brings those of its own page; `missed` tells the two apart.
`WaitingIsForSomething` is inductive as it stands; its steps are proved in two halves, the
spinners, behind which are fetches, and the buttons, behind which are calls of the
dashboard on screen.

`AdminPanels_proofs`: `Invariance` (`IInv`: `TypeOK`, the three safety properties,
`LoadsOK`, `RunsOK`), and from it `ControlsTakeTurns`, `NoEditIsLost`, `MessageIsTrue`.
`EditsSurviveTheSave` needs that no load is under way during a save (`LoadsOK`): its
answer would replace the form. `MessageNamesTheModeRun` needs that a restore whose
answer is out has run in the mode its call carries (`RunsOK`).

`FilePages_proofs`: `Invariance` (`IInv`: `TypeOK`, the two safety properties, `SlugsOK`,
`UploadsOK`), and from it `UploadsTakeTurns`, `UrlIsTrue`. `UrlLeadsToTheFile` needs that no
other chain, disowned ones included, has the slug of the URL (`SlugsOK`), and that what is
registered for a slug is the file and the visibility of its chain (`UploadsOK`).

`PastePages_proofs`: `Invariance` (`IInv`: `TypeOK`, the three safety properties,
`ScreenOK`, `SlugsKnown`, `NothingEmpty`, `PromisesOK`), and from it `NoButtonIsStuck`,
`NothingIsWasted`, `LinksKeepTheirPromise`. `BurnedIsShown` needs that one request at
a time may burn for the page on screen (`ScreenOK`) and that no paste is empty, since
the viewer takes an empty content for one not revealed (`NothingEmpty`).
`LinkOpensPaste` needs that what a create has sent opens with the key its closure
keeps, and is what its slug holds once it is stored (`PromisesOK`). Contents are
unbounded sequences of keys; the proofs know them by the lemma `ContentFacts` only.

In these four modules `StepCases` lists the steps of `Next` in the form the lemmas use
(one disjunct per action, an answer and its arrival apart), `Steps` shows that `Next`
is one of them, and each part of `IInv` has one lemma with one step per action.

Only model-checked: what rests on fairness (`BurnEventuallyForgotten`,
`CreatedBecomesReadable`, `ExpiredEventuallySwept`, `ViewsReachTheRow`, `Converges`,
`ExpiredFileGone`), since liveness and ENABLED are beyond the provers that are used.
Every other property of a passing run has a theorem.

## 10. Where the code and its documentation disagree

Three runs, each about one sentence of the repository:

1. `paste_recache`: `GetBySlug` may store a record in the cache after the deletion has
   dropped it there; a request that comes after the deletion is still shown the
   paste, for up to the cache's ten minutes, although the tombstone checks are
   there "to prevent re-caching stale data". The second check and the SET are two
   calls, the order in `DeletePasteBySlug` is cache first, tombstone second, and
   the tombstone lives shorter than the cache entry.
2. `file_failover`: an upload that failed over to another provider is recorded at
   the hashed one, and direct downloads are sent there.
3. `flush_overlap`: the RENAME is there "to ensure we don't drop increments that happen
   during flushing"; with two processes, whose flushers nothing keeps apart, the
   second RENAME puts new counts under the first one's DEL. No call fails in the trace.

Nine configurations that are no runs of `PROJECT.json`, each violated as it stands
(`tlc -config paste_aba.cfg MCPasteStore`, and so on):

4. `paste_aba.cfg` (`BurnTakesOwnPaste`): the deletion a burn launches takes whatever
   paste has the slug when it runs.
5. `paste_twice.cfg` (`BurnShownOnce`): two readers may both be shown a burn paste.
6. `paste_fork.cfg` (`ContentBurns`): a fork hands out the content of a burn paste, as
   often as it is asked, and burns nothing (`internal/paste/service.go:299`,
   `internal/handler/paste.go:633`); it asks for no password either. The API docs say
   "Delete paste after first view." (`app/docs/page.tsx:60`).
7. `paste_refused.cfg` (`BurnedIsSeen`): the reveal of a page whose slug was taken anew by a
   protected burn paste deletes that paste and is answered 401; nobody has seen it.
8. `settings_race.cfg`: two concurrent updates may leave a process with settings the
   database does not hold; with Redis its own ping repairs it, without Redis it
   stays until a restart.
9. `file_starved.cfg` (`FileGoneAnyway`): as long as every cycle finds a full batch of
   expired pastes, no expired file is deleted.
10. `admin_gone.cfg` (`SessionEndsForCause`): the API client's comment names 401, "or
   404 when the admin API is disabled server-side" (`lib/api.ts:302`) for a wrong
   token, and the dashboard logs out on either. A restore answers 404 also when its
   snapshot file is gone: an administrator with a valid token is logged out.
11. `admin_restores.cfg` (`OneRestoreEach`): a snapshot is submitted for restoring while a
   restore of it is under way, after another one was restored in between.
12. `admin_saves.cfg` (`OneSaveEver`): a settings form that was closed and opened again
   sends a second save while the first is under way.

Three more behaviours the models have and no run states. A view of a protected burn
paste answers 401 and deletes the paste, which nobody has seen (`ReturnOpen`). An
unlock checks the password of one lookup and shows the paste of a second, which is
another paste when the slug was deleted and taken again in between (`ReturnUnlocked`).
`README.md:163` has the cleanup "ensuring no orphaned data remains", which holds
without failures (section 6).

## 11. What is not modelled

- The validation of a create, the content and its compression, titles, languages:
  data no property tells apart. The creator token is stored and never checked
  (its verifier has no caller).
- The listing is that of the only caller (limit 20, which is the one that is
  cached); other limits bypass the cache. A listing that was queried before an insert
  may be cached after the insert's DEL and then lacks the paste until its 60 s are
  over: the model has it, and nothing but that TTL ends it.
- go-redis retries a command whose answer was lost. `ViewFlush` counts what Redis
  executed, so a retried increment is two hits.
- A deadlock PostgreSQL resolves between two flush transactions is one of the
  failed commits.
- A generated slug that is taken ends the request in the model; the generator's
  redraw is another request that draws a free one; the ten retries are not told apart.
- Highlighting (a library call), the CORS tool (one-shot I/O), static assets,
  migrations' SQL, Docker files.
- Access control, quotas, migrations, the server's start and stop, the export and the
  table-by-table insertion of a backup. Each is a short sequence of calls whose
  hazards are known and that shares no state with the modelled parts:
  - `internal/access/controller.go:65`: the in-memory counter of failed attempts is
    changed on a shared entry without a lock, so concurrent failures may count once;
    `:114`: INCR and EXPIRE are a pipeline and no transaction, so a counter may stay
    without its expiry; `internal/handler/paste.go:514`: the check for a lockout and the
    count of a failure are two calls, so concurrent attempts may all pass the check;
  - `internal/quota/redis.go:56`: the time to live of a day's key is taken from one
    reading of the clock and the key from another;
  - `internal/backup/backup.go:267`: a restore wipes first and inserts afterwards, table
    by table; an error in between leaves neither state; `:179`: an export reads table
    after table without a snapshot;
  - `internal/db/db.go:92`, `cmd/server/main.go:446`: the advisory lock serialises
    migrations; `main` returns when `ListenAndServe` does, which is when Shutdown
    begins, and so cuts off the requests under way.
- Hazards of modelled parts that no property states, since the code has no intention
  they would break:
  - `internal/db/flusher.go:33`: what a failed cycle left is overwritten by the next
    RENAME, so one flusher loses a batch after a failure (section 4);
  - `internal/paste/service.go:126`: a burn whose deletion fails or dies is not tried
    again, and the paste stays (section 3);
  - `internal/file/multi_s3.go:138`: Delete swallows the errors of all providers but the
    hashed one; `internal/expiry/manager.go:196`: a batch whose items all fail is listed
    again by every cycle; `internal/file/service.go:509`: a presigned upload may be
    registered late, or after an admin removed it (section 6);
  - `components/PasteForm.tsx:133`, `PasteViewer.tsx:126`: an answer that arrives late
    takes the visitor away from the page he is on by then; `PasteForm.tsx:116`: a create whose
    answer is lost leaves a paste whose key nobody has; `PasteViewer.tsx:85`: a
    decryption with an old key may end last; `app/[slug]/page.tsx:106`: the redirect to
    the gate may drop the fragment, and with it the key;
  - `components/FileUploader.tsx:137`: a registration that fails after the PUT leaves an
    object without a row;
  - `components/AdminDashboard.tsx`: pastes and files share one `busySlug`; a purge refused in an
    earlier session ends the present one (`:239`); a deletion by another administrator
    may leave the list on a page beyond its end until the next click.
- Of the frontend: titles, languages, expiry choices, highlighting, messages, upload progress and
  hashes; the `disabled` switch of the forms during maintenance, which is fixed when a
  page is rendered; the download of a snapshot, which keeps no state.
- Page furniture (header, progress bar, theme, copying, countdown, report dialog, QR
  code, search and static pages), which no other part reads, and the API proxy
  (`pages/api/[...path].ts`), which forwards bytes: that a call may fail or lose its answer
  on the way is in every page's model.
