# A verification project for sounduk_backend

TLA+ models of the backend in `src/`, the TLC runs that check them and the
proofs that TLAPS checks. The code is the reference: every definition that
models code is listed with its lines in `PROJECT.json` under `map`.

1. [The system](#the-system)
2. [Modules and code](#modules-and-code)
3. [Runs](#runs)
4. [Where the code does not do what it says](#where-the-code-does-not-do-what-it-says)
5. [Proofs](#proofs)
6. [What is not modelled](#what-is-not-modelled)
7. [Plan](#plan)

## The system

A FastAPI server for a music library over SQLite (SQLAlchemy) and S3, with a
token economy, generated music, purchases through YooKassa and background
imports from YouTube and other links.

How it runs decides what can go wrong:

* **Asyncio.** Handlers are `async def` with synchronous database calls, so a
  handler runs without interruption between two real awaits.
* **One process, or several.** `models.py:196` and `context/change_log.md:160`
  have one uvicorn worker, `DEPLOY.md:74` starts four, and `db_backup.py` provides
  for several. The models of the ledger, of SoundSlop and of payments follow the
  first; those of the library, albums, stations, access and start-up have several
  processes, whose interleavings include those of one
  (see [What is not modelled](#what-is-not-modelled)).
* **Several commits per handler.** Every `db.commit()` is durable on its own.
  A kill can come between two of them, and most handlers here have two or more.
* **Any commit can fail.** `create_album` flushes its row and then awaits the
  download of a cover (`albums.py:320-322`), and holds SQLite's write lock
  meanwhile. A commit of anybody else, handler, task or thread, that waits too
  long for it raises `OperationalError`: what the handler committed before stays,
  the rest of it is not executed. So a failed commit stands beside the kill in the
  models of the ledger, SoundSlop, payments, imports, library, albums and stations.
  In the first five the two are one bounded kind of event, a *setback*
  (`MaxSetbacks`).
* **Tasks in memory.** FastAPI background tasks and `asyncio.create_task` do not
  survive the process.
* **A second process.** With `IMPORT_WORKER_EXTERNAL` the import runners live in
  `import_worker.py` and interleave with every commit of the API.
* **One session per request.** `get_current_user` and its handler share a
  session; attributes are read once and written back as absolute values, also
  after an await. On SQLite `with_for_update` does nothing.
* **Ids come back.** `users.id` is an INTEGER PRIMARY KEY without AUTOINCREMENT:
  deleting the newest account frees its id. Foreign keys are not enforced;
  `token_transactions` and `soundslop_jobs` outlive their account.
* **Two clocks.** A premium is granted by `datetime.now()` (`payments.py:192`) and
  ended by `datetime.utcnow()` (`auth_utils.py:101`); backups expire at an instant
  (`db_backup.py:70`), and their days are those of UTC.

### Inventory

| Component | State | Operations | Interacts with | Hard behaviours | What makes it correct |
|---|---|---|---|---|---|
| Accounts and premium (`models.User`, `auth_utils.py`, `api/users.py`) | users: id, premium and its end, storage limit, balance | register, delete me, lapse of premium at any request | every component through `get_current_user` | id reuse; the lapse is a commit of its own that overwrites the limit | premium that was paid for is kept; what was bought is not lost |
| Token ledger (`token_service.py`, `api/tokens.py`) | token_transactions, cached balance | apply_transaction, spend_tokens, ad reward, redeem storage | SoundSlop, payments | repeats, daily limit, two commits of a redeem | cache equals ledger; one row per reference; no grant without a charge |
| SoundSlop (`api/soundslop.py`, `soundslop_worker.py`) | soundslop_jobs, tracks, background tasks | generate, process_job, fail and refund | ledger, library, provider | kill or failed commit with a job in hand; source or account deleted meanwhile | paid once; delivered or refunded, never both; ends |
| SoundSlop provider (`soundslop_provider.py`) | index of the next key | submit with rotation of keys | external API | keys without credit | tries every usable key |
| Payments (`api/payments.py`) | payments, premium | create, poll, webhook, grant_product | YooKassa, ledger, accounts | poll races webhook, redelivery, kill or failure between commits, two clocks | money arrives as product, once |
| Import jobs (`api/tracks.py`, `import_worker.py`) | import_jobs, import_job_items, runners, semaphore | create, retry, cancel, runner, item, reclaim | library, albums | two processes, stale reclaim, cancel and retry against a running job | one track per link; completed means done; cancelled stays cancelled; ends |
| Track library (`api/tracks.py`, `library_sync.py`) | tracks, cumulative_bytes, library_revision, S3 objects | upload, import, edit, delete, clean-up, list by pages | every component that stores tracks | quota check before an await; revision in its own commit; S3 and rows change apart; the list changes between two pages | running totals right; a client that is told "unchanged" is current; no track without its audio; a walk misses nothing |
| Playback (`api/tracks.py`: stream, token, play) | stream tokens, presigned URLs | stream, issue a token, play, follow a URL | library, storage limit | a check made when the token was issued; ranges at the edges | a frozen track stops within the life of a token; ranges lie inside the file |
| Albums (`api/albums.py`) | albums with track ids and updated_at | create, update (last write wins), delete, attach | library, cover cache, imports | timestamp checked before an await; list rewritten whole; write lock held over an await | a newer update is never overwritten by an older one; an imported track stays |
| Cover cache (`cover_cache.py`, `cover_storage.py`) | memory LRU, disk files, S3 | resolve, invalidate | albums, library | load that began before an invalidation; torn files; memory of other processes | a cover served after an update is the new one |
| Login and registration (`api/auth.py`) | codes, login attempts, registrations per address | register, verify, login, reset | accounts, mail | one code for two purposes; one record for two ladders; account and count in two commits | a code does one thing once; limits hold |
| Administration (`api/admin.py`) | audit log | update and delete users | accounts, library | last administrator | one administrator remains |
| Radio stations (`api/user_radio_stations.py`) | stations of an account and of the catalog, covers | replace, create, update, delete | cover storage, premium | check before an awaited cover; S3 changes before the commit | limit and uniqueness; a path has its cover |
| Backup (`db_backup.py`, `main.py`) | database file, S3 copies, start-up lock | restore, periodic upload, prune | start-up | restore in a thread beside `create_all`; several workers save and prune | no newer data replaced by older; a snapshot per day is kept |

`s3_utils.py`, `youtube_converter.py`, mail, settings, schemas, logging and the
maintenance scripts keep no shared state worth a model.

The hazards of this code, each at its line and with the properties that guard
against it, are listed in `PROJECT.json` under `hazards`.

## Modules and code

```
Accounts                 users, premium, ids, clocks, kills, failed commits
  └ TokenLedger          ledger, ad rewards, redemption
      ├ SoundSlop        generation jobs and tasks ── implements ── GenerationContract
      ├ Payments         YooKassa, poll, webhook, grants   (MCPayments)
      └ TokenLedgerProofs
          ├ SoundSlopProofs    (with SoundSlop)
          └ PaymentsProofs     (with Payments)
ImportJobs               jobs, items, runners, external worker   (MCImportJobs)
  └ ImportJobsProofs

Library                  tracks, totals, revision, pages, clean-up  ┐
Startup                  database file, lock, restore, backups      ┴ MCStorage
  ├ StartupProofs
  └ LibraryProofs        (with MCStorage and StartupProofs)

CoverCache               memory, disk and S3 of one cover
  └ Albums               album rows and the covers they change  (MCAlbums)  ┐
Stations                 radio stations of account and catalog              ├ MCServices
Access                   codes, registrations, lockouts                     │
Playback                 tokens, URLs, ranges                               ┘
  ├ PlaybackProofs
  └ ServicesProofs       (with MCServices and PlaybackProofs)
```

The branches are EXTENDS: SoundSlop and Payments are the ledger composed with a
component that writes it, and their next-state relations contain the ledger's
own requests; Albums is the cache composed with the requests that change its
cover. MCStorage and MCServices put components side by side that share no
variable. In them, `focus` names the one that moves while the others rest in an
initial state: since a step of one changes nothing another one's properties
speak of, all interleavings together would show no more.

**Accounts.** One action per commit. The variable `loop` is the continuation
that holds the event loop: a handler starts when it is `Idle`, `Suspend`s
between two commits without an await, and `Release`s it after its last one.
`KillProcess` empties it at any point, and `CommitFails` when the next commit of
the running handler raises; a request whose first or only commit fails changes
nothing. `Request(u)` is `get_current_user`: it ends a lapsed premium in the row of
the caller, so every authenticated action includes it. `now` is an instant, and
it moves on at any moment, also between two commits of a handler. `Utc` and
`Local` are what the two clocks of the code show at it, and `Today` the UTC day.

**TokenLedger.** `txns` is the table in insertion order, `balance` the cache.
`ApplyTransaction` is `apply_transaction` with both outcomes of its commit: the
unique constraint turns a repeat into a rollback. `Insufficient` guards it; the
handlers that catch `InsufficientTokens` are actions of their own
(`RedeemRefused`, `Uncharge`). An advert is three actions by its early returns,
a redeem is two by its commits. `epoch` is a history variable that separates
the rows of an account from those of an earlier account with its id.

**SoundSlop.** `Generate`, then `Charge` or `Uncharge`: insertion, charge and
compensation are three commits. A charged job is a task in memory (`tasks`)
that starts at any later moment, finds or misses its source, and awaits the
provider, during which everything else may happen. Failure is two commits
(`Fail`, `Refund`). Each of these commits may fail: that of the track is caught and
is one of the ways to `GenerationFails`, that of the charge, of the withdrawal or of
the refund ends the handler (`JobHandlerFails`), and that of "running" or "failed"
ends the task (`TaskFails`); nothing in the code ever looks for such a job again.
`lost` is a history variable: jobs whose own handler or task a kill or a failed
commit ended; `forsaken`: jobs whose account was deleted after them.
`GenerationContract` is what the payer is promised: a deal is paid once and ends
once. `DealOf` is the refinement mapping.

**Payments.** `kassa` is YooKassa, an external service modelled from the calls
and the metadata the code uses. Poll and webhook update the row, then grant:
`GrantPremium` and `GrantTokens` are two commits. `Webhook(notice)` is the handler
for any body: it believes payment, buyer and product as the body names them and
checks neither the sender nor a signature (`payments.py:378`). `YooKassaNotifies`
is the environment: the bodies that arrive are YooKassa's own, for payments that
succeeded there, delivered until the handler answers 200, which it does after its
last commit, and possibly again after that. That is an assumption on the
deployment, not something the code establishes, and every property of payments
rests on it. A poll grants to its caller, who may be an administrator; `seenBy`
is a history variable that tells whose polls saw the success. `AdminSetsPremium` is
the switch of `is_premium` by an administrator, which leaves a premium without an
end; a tariff gives it one.

**ImportJobs.** A runner per job and a coroutine per item, each with the stage
it stands at. `MidBlock` holds the stages between two database steps without an
await: the runners' process lets no other coroutine in there, and the API
process only when it is another process (`external`). So the model has both
deployments, and in the external one cancel, retry and create fall between the
read and the commit of the runner: `StartRunner`/`MarkRunning`,
`FindNonePending`/`CountItems`/`FinishJob`, `Claim`/`BeginItem`,
`StoreTrack`/`RecordSuccess`. Cancel is the handler whose own read and commit
are apart as well (`CancelJob`, `CommitCancel`), because its commit overwrites
what it read; create and retry read nothing that a runner changes in a way they
would overwrite, so read and commit are one action. `RecordSuccess` and
`ImportFails` write whatever the item says by then, as the session does.
Any of these commits, or the refresh and the bump after a track's commit
(`tracks.py:1361-1362`), may raise. `ItemDies` is that for a coroutine, with the
item put back to pending or failed by its `except`, or left running when the
`except` cannot write either; `RunnerFails` for a runner, whose job is committed as
failed or not at all; `AttachFails` for the attach of a wave, which is also
skipped when the user is gone and whose every exception is swallowed
(`tracks.py:582-588`), the 404 of a missing album included; `CreateFails` and
`CancelFails` for the handlers. `undone` and `unattached` are history variables
for what these leave behind.

**Library.** The library of one account, with several processes. A `task` is the
request that runs in a process, at the step it stands at: the usage is counted
before the body of an upload is awaited (`StartUpload`, `CheckUpload`), the
object is put before the covers are awaited, the row, the rebuild of
`cumulative_bytes` and the commit are one transaction (`StoreTrack`), and the
revision is read and written after it (`BumpRead`, `BumpWrite`). A deleted
track's files are purged after the response, a clean-up removes the objects
first, the deletion of an account removes the rows the ORM loaded (`Cascade`,
`Erase`). `GenerateTrack` is the insert of SoundSlop, which rebuilds and bumps
nothing. The client keeps a copy with the revision of the first page and walks
on with the cursor (`StartWalk` with `NoCursor`, then `ReadPage`) while all this
goes on. `Interrupt` ends a request where it stands: its process is killed, or
its next commit raises, such as the bump after the commit of the rows
(`library_sync.py:17`) or the deletion of the rows after a clean-up removed their
objects (`admin.py:143-156`); a clean-up removes any of the objects it tries, since
each deletion in S3 may fail. `cleaned`, `stranded`, `late`, `unannounced` and
`regressed` are history variables for what the properties have to except.

**Startup.** The life of workers on one host: lock, threads, `create_all`, and
the threads' own steps, a restore of three (`CheckFile`, `Download`,
`PlaceFile`) and an upload of four (`CopyDb`, `DeleteBackups`, `SaveLatest`,
`SaveStamped`), once a day and at the end of a process. The database is the set
of rows committed to it. All workers share one temporary copy. A kill, a stop
and the loss of the disk can come at any step. Time is a sequence of instants,
`Parts` of them a day: a snapshot is `Expired` by the instant, one a day is kept by
the day (`Keeps`), so that the oldest day of the retention is pruned part by
part. The loop waits a day from the end of its last upload. `finished` are all
snapshots ever written, `lost` the rows that a restore overwrote, each with whether
that restore was begun beside a file.

**CoverCache, Albums.** A body is the number of the upload that made it. Disk and
S3 accesses of `resolve_cover` run in threads: they interleave even with a handler
that never awaits, while the steps on the event loop need it `Free`. `OpenFile`
and `WriteFile` are apart, since a reader may come in between. A request on
the album loads the row, awaits a cover or not, drops the old object, invalidates,
puts the new one and commits; `Written` is the UPDATE that SQLAlchemy makes of the
columns that differ from what the request loaded. A creation is flushed before its
cover is awaited, so it holds SQLite's write lock meanwhile (`writer`).

**Stations.** The same shape for `apply_radio_cover`: check, fetch, drop, put,
commit, for the list of an account and for the catalog, which has neither limit
nor duplicate check. `ReplaceStations` is the synchronisation of the whole list,
which keeps covers by id. A request is `fresh` until a commit changes the list it
has read (`Overtaken`), and stays overtaken even if a later commit changes it back;
a commit of a request that is not fresh sets `staleCommit`, which the properties
except.

**Access.** One address and one client IP. No handler awaits, so within one
process a request is a step; across processes it ends where it has read what
it will write, and at each commit. `Issue` puts the code in the row, and in the
inbox if the mail arrives. `AfterFailure` is the record of an IP after a failure of
either ladder; `Rungs` are the two ladders.

**Playback.** A grant is a stream token or a presigned URL with its end; `late`
says that the URL was signed after the track froze, since `/token` awaits S3
between its check and its signature. `Interval` is `_parse_range_header`.

## Runs

| Run | Module, configuration | Checks | Distinct states |
|---|---|---|---|
| `ledger` | `TokenLedger.cfg` | TokenTypeOK, BalanceIsLedgerSum, AdDailyCap, StorageIsPaidFor | 492 952 |
| `slop` | `SoundSlop.cfg` | SlopTypeOK, RefundMatchesCharge, DeliveredIsPaid, EveryJobSettled; ImplementsContract, JobsEnd | 172 982 |
| `payments` | `MCPayments.cfg` | PayTypeOK, CreditsMatchPayments, AckedMeansCredited, PremiumReachesBuyer; PremiumIsKept, PaidIsCredited | 1.04 million |
| `imports` | `MCImportJobs.cfg` | ImportTypeOK, ImportedOnce, NoWorkInCompletedJob, CompletedIsDone; CompletedHidesNoFailure, CancelledIsFinal | 2.9 million |
| `imports_end` | `ImportJobsEnd.cfg` | ImportedOnce, AttachedToAlbum; JobEnds | 99 098 |
| `storage` | `MCStorage.cfg` | StorageTypeOK, TotalsAddUp, SyncedCopyIsCurrent, WalkMissesNothing, EveryTrackHasItsObject, OnlyLateTracksSurvive, RestartKeepsRows, SnapshotsKept; QuotaHonoured | 2.8 million |
| `services` | `MCServices.cfg` | ServicesTypeOK, CoverIsCurrent, StationsKept, AccessKept, PlaybackKept; AttachedTrackStays | 1.2 million |
| `slop_crash`, `payments_twice`, `imports_cancel`, `album_lww`, `restore_race` | one configuration each | one statement of a document or comment that the code breaks | |

After a `;` come properties of behaviours, before it invariants. What each
property says is the comment above it.

**Bounds.** Two ids are enough for a second account, for two accounts at once
and for an id that is reused. In `ledger` and `slop` an instant is a day and the
clocks agree, as only the daily limit depends on them; two days let it start anew.
In `payments` a day has two instants, and local time is one instant behind UTC:
a premium of two instants can be bought again before, at and after its end, and
ends while the local clock still has it run. Prices are 1 to keep
the ledger short; a limit of two adverts with three keys reaches, keeps and
exceeds it. A setback can come at every step, and since a restart leaves nothing in
memory, more of them repeat the same situation; payments has two, one for the poll
and one for the webhook that should heal it. Two generation jobs let the second
extend the track of the first; in `slop` one advert is worth two generations, so
that both jobs can be charged, and one redeemed gigabyte can take the tokens
away in between. Payments has one payment of either kind, as two payments meet
only in the premium of one row. Imports has two jobs of which one repeats a link
of the other, waves of one item and one slot, so that items queue both behind
the wave and behind the semaphore; it has a manual retry and a setback, but no
automatic retry and no album. MaxActive is 1 there, yet two jobs are active together
after a retry, which the code does not cap. Automatic retries, two as the code has at least,
are in `imports_end`, with a setback as well: one job of three links for an album, of
which the third repeats the first (so it is skipped at creation), in waves of two for
one slot, and no manual retry. All of these at once, and liveness of two jobs, exceed what TLC
does in minutes.

`storage` has two processes, three requests, a generated track, a setback, two
track ids and two values of created_at. With a limit of one track of size 1, two
uploads in flight exceed it together and one alone cannot; a page of one row
makes every walk a walk of several pages, and equal times let the id decide. The
two workers of start-up have two days of two instants each and a retention of one
day; the workers start in the middle of the first, after the first backup: so a
snapshot of a day expires while a later one of the same day does not.
They have two rows, and one stop, kill or loss of the disk in each behaviour.
`services` has two requests in progress in each component. Two loads, two uploads
of a cover and two changes of the album let each overtake the other; three calls
on stations reach the limit of one from both sides and replace a list; the
ladders of access have two rungs each, the next one two steps away for
`/reset-password` as in the code (3, 5, 10 against 3, 5, 7), and four calls; a
time is a unit of the shortest span, and the clock passes the longest. Playback
has an empty file and one of size 2, and a URL that lives longer than a token.
The processes are alike, so both runs use symmetry; none of them checks liveness.

**Deadlock** is checked in the ledger runs, where somebody can always ask for
something. In the imports the instance comes to a rest when every job has ended
and manual retries are used up, and in `storage`, `services` and `album_lww` when the
requests and setbacks that the bounds allow are used up, so these configurations turn
the check off.

**Fairness.** `SlopFairness`: asyncio resumes a task that can go on, and every
provider call, download and upload has a timeout, so a generation ends in success
or failure. `PayFairness`: a handler goes on after its commit, and YooKassa
repeats a notification until it is answered 200. Clients owe nothing: no
request, poll or retry is fair. `ImportFairness`: the external worker polls for
ever (`while True`), coroutines are resumed, downloads time out. Runners and
items are disabled again and again while another coroutine is inside a block or
the slots are taken; asyncio's ready queue and its Semaphore serve in order, so
strong fairness is what they give. Nothing is assumed of the stale timer.

**Exceptions in properties** name what the code really leaves open; TLC, or a proof
that would not go through, showed them.

* `RefundMatchesCharge`: the refund of a job whose account was deleted goes to the
  account registered under its id, if there is one.
* `EveryJobSettled`: a job whose own handler or task a kill or a failed commit ended.
* `CreditsMatchPayments`: the payment of a buyer who deleted his account is credited
  to the account registered under its id, if there is one; and the poll of an
  administrator who is the first to see the success takes the tokens. The tariff reaches its buyer nevertheless
  (`PremiumReachesBuyer`), by the clock that grants it; by the UTC clock that ends it,
  it may fall short by the offset of local time.
* `PremiumIsKept`: a premium without an end, which a tariff makes one that ends, and
  an administrator who switches it off.
* `ImportedOnce`: one more track for an item whose success was not recorded: a kill
  or an exception between the commit of its track and its own, or a cancel that
  overwrote it.
* `AttachedToAlbum`: a wave whose attach was skipped, swallowed or killed.
* `CompletedIsDone`: a retry committed while an external runner finishes, and any
  setback, after which an item may say "running" with nobody at work on it.
* `CancelledIsFinal`: an external runner that read the job before the cancel, and a
  runner that fails before it has left the job, which then says "failed".
* `JobEnds`: a setback of the API process that runs the imports itself, since only the
  external worker looks for jobs after one.
* `SyncedCopyIsCurrent`: a bump that is due, or that a kill or its own failed commit
  prevented until a later one, a generated track, and a revision that two processes
  made go back.
* `EveryTrackHasItsObject`: a clean-up in progress, which removes audio first, and one
  that a kill or a failed commit ended before its rows went.
* `OnlyLateTracksSurvive`: requests in flight.
* `RestartKeepsRows`: a restore that was begun without a file. Of that the docstring
  says more, and `restore_race` refutes it.
* `SnapshotsKept`: it speaks of the best snapshot of a day, up to the instant at which
  that snapshot expires. Smaller ones of its day go before it.
* `CoverIsCurrent`: loads that overlap an invalidation, and files read half written.
* `StationsKept`: a commit to a list that changed since its check, and a request that
  stopped between S3 and its commit.
* `AccessKept`: requests that overlap.
* `PlaybackKept`: an administrator's stream, and a URL signed after the freeze.

Each property of a passing run has a mutant, an operator next to the definition
it replaces, with a plausible slip in it (a dropped check, an answer before the
commit, a task not ended); TLC finds the property violated with it.

## Where the code does not do what it says

* `payments_twice`: `grant_product` is documented as idempotent by payment id
  (`api/payments.py:206-209`), but it extends the premium on every call (214):
  poll and webhook together, or two webhooks, give two months for one payment.
* `slop_crash`: `soundslop_worker.py:3-6` promises a refund with every failure;
  the failure is committed first (40), and a kill before the refund, or a refund
  whose commit raises, is never made good.
* `imports_cancel`: `context/change_log.md:115` has cancel clear the running
  items; a download that fails afterwards puts its item back to pending
  (`api/tracks.py:519`).
* `album_lww`: `api/albums.py:369` promises that a stale write does not overwrite
  a newer album; the timestamp is compared (375) before a cover is awaited, and
  what was committed meanwhile is overwritten (405).
* `restore_race`: `db_backup.py:180` never overwrites an existing database from S3 at
  the start; the check (186) and the rename at the end of the download are apart, and
  a host without a database creates one in between (`main.py:41`) and fills it.

Smaller disagreements that the models show or take into account, without a run of
their own:

* `context/system_map.md:269` has the webhook check a signature («Проверка подписи
  (security)»); the handler checks neither signature nor sender (the TODO at
  `api/payments.py:378`). The model has the handler as it is and states YooKassa's
  being the only sender as the assumption it is.
* `soundslop_worker.py:3-6` refunds the tokens that were spent; the account is looked up by
  its id (41), and an id that was deleted and registered again has the refund paid to
  somebody else. The webhook finds the buyer of a payment in the same way.
* Storage redeemed for tokens is promised "forever, without a subscription"
  (`api/tokens.py:80`); the lapse of a premium sets the limit to 1 GB
  (`auth_utils.py:103`), and a tariff sets it to its own size (`api/payments.py:189`).
* A tariff lasts 30 days (`llm_client_app_info.md:406-408`) from `datetime.now()`, and
  `datetime.utcnow()` ends it: on a host behind UTC it ends earlier by the offset.
* `albums.py:320-322` holds the write lock over a download of a cover. Whoever commits
  meanwhile can fail, and no handler of several commits repairs what that leaves.
* `main.py:39` and `db_backup.py:50` have the restore and the backup thread "only in
  one worker"; the lock is released as soon as the threads are started, so a worker
  that comes a moment later starts them again. `RestartKeepsRows` and `SnapshotsKept`
  hold of that too.
* `llm_client_app_info.md:105` describes lockouts after 3, 5 and 7 failed logins. A
  blocked IP is refused before it can fail, and the first failure after the block
  counts as one, so that logins one after another never get past 3; the higher rungs
  take failures of `/reset-password` or two at once (`IpRecordsKept`).
* `library_sync.py:1` has the revision grow with every change of the library;
  SoundSlop's insert (`soundslop_worker.py:131`) does not bump it.
* `llm_client_app_info.md:255` has tracks over the limit frozen; a generated track
  has `cumulative_bytes` 0 and is not, until another change rebuilds the totals.

## Proofs

Eight modules prove theorems for every value of the constants that the named
assumptions admit. In each the argument is an inductive invariant `XInv`: the initial
states satisfy it, every action keeps it (one lemma or one case per action, with a
step for each part the action can disturb), and the properties follow from it. An
action property is proved of a step from a state that satisfies it. What follows is
what each invariant adds to the properties, and why they are not inductive without.

**TokenLedgerProofs**: `TypeCorrect`, `BalanceCorrect`, `AdLimitKept`,
`StorageBought`.

* `LedgerInv` adds that no epoch lies beyond the end of the ledger
  (`EpochsInLedger`). The sum starts at the epoch of an account: were the epoch
  beyond the end, the next appended row would lie before it, and the balance would
  change without the sum. `LedgerCore` is the part that speaks of no continuation,
  and SoundSlop and Payments reuse it with `LedgerStepCore`.
* `AdInv` adds that no row is dated later than today (`RowsDated`): without it the
  limit could be used up on a day before the day begins.
* `StorageInv` counts the gigabytes that are charged and not yet added to the limit
  as handed out (`Promised` in `StorageCovered`), which makes the property hold
  between the two commits of a redeem; and `RedeemRefsInLedger` says that the
  reference of a redeem is new, so that its charge is not taken for a repeat.
* Sums are recursive functions, so what they return has to be proved:
  `TotalUnfolds`, `TotalAppend`, `TotalOfZeros`, and `GainsAppend`,
  `StoragePaymentsAppend` for the two sums the properties use. The induction schema
  of the library takes an operator as a parameter, which the provers cannot
  instantiate; `NatSetInduction` states induction for a set instead, derived from
  the well-foundedness of `<` on the naturals.

**SoundSlopProofs**: `SlopTypeCorrect`, `RefundsMatch`, `DeliveriesPaid`,
`JobsSettled`, `BalanceCorrectWithJobs`, `ContractImplemented`.

* `SlopInv` ties the status of a job to the rows of the ledger and to who holds it:
  `ChargeRows` and `RefundRows` say what a row of a job is, `JobsOK` which rows a job
  of each status has, `HandOK` what a handler that is between two commits can
  rely on. The last is where the code relies on asyncio: no await, so nobody else
  runs. Without `JobsOK` a job could be refunded that was never charged.
* The refinement maps a job to its deal (`DealOf`). Each step leaves all deals
  (`DealsSame`), moves one of them (`DealMoves`), or ends those of an account
  that is deleted (`DealsLost`); these are the contract's steps and its stutter.

**PaymentsProofs**: `PayTypeCorrect`, `CreditsMatch`, `AckedCredited`,
`TariffReachesBuyer`, `PremiumNeverShortened`, `BalanceCorrectWithPurchases`.

* `PayInv` adds what a suspended grant knows (`GrantOK`: a payment that succeeded,
  an account that exists, its buyer or one that polled; and before a webhook books the
  tokens of a tariff, the premium of the buyer lasts long enough), what a purchase in
  the ledger is (`PurchaseRowsOK`), that a buyer is there or has left
  (`BuyersKnown`), and that payments are settled in the past (`SettledInPast`), so
  that the days added from now reach beyond those counted from the payment. That a payment which succeeded stays so, whatever YooKassa
  does next (`KassaGrows`), is what lets a grant act on what it read.

**ImportJobsProofs**: `ImportTypeCorrect`, `LinkImportedOnce`, `CompletedIsIdle`,
`CompletedDone`, `AlbumFilled`, `FailuresNotHidden`, `CancelIsFinal`; both deployments.

* A coroutine works on an item of its runner's open wave (`CoroutinesInWave`),
  and a runner at each stage knows something of its job (`JobsOfRunners`): these
  two bring together what the item, the wave and the job say of each other.
* `TracksStored` has an item with one track at most, which is recorded or about to be,
  unless its success was undone; `RetriesLeft`, `AbsentItems`, `CallOfJob` and
  `NothingPending` are what it and the completion of a job need of items, of a cancel
  in progress and of a retry. `RunningHasCoroutine` is the part that a setback ends,
  `TracksOfAlbum` follows a track from its wave into the album.

**LibraryProofs**: `ObjectsBehindTracks`, `WalksAreComplete`,
`DeletedAccountsAreEmpty`, `CopiesAreCurrent`, `TotalsCorrect`, `QuotaKept`,
`LibTypeCorrect`, `StorageImplementsBoth`, `StorageTypeCorrect`.

* Ids in flight belong to nobody else (`FreshTracks`, `PurgedTracks`): otherwise a
  purge could take the object of a row, and an insert could slip behind the cursor
  of a walk. `ErasersKnow` carries the rows the ORM loaded to the moment they go.
* `RevisionsGrow` keeps a client from being ahead of the counter; `CopyCurrent` and
  `WalkCurrent` hold for the copy and for the walk in progress that becomes the
  next copy, with `Excused` for a change whose bump is still to come.
* `PageMovesCursor` and `PageIsNewest` say that a page is the next stretch of the
  order by (created_at, id), by `FiniteLeast` (a finite set has a least element
  under a total order).
* The section Sums is about `MapThenSumSet`, with which the model adds up sizes. It
  folds along a function that is recursive over sets and chooses the next element;
  `SumsExist` shows, by well-foundedness of the strict subsets of a finite set, that
  there is such a function, and from it follow what a sum over a part (`SumPart`) and
  over other indices (`SumEmbeds`) is.
* `Tabled`: sizes, times and totals are numbers, and the totals add up as long as the
  account lives. The property speaks of rows that have a total (not 0), the code adds
  up all that it finds: the two agree because a rebuild gives 0 only to a row up to
  which all files are empty (`RebuiltAddUp`).
* `QuotaInv`: what a request counted stays true of the rows it counted, since sizes do
  not change, an id is drawn once and none that was counted is being stored; and the
  file of the request fits beside them. So if the rows exceed the limit at the
  insert, one of them was not counted.
* `LibBounds` counts the announcements and edits still due with those made, against
  the requests there were. Without the ones due, a second step of the same request
  could take `revision` beyond its bound.

**StartupProofs**: `StartupTypeCorrect`, `RestartsKeepRows`, `BackupsAreKept`.

* `RestoreKnows`: a restore that began beside a file will find it.
* `BestIsKept` is stronger than the property: the best snapshot of a day
  (largest, then newest) is in S3 until it expires, and no prune in progress has it
  among its victims (`Spared`). It may become the best only while nothing better
  expires, as what has expired stays so (`ExpiryIsFinal`). A prune deletes what it listed before, so a property of S3 alone says
  nothing of the next deletion; `VictimsAreOld` covers what is written meanwhile.

**ServicesProofs**: `AccessIsKept`, `StationsAreKept`, `CoversAreCurrent`,
`AttachedTracksStay`, `AccessTypeCorrect`, `StationsTypeCorrect`,
`AlbumsTypeCorrect`, `ServicesImplementAll`, `ServicesTypeCorrect`.

* `AccessInv`: `CodesOnce` has the row hold the last code, not used yet, or none
  after that code was used; `FailuresCalm` speaks also of the record that a request
  is about to write, `WindowCounted` of an account that is inserted and not counted
  yet.
* `StationsInv`: `CoversKept` takes a request that has put a cover and will set its
  path for a path that is set, since its commit makes it one; `DeskOK` says what
  each request holds at each step.
* `AlbumsInv`: a creation holds the write lock and there is no album
  (`AlbumsShape`), and loads in progress hold the cover of S3 too (`CacheCurrent`),
  as what they hold is what memory and disk get next.
* The types need what is in flight as well. `AccessFits` counts a failure that is about
  to be written and a registration that is not counted yet with those in the rows,
  since a record written from an old read may not count more than there were
  requests. `StationsTyped` has every request carry ids that uuid4 made and URLs
  that were given, `CacheTyped` every load a body that was uploaded, and `RowTyped` the
  write lock with a request that is in progress.

The two instances with a `focus` are behaviours of each of their components
(`StorageImplementsBoth`, `ServicesImplementAll`): every step is a step of one and
leaves the others as they are. So each theorem about a component holds in the
specification the runs check, and the types of the instances follow.

**PlaybackProofs**: `IntervalInFile`, `PlaybackTypeCorrect`, `PlaybackIsKept`.

* `IntervalInFile`: what `_parse_range_header` returns lies inside the file and is
  not empty. The exception is a file of size 0, which `/upload` refuses and the
  imports do not: there both ends are -1.
* `PlaybackInv` adds `GrantsAreShort`: no grant outlives the present moment by more
  than its life, and while the track is frozen no grant that was not signed late
  outlives the moment of the freeze by more. The second part is what the property
  needs, because `/play` looks at nothing but the token's end; the first part makes
  the second true at the step that freezes.

**Assumptions.** Numbers are naturals, prices, rewards, pages and slots are not
zero, as in the code's settings; what stands for "no value" is none of the values
(`Missing`, `Nothing`, `None`, `NoUrl`: NULL and an absent file in the code).
Bounds on counters (`MaxAccessCalls`, `MaxTime`, `MaxWrites` and the like) are
naturals. `StartupAssumption` and `CacheAssumption` leave room for what may be there
at the start, one row in the backup and one uploaded cover (`MaxRows` and `MaxUploads`
are not zero). `AccessAssumption` has the rungs of each ladder rise
and the first stand above one failure (3, 5, 10 and 3, 5, 7 in `api/auth.py`), and
`MAX_REGISTRATIONS_PER_IP` above zero. No assumption bounds the number of accounts,
processes, jobs, calls, kills or failed commits; the items of the imports are finitely many.

**What proving told about the models.** `StationsKept` was false with four calls,
which the runs do not reach: a commit was held to be stale when the list differed
from what it had read, and a list can change and change back meanwhile, with its
cover gone. The model now has `fresh`. `CoverIsCurrent` excepted the moment at which
a request is about to invalidate; the proof did not use it, and it is gone. Two assumptions
were missing that the types need, that bounds are numbers and that an uploaded cover
may exist at the start; and the set of edits of albums was written without
parentheses, which TLC and TLAPS read differently.

**What stays with TLC.** Liveness (`JobsEnd`, `PaidIsCredited`, `JobEnds`), since
fairness and ENABLED are out of this prover's reach. Every other property of the
passing runs is the statement of a theorem. The properties of the violation runs are
refuted, not proved.

## What is not modelled

* **Several API processes for the ledger.** With `--workers 4` the balance and the
  daily limit can lose updates: the code promises nothing there, so there would be
  no property to state. The models have the one worker the code assumes.
* **Input checks** that refuse a request before it reads state (prompt, duration,
  region, empty keys), and everything that only reads.
* **Notices that YooKassa did not send**: the webhook would believe them; that none
  arrive is the assumption stated above. With it, a grant for an unknown product is not
  reached, as no payment carries one.
* **The development mock** of payments.
* **In imports**, deletion of the account or of an imported track while a job runs,
  other than as a reason for a skipped attach.
* **Zero prices**: `SOUNDSLOP_COST_PER_TRACK=0` makes the charge raise ValueError
  and leaves a queued job; the assumption excludes it.
* **Covers of tracks** in Library: their mechanism is the one of albums, and the
  properties of the library do not depend on them.
* **Administrators**: `update_user`, but for the switch of `is_premium`, and the audit
  log. A handler there is one step up
  to its commit, and nobody can demote, restrict or delete himself through it, so
  the acting administrator remains whatever `_count_active_admins` says; a model
  would have no property that the count alone upholds. `DELETE /users/me` does not
  count, as reading it shows.
* **Copies torn by SQLite** while `copy2` reads them, two uploads of the database in
  the same second, which write one key, and collisions of random ids and codes.
* **The provider of SoundSlop, YouTube conversion, settings, logging, scripts**: I/O
  and single rows without state that several steps share. They are marked
  `not_modelled` in `PROJECT.json` with their reasons.

## Plan

Done: all components with state that several steps share; a theorem for every
invariant and every action property of the passing runs, and the refinement of
GenerationContract. What would come next is the composition of ImportJobs and
SoundSlop with Library: the tracks they store are the library's, with its quota and
revision, if an instance stays small enough to check.
