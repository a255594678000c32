# Mailsieve in TLA+

Mailsieve validates e-mail addresses by asking mailboxlayer's demo endpoint, keeps every distinct
answer for ever in a database, and reuses an answer until it is older than a TTL. This directory
holds TLA+ models of the parts of `src/app` in which order, failure and time matter, the TLC runs
that check them on small instances, and TLAPS proofs of what matters most. Paths below are
relative to the repository (`src/` in `PROJECT.json`); line numbers are those of the modelled
commit.

To check everything, in this directory:

    tlc -config ValidationConcurrent.cfg MCValidation    # each run of PROJECT.json, likewise
    for m in Validation ValidationTime Politeness Upstream Access Backup RestoredCache HistoryPage
    do tlapm ${m}Proofs.tla; done

## 1. The system

| part | code | state | operations |
| --- | --- | --- | --- |
| validation service | `services/validation_service.py` | TTL in memory | `validate`, `set_ttl_days` |
| repository, sessions | `db/repository.py`, `db/session.py`, `db/models.py` | the tables `validation_results`, `verification_events`, `app_settings` | `latest`, `insert_if_changed`, `record_event`, paging, settings rows; commit or rollback |
| result cache | `cache/redis_cache.py` | Redis keys with an expiry | `get`, `set`; every failure of Redis is a miss or a write that did not happen |
| provider | `providers/mailboxlayer/provider.py` | none of its own | `validate` (with one retry after an answer that looks rejected), `health` |
| request secret | `…/secret.py` | value, time of its fetch, lock, `ok` | `get`, `force_refresh` |
| proxy pool | `…/proxies.py` | listed proxies, bad ones, time of the list | `refresh`, `ensure_fresh`, `pick`, `mark_bad`, `count` |
| client | `…/client.py` | locals of `get_json` | attempts through a proxy or directly, back-off |
| gate | `…/politeness.py` | semaphore, pacing lock, time of the last start | enter, leave, cancellation at each await |
| answer mapping | `…/mapping.py`, `schemas/validation.py` | – | verdict, response schema |
| backup | `services/backup_service.py`, `api/routes_admin.py` | snapshot files | `make_backup`, `restore` |
| settings, token | `api/routes_settings.py`, `main.py`, `scripts/set_token.py` | TTL and token hash, in memory and in a table | update, rotate, remove, load at start |
| gates, limiter | `api/deps.py`, `auth/*`, `api/ratelimit.py` | buckets per key | `require_api`, `require_admin`, `check` |
| history | `services/history_service.py`, `api/routes_history.py` | – | list, revisions, diff |
| web interface | `frontend/src` | what the pages show | fetch and show |

Everything runs in one process on one asyncio loop. A handler is interrupted only at an `await`:
a SQL statement, a Redis command, a request to the outside, a lock. The handlers share the
database, Redis, the provider's objects and the TTL in memory. The chain is

    route -> ValidationService -> Cache, repository -> MailboxlayerProvider
                                                        -> ProxyPool, SecretProvider
                                                        -> UpstreamClient -> Politeness -> network

### What is hard

* **Overlapping checks of one address.** `insert_if_changed` reads and inserts in two statements,
  and the provider is awaited inside the transaction, for seconds. `created_at`, by which the newest
  row is found, is set before the INSERT has to wait for anybody.
* **Isolation differs by backend.** SQLite has one writer at a time and gives a rolled back id out
  again; MySQL re-reads the snapshot of its first SELECT; PostgreSQL reads what is committed.
* **Two copies of an answer.** Redis is written after the commit of a check, but inside the
  transaction of a database hit, and always for a whole TTL.
* **Partial failure.** Any statement can raise, a commit can raise and have taken effect, Redis can
  fail either way, the provider can fail, the process can die between the commit and the cache.
* **Locks held across awaits.** The pacing lock during the pause, the secret's lock during the
  fetch, SQLite's write lock during `cache.set`.
* **Secrets that change.** The one retry after a rejection must not reuse a cached secret; what a
  rejection looks like is a guess about the shape of the answer.
* **State both in memory and in a table** (TTL, token), written in either order, by calls that
  overlap, by a script in another process, by a restore, and lost from memory at a restart.
* **A restore beside checks.** It empties and refills the tables that checks read and write in
  several statements, after a snapshot taken in a transaction of its own; a dump is several
  SELECTs. What waits for what, and which ids are free afterwards, differs by backend.
* **Several SELECTs over a growing table.** A history page, its total and its revision counts are
  read one after the other, and so are the pages a visitor goes through.
* **Answers out of order.** The history page sends a request for every change of a control and
  shows whatever arrives last.
* **Boundaries of a fixed window.** The rate limiter forgets a whole window at once.

### What makes each part correct

* Store: append-only; a row and the event of its check appear together; ids are unique; events
  refer to rows; history has no repeats except by overlap.
* Cache: holds nothing the database does not; an answer has a bounded age; the provider is not
  asked twice within a TTL; after a restore, what has lost its row goes within a TTL.
* Gate: permits are conserved under cancellation, starts are spaced, nobody starves.
* Secret, client: a refreshed secret is a new one; waiting callers share a fetch; a direct request
  is tried before giving up; every call ends.
* Backup: an archive is a state of the tables, as far as the backend gives one; what a restore
  deletes has been saved; what it leaves is the archive; no event loses its row; no id is given out
  that is in use; nobody waits in a circle, two cases apart that the database resolves.
* Settings, token: a restart changes nothing; only a token that was committed opens the API.
* Limiter: no interval as long as a window sees more than two limits; a refusal has a full limit
  behind it.
* History: what settles on the screen is what was asked for; paging forward skips nothing; the
  numbers beside a page fit it; a revision has a diff.

`PROJECT.json` lists the hazards, each at its line, with the properties that watch it.

## 2. The modules

| module | models | with |
| --- | --- | --- |
| `Validation` | service, repository, transactions, Redis, time, crashes | – |
| `HistoryLog` | the abstract append-only record | – |
| `MCValidation` | instances of `Validation` for TLC | `Validation`, `HistoryLog` |
| `ValidationProofs` | theorems about `Validation` | `Validation`, `HistoryLog`, TLAPS |
| `ValidationTimeProofs` | those about ages, overlap, and checks one after the other | `ValidationProofs` |
| `Gate` | the abstract gate: a cap, and spaced starts | – |
| `Politeness` | the gate | `Gate` |
| `PolitenessProofs` | theorems about the gate | `Politeness`, TLAPS |
| `SecretProvider` | the secret's cache, lock and fetch | – |
| `Upstream` | provider, client, proxy pool | `SecretProvider` |
| `UpstreamProofs` | theorems about both | `Upstream`, TLAPS |
| `Backup` | dump, archive, snapshot file, restore, beside checks, on three backends | – |
| `MCBackup` | archives from elsewhere, symmetry | `Backup` |
| `BackupProofs` | theorems about `Backup` | `Backup`, TLAPS |
| `RestoredCache` | Redis beside restores | – |
| `MCRestoredCache` | an id that is used twice | `RestoredCache` |
| `RestoredCacheProofs` | theorems about it | `RestoredCache`, TLAPS |
| `RateLimiter` | the fixed window of one key | – |
| `Access` | TTL and token in memory and table, administration calls, restarts, the gates | `RateLimiter` |
| `MCAccess` | configurations, symmetry, the constraint | `Access` |
| `AccessProofs` | theorems about `Access` and the limiter | `Access`, TLAPS |
| `Revisions` | verdict and schema of an answer, result hash, diff | – |
| `HistoryPage` | the listing on the server and the page in the browser | `Revisions` |
| `MCHistoryPage` | raw answers, one part at a time | `HistoryPage` |
| `HistoryPageProofs` | theorems about both | `HistoryPage`, TLAPS |

The compositions are these: `Upstream` takes the steps of `SecretProvider`, `Access` those of
`RateLimiter` (a restart empties its buckets), `HistoryPage` stands beside `Revisions` (the page
lists addresses, a revision is what a row links to). `Backup` reduces a check to the statements
that touch the tables; `Validation` has everything else of it, and `RestoredCache` has what the two
do to Redis together.

### Validation

Each member of `Requests` is one call of `validate()`. `pc[r]` names the await it has reached:

    idle -> get -> latest -> hitEvent -> hitCache -> hitCommit -> done          (source "db")
              \-> done (source "cache")
                    latest -> provider -> compare -> insert -> event -> commit -> set -> done
                                                \-----------> event              (same hash)

The locals are `input`, `force`, `row` (`latest_row`, then `row`), `raw`, and `dirty`, which says
what the open transaction has written and not committed. Another request sees `rows` and `events`
only. `Commit` publishes both at once, `StatementFails` is the rollback of `session_scope`,
`CommitFails` a commit that raises (refused, or in effect with its confirmation lost), `Crash`
loses all requests and keeps tables and Redis. `Changed` builds the new row, with its `created_at`,
and `InsertRow` is the statement, which may have to wait in between and gives it its id. `Respond`
puts the caller's spelling into whatever is answered, as `_response` does. `MayWrite`, `RereadsSnapshot` and `ReturnIds` are the
three differences between the backends. A result is reduced to what upstream says (`outcome`), the
caller's spelling (`email_raw`, which *is* part of the hash) and `checked_at` (which is not).
`Malformed` outcomes are those `ValidationResponse` refuses: they are stored and cached, and the
request fails after that, as in the code. `CacheSet` may lose its write and `CacheMiss` may miss a
present entry when `"redis"` is among the `Faults`.

Not modelled: the clock running backwards, the limit of the connection pool, two processes on one
database. `MaxLag` bounds how many clock units one request lasts.

### HistoryLog and the refinement

`HistoryLog` knows only `rows` and `events`: a check is recorded in one step and at most once,
either against a revision that is there or with a new one under a fresh id; nothing is ever changed.
`Validation` implements it with the identity on `rows` and `events`: `ImplementsHistoryLog`, which
TLC checks and theorem `Implements` proves. (A new revision is quantified over `rows' \ rows`, which
TLC can enumerate while `Rows` is infinite.) It covers what is easily lost in the detailed model: that the two
INSERTs of a check are atomic whatever fails.

### Politeness

`permits` is the semaphore, `pacer` the holder of the pacing lock across the sleep, `since` the time
since `_last` (as far as `MinInterval`), `sleep[c]` what is left of a caller's pause. Keeping
differences of times instead of times makes the state finite without a bound on the clock. `Cancel`
is a `CancelledError` at any of the three awaits. A sleep may last longer than asked (`WakeUp` need
not follow at once).

`Gate` is what the docstring of `politeness.py` promises, without the semaphore and the lock: who is
inside, and how long ago the last one started. `Promise` instantiates it with `inside <- Inside`;
`ImplementsGate` says that every step of `Politeness` is one of the gate's or leaves it alone. A
caller takes its permit, its turn and its pause in steps of their own, so most steps leave it alone;
the one by which a caller gets in must be a `Start` that the gate allows.

### SecretProvider and Upstream

A secret is the number of the rotation that brought it to the homepage (`Rotate`), so that "older"
has a meaning. `young` stands for the comparison of the fetch time with the TTL, `Expire` for its
end. `SecretProvider` has no next-state relation of its own: its steps are taken by the callers of
`Upstream`, whose `pc` follows `provider.validate` and `get_json`:

    done -> ensure -> secret -> pick -> gate -> sent -> done
                         ^        ^ \-> refill -/ |
                         |        \--- backoff <--/
                         \---- (rejected, once) --/

`task[c]` holds the locals: loop counter, `go_direct`, the proxy, the secret the request was hashed
with, whether this is the retry. `AttemptFails` is any of the exceptions `get_json` catches (an
error, a timeout, a body that is not a JSON object). `_looks_bad_secret` guesses from the shape of
the body (`success` false, an `error`, no `format_valid`), and nothing says that only a wrong secret
has that shape: any answer may look good (`Accepted`) or bad, and then it is retried once
(`Rejected`) or, after the retry or without `refresh_on_reject`, stored as it is (`RejectedAgain`).
`asked` keeps, as history, the secret the homepage showed at the rejection. `fallback` is chosen in
`Init` and does not change, so one run covers both configurations. `refresh_on_reject` is a
constant, at its default, TRUE, in the run; the theorems speak of both. Steps that the code takes without an await in between (a fresh secret and the choice
of a proxy, say) may be separate steps here: the model has more interleavings than the program,
never fewer. From the gate only the cap on attempts in flight is kept.

### Backup

Checks, backups and restores are processes with a `pc`:

    check     idle -> write (row, unless one was found; then event) -> commit -> done
    backup    idle -> rows -> events -> done
    restore   idle -> rows -> events -> persist -> delete -> deleteRows -> fill -> apply -> done

`rows` and `events` are the SELECTs of `_dump`, `persist` writes the pre-restore file, and
`delete`, `deleteRows`, `fill`, `apply` are the one transaction that deletes the events, then the
rows, inserts the archive and commits. The two DELETEs are two steps (`DeleteEvents`, `DeleteRows`),
each with its own `MayDelete`: a check may commit in between, and then the foreign key refuses the
second one, on PostgreSQL; or it may hold a row there, and wait for the restore with its event, on
MySQL. The two INSERTs (`Fill`) are one step: when it comes to them a check that holds an id waits
for a restore only on PostgreSQL and after an import, where `NobodyIsStuck` promises nothing.
Restores follow one another (`MayDelete`): the second DELETE waits for what the first has deleted.
Where the tables are empty there is nothing to wait for, and two restores meet in their INSERTs
instead; the model leaves that out. `failed` is where an exception leads to; `collided` is the same for an INSERT that meets a
primary key in use. `Fail` may strike at every point, a cancellation and the end of the process
included.

A row is its id and the check that found it, so that an id that is another row after a restore can
be told. Archives and files hold `data`, whether they would pass the tests of `_read_archive`
(`sound`: a refused archive changes nothing), and, as history, what was committed while they were
read. A file is named by the second it was written in, which is why there is a clock.

What the databases do is not in the repository and is summed up in a few operators: `NextFree` and
`AfterExplicit` (SQLite takes the largest id plus one, MySQL's counter follows an explicit id, a
PostgreSQL sequence does not), `MayInsert` and `MayDelete` (SQLite has one writer; MySQL's DELETE
without WHERE locks the whole table; PostgreSQL waits for a row that an uncommitted event refers
to), `Enforced` (SQLite is used without `PRAGMA foreign_keys`), `Contended` (two transactions and
one primary key), and in `DumpRows` the snapshot a MySQL transaction reads from its first SELECT
on. `backend` is chosen in `Init`, so one run covers all three.

The third table of an archive, `app_settings`, is in `Access`, with the reload of the token that
follows a restore.

### RestoredCache

`restore` replaces the rows and leaves Redis alone. `Backup` has no Redis and `Validation` no
restore; both together are too large for TLC. `RestoredCache` keeps of a check, for one address,
the steps that read or write one of the two copies of an answer, and of a restore the DELETE of the
rows and its commit. The two paths of `validate()` differ in what matters here: a database hit writes Redis
inside the transaction that has inserted its event (`hitEvent`, `hitCache`, `hitCommit`), a check
after its commit (`event`, `commit`, `set`).

A row is the request that found it, or a member of `Elsewhere`. Which row is the newest one, and
whether it is fresh, is left open: `LatestFresh` may take any row, which allows more than the code
does. So does `MayInsert`, which keeps two checks apart on no backend and a check apart from a
restore on SQLite and MySQL. `MayRefer` is the foreign key of an event, which SQLite does not
enforce here. It asks for the id of a row only, so `Id` gives each result its primary key, and a
result from elsewhere may have the one a request was given: after a restore the foreign key is
content with another row under that id. Ids in use are `Free` neither to a check nor to a restore
where they matter. `MayDelete` is what a restore waits for: on PostgreSQL, only the transactions
whose event refers to a row that is to go.

### Access and RateLimiter

`table` and `memory` are the two copies of TTL and token hash. A token stands for its hash. An
administration call is a `task` that goes through

    TTL       set (memory) -> find -> write -> commit
    rotate    find -> write -> commit -> assign (memory)
    remove    the same
    restore   write -> commit -> reload -> assign

`write` is the flush, from which on writers of one row exclude each other; an INSERT of a row that
is there by now, or an UPDATE of one that is gone, ends the call (`Conflict`). SQLite, which
excludes all writers, allows fewer behaviours. A commit that fails may or may not have happened.
`Script` is `scripts/set_token.py`, another process, whose short transaction is one step.
`Restart` loses all calls and buckets and runs `_load_persisted`. The gates are predicates of the
configuration, the memory and what a request carries (`RequireApi`, `RequireAdmin`,
`AdminExposureOk`); `Coherent` is the rule of the configuration about them.

Three variables are history: `stored` (tokens that were committed), `alone[c]` (no other call wrote
the same rows while `c` ran), `clean[k]` (nothing has happened that may part the two copies of `k`
since the last start or the last call that brought them together).

`RateLimiter` has one key, as buckets do not meet. Buckets are never removed in the code; that
costs memory and nothing else.

### HistoryPage and Revisions

The server answers a request in the order of its statements: the rows of the page, then the total
and the revision counts (two SELECTs that nothing compares with each other: one step). The table
grows between any two of them, as it may on PostgreSQL. Of the six sort columns one with ties
(`email`) and one without (`created_at`, in the order of ids) stand for all. A search is for one
address or for none; the `LIKE` with its wildcards is a filter like any other.

The page is its controls (limit, offset, sort, order, the debounced search), the search box, the
requests on their way and what is shown. `Control` is the effect that follows each change of a
control; the effect does not cancel the one before, so `Arrive` and `Fail` take any pending
request. `newest` and `walk` are history: which of the arrived pages was asked for last, and what a
visitor has been shown who does nothing but wait for a page and press "next".

In `Revisions` a JSON value is its text. `ResultHash` compares texts, as `json.dumps` does, `Diff`
compares Python values, for which `1`, `1.0` and `true` are one. What the hash leaves out
(`VolatileFields`) and what the diff leaves out (`Volatile`) are two lists in two files, and two
definitions here. `cached` and `source` are in both, but constant among results that are stored.

## 3. The runs

| run | configuration | shows |
| --- | --- | --- |
| `validation_concurrent` | 3 requests, 2 at a time, SQLite, requests take time, everything can fail | `TypeOK`, `RecordedIffNotCached`, `CacheBackedByRow`, `StepsBackOnlyByOverlap`, `RepeatsNeedOverlap`, `AnswersWithinTwoTtls`, `ImplementsHistoryLog` |
| `validation_sequential` | 4 requests one by one, two spellings, MySQL, reliable Redis | `NoRepeatedRevision`, `AnswersAreLatest`, `ReusedForTtl` |
| `validation_liveness` | 3 requests at once on SQLite, failures, crashes, a TTL that changes | `EveryRequestEnds` |
| `validation_repeated_row` | 2 overlapping requests, PostgreSQL | `NoRepeatedRevision` does **not** hold |
| `validation_ttl_twice` | 3 requests, Redis loses an entry | `AnswersWithinTtl` does **not** hold |
| `validation_unrecorded_hit` | 2 requests one after the other, nothing fails | `EveryCheckIsRecorded` does **not** hold |
| `politeness` | 4 callers, 2 permits, interval 3 | `PermitsConserved`, `ImplementsGate`, `CallersGetIn` |
| `upstream` | 2 callers, 1 proxy, 2 attempts, 1 rotation, 1 in flight, with and without fallback | `TypeOK`, `FetchesCollapse`, `RetryUsesNewSecret`, `GivesUpDirect`, `CallsAreBounded`, `EveryCallEnds` |
| `backup` | 2 checks, 2 backups or restores, archives from elsewhere, each backend, failures | `TypeOK`, `ArchivesAreConsistent`, `CollidesOnlyAfterImport`, `TornOnlyByRestore`, `NobodyIsStuck`, `RemovedIsSaved`, `RestoreIsExact` |
| `restored_cache` | 2 requests, a result from elsewhere, each backend, restores and backups, TTLs 1 and 2 | `OrphansExpire`, `HitsAreStored` |
| `access` | 2 administration calls at a time, 2 tokens, 2 TTLs, the script, restarts, failures; limit 2, window 3 | `TypeOK`, `MemoryFollowsTable`, `OnlyStoredTokensOpenTheApi`, `NeverTwiceTheLimit`, `RefusedOnlyWhenSpent` |
| `history` | 3 rows of 2 addresses, pages of 1 or 2, 3 requests; 13 raw answers, 2 spellings, 2 revisions | `TypeOK`, `SettledPageIsAskedFor`, `WalkShowsEverything`, `PageFitsCounts`, `HashAgreesWithDiff` |

### Why the bounds are enough

* Three requests are the least with which two overlapping ones meet a row that a third has left, or
  a rolled back id meets both its former owner's event and a later insert. One address is enough
  for TLC: addresses share only the ids and the write lock, and the theorems speak of any number.
* `validation_sequential` needs four: three revisions A, B, A, and one more check of the last. Its
  TTL is 2 and its clock reaches 3, so an entry is met young, at its limit and expired.
* `validation_concurrent` lets the clock reach 5 with a TTL of 2: the greatest age
  `AnswersWithinTwoTtls` allows, `(2-1) + (2-1) + 2*MaxLag = 4`, is reached, so the bound cannot be
  lowered. A TTL that changes meanwhile is in the theorem, and in `validation_liveness` without a
  clock: in the property a smaller one only makes answers younger.
* `upstream`: one rotation is enough for a cached secret that is older than the homepage's, and a
  rejection does not need one. Two attempts are the least with which a fallback can follow a proxy;
  two callers hold the lock and wait for it.
* `politeness` has more callers than permits, and enough of them to have one in each of the states
  waiting for a permit, waiting for the lock, sleeping, inside.

* `backup`: two jobs are a restore and what disturbs it (another restore, or the backup it
  restores); two checks are one whose row a restore takes away and one that gets its id. Two archives
  come from elsewhere, so that ids appear which no sequence has given out, and one is damaged; two
  sound ones are needed for a restore to bring an id that a check has just been given, with which
  PostgreSQL's circle of `NobodyIsStuck` begins; MySQL's needs one check and one restore.
  Seconds 0 and 1 let two restores share a second and not share it.
* `restored_cache`: two requests are one whose answer a restore takes away and one that reads it
  from Redis later, or stores another. A result from elsewhere is one no request has found, under an
  id that one of them is given (`SharedId`). With a
  clock up to 3, a TTL of 2 and `MaxLag` 1, an entry that a request with the row in hand writes one
  unit after a restore at 0 expires at 3: the bound of `OrphansExpire` is reached, and with one unit
  less TLC refutes it.
* `access`: two calls that overlap, and a third that starts when one of them has ended, for `Calls`
  are slots that are used again. Two tokens are one that is replaced and the one that replaces it.
  `DefaultTtl` is none of the `Ttls`, so that a TTL that is not stored shows. Clock 7 is two windows
  of 3 and the start of the next, 6 hits are two limits and two refusals.
* `history`: three rows over pages of one or two are full, partial and empty pages, with a row that
  comes between two of them in any order of sorting. Three requests are the first page and two
  changes whose answers overtake each other. Two revisions are a first one and one that is compared
  with it; the raw answers differ in one signal each, and three of them only in the text of a
  number.

Two runs keep apart what does not meet, so as not to multiply it. `OneAtATime` (a CONSTRAINT of
`access`) explores the limiter while the administration is at its start, and the reverse: they share
no variable and meet in `Restart` only. `SpecOneAtATime` does the same for the page and the
revisions, which share nothing. The theorems are about the whole of `Spec`.

`CHECK_DEADLOCK FALSE` is given where a finite set of things to do runs out: the requests of
`Validation`, the checks and jobs of `Backup`, the requests and the clock of `RestoredCache`, the
requests of the page. The gate, `Upstream` and
`Access` run for ever and are checked for deadlock. In `Backup`, where locks are the point,
`NobodyIsStuck` says it instead: as long as a check or a job is under way, one of them has all it
waits for (`Ready`), but for two circles that it names.

Symmetry is used where the requests (and outcomes or spellings) are interchangeable and the
properties are safety properties; the liveness runs do without it.

### Fairness

* `Validation`: weak fairness of each request's own steps. Statements, Redis commands and upstream
  attempts have timeouts after which they return or raise. Failures, crashes and the clock are not
  fair.
* `Politeness`: `asyncio.Semaphore` and `asyncio.Lock` serve waiters in order of arrival, hence
  strong fairness of taking them; an attempt in flight is bounded by `wait_for`, a pause by the
  clock, hence weak fairness of `Leave`, `WakeUp` and `Tick`.
* `Upstream`: strong fairness of the steps of each caller taken together, for the same two reasons.
  Nothing in the environment (expiry, rotation, ageing of the list) is fair.
* `Backup`, `RestoredCache`, `Access`, `HistoryPage`: none; what is stated of them is safety.

### Where code and documentation disagree

1. `validation_repeated_row`: the README and `repository.py` promise a new row only when the result
   changed. Two overlapping checks that get the same answer store it twice. `RepeatsNeedOverlap`
   shows that overlap is the only cause: a check that starts after the earlier one is over does not
   repeat it.
2. `validation_ttl_twice`: `validation.ttl_days` is documented as how long a stored result is reused.
   A database hit re-arms Redis for a whole TTL. `AnswersWithinTwoTtls` bounds what follows.
3. `validation_unrecorded_hit`: "every check is also recorded" (README, features; `models.py:4`), but
   one that Redis answers is not. The README says so in two other places (step 5 of the pipeline, and
   where it lists the tables), and `RecordedIffNotCached` shows that the code does exactly that.

One more has no run. Listing proxies is meant to be best effort (`proxies.py:87`), but only `httpx`
errors are suppressed: a body that is not JSON ends the validation with an untranslated `ValueError`,
also where a direct request was possible. It is the action `EnsureGarbled` of `Upstream`.

### What the conditions of a property say

Some properties hold only under a condition that is itself a fact about the code. TLC refutes each
of these without its condition:

* `ArchivesAreConsistent`: an archive made while checks commit can hold an event without its row,
  except on MySQL. PostgreSQL's foreign keys refuse such an archive when it is restored (`Fill` fails
  and the tables stay as they were); SQLite takes it, and its events lack their rows.
* `RemovedIsSaved`: what commits between the snapshot and the DELETE is in no file, and two restores
  within a second leave one file: the second snapshot takes the place of the first.
* `CollidesOnlyAfterImport`: after the restore of an archive from another database PostgreSQL's
  sequences still give out ids that are in use; each INSERT that meets one fails and moves the
  sequence on by one.
* `NobodyIsStuck`: on MySQL a restore that has deleted, and so locked, the events waits in its next
  DELETE for the row a check has inserted, while that check waits to insert its event. This takes no
  import; InnoDB ends one of the two (`Fail`), so that a check fails or a restore does, as a whole. On
  PostgreSQL, after an import, a check that has inserted its row may be given, for its
  event, an id that a second restore has deleted and not committed, while that restore is to insert
  the id of the check's row. PostgreSQL's deadlock detection then ends one of them (`Fail`).
* `TornOnlyByRestore`: on SQLite a check that has found a row before a restore records its event
  after it, with an id that is gone or is another row.
* `OrphansExpire`: a check that has its row in hand when a restore replaces it still writes it to
  Redis, as late as it ends, hence `MaxLag` beside the TTL.
* `HitsAreStored`: on SQLite, without foreign keys, a database hit that looked its row up before a
  restore records its event and copies the row to Redis after it. With foreign keys the same happens
  when the archive is from elsewhere and has another row under that id.
* `StepsBackOnlyByOverlap`: a check whose INSERT waits for another writer is dated before it waits.
  When it commits, the other one's result may be newer by `created_at`, and stays the latest although
  it was committed first.
* `AnswersAreLatest`: a commit that raises may have taken effect, and then the newest row is there
  while Redis still has the answer before it; so it is after a crash between commit and `cache.set`.
* `MemoryFollowsTable`: overlapping rotations, a failed write of the TTL, the script, a restored TTL
  and a restore that cannot read the token back leave memory and table apart until the next start.
* `SettledPageIsAskedFor`: a page that arrives after one that was asked for later stays on the
  screen.
* `HashAgreesWithDiff`: an answer in which only the text of a number changed (`1` to `1.0`) is a
  revision whose diff is empty.

## 4. The theorems

Every property of a passing run is proved for all values of the constants, except those listed under
"Model-checked only" below; three hold under a condition on the constants, which their theorem states
(requests that follow one another). A few formulas are stated by theorems only:
`RowIdsUnique` and `EventsReferToRows` follow from the refinement that `validation_concurrent`
checks, `StartsAreSpaced` and `AtMostMaxConcurrent` from the one that `politeness` checks, and
`HeldUpByAWriter` and `SomebodyMoves` are the part of two liveness properties that is about states.
Each module names what it assumes of its constants (`ASSUME ...`), and
TLC evaluates it in every run. Every proof has the same shape: `IInv` is shown to hold initially and
to be preserved, in one lemma per conjunct and one step per action, and the properties follow from
it, those about steps from `IInv` and the step.

### ValidationProofs

For any requests, spellings, addresses, outcomes, TTLs, faults and bounds, with the assumptions
named in `Validation` (the constants have their types, TTLs are positive, `None` is none of the
values it stands beside):

| theorem | says |
| --- | --- |
| `TypeCorrect` | `TypeOK` |
| `IdsUnique` | `RowIdsUnique` |
| `EventsAgree` | `EventsReferToRows` |
| `RowsAreChecked` | `EveryRowWasChecked`, which no run checks by itself: it follows from `ImplementsHistoryLog` too |
| `RecordedOrCached` | `RecordedIffNotCached` |
| `CacheIsBacked` | `CacheBackedByRow` |
| `Implements` | `ImplementsHistoryLog`, the refinement of `HistoryLog` |
| `WritersGoOn` | `HeldUpByAWriter`: whoever cannot go on waits for SQLite's write lock, and its holder can go on |

The safety invariants are not inductive: `EventsReferToRows` says nothing of an event that a
transaction is about to commit. The invariant `IInv` adds, per request, what it has in hand
(`InHand`: the row it will point its event at is committed, or is the one it inserted itself, and
has the hash of its payload), when its transaction has written what (`Transaction`), that its event
is not visible before its commit (`Unrecorded`), and globally that ids in use, committed or not,
are distinct and below `nextId` (`IdsBelowNext`). On SQLite, where a rollback takes `nextId` back,
that is only inductive with `OneWriter`: there is one transaction with writes, and its row has the
last id given out. There is one lemma per conjunct with one step per action; `NextInv` puts them
together. `Implements` follows because a commit is the only step that changes the tables
(`StepIsRecorded`). `RecordedOrCached` adds `Answered`: a request has no answer before
its end, and has left its event when only the cache is still to be written.

`WritersGoOn` is the part of `EveryRequestEnds` that is about states. `CanAdvance` spells out the
guards of a request's steps. That `latest()` finds a newest row where there is one is not obvious:
the rows of an address are finite (`FiniteStep`), and a finite set of them has one that comes after
all others (`NewestExists`, by counting: the usual induction is not available to these provers).
What then remains to wait for is `MayWrite`, and `OneWriter` says who has the lock.

### ValidationTimeProofs

| theorem | says | assumes besides |
| --- | --- | --- |
| `AnswersAreRecent` | `AnswersWithinTwoTtls` | – |
| `OnlyOverlapsRepeat` | `RepeatsNeedOverlap` | – |
| `LateOnlyByOverlap` | `StepsBackOnlyByOverlap` | – |
| `SequentialNeverRepeats` | `NoRepeatedRevision` | `MaxInFlight = 1` |
| `SequentialAnswersAreLatest` | `AnswersAreLatest` | `MaxInFlight = 1`, Redis works, no crash, a commit that raises took no effect |
| `SequentialReuse` | `ReusedForTtl` | `MaxInFlight = 1`, Redis works, one TTL |

The last three are about requests that follow one another, which is what a single user of the
service sees; the run `validation_sequential` meets what they assume, and the run
`validation_repeated_row` shows that the first of them fails without it. A crash between the commit
and `cache.set`, or a commit that only seemed to fail, leaves the previous answer in Redis, hence the
condition of the second; a longer TTL
asks for more than Redis was told to keep, hence that of the third.

* `Clocked` bounds the age of what a request carries: it began at most `MaxLag` ago, what upstream
  told it was told since, and a row it inserts is dated by that. `Aged` follows: a row found fresh
  is less than a TTL older than the request that found it (`FoundFresh`), so an entry of Redis
  expires less than two TTLs after its result was obtained (`EntriesExpire`). `LateOnlyByOverlap` needs
  `Clocked` too: a row is not dated before its request began.
* `Compared` is what the comparison in `insert_if_changed` has established: between a row of a check
  that was over when the request began and an equal one that the request inserts there is another.
  Where MySQL compares with what its snapshot showed first, that row is no older than those of the
  checks that were over by then.
* `Sequential` says that nobody else is served (`Alone`), and what a request may conclude from that
  (`Knows`): the row it looked up is still the newest one, and the one it inserts will be.
* `CacheIsCurrent` says that Redis has the newest result of an address, or its check is about to
  set it; `Reuse` that the provider's last answer is in Redis as long as it is worth a TTL, although
  `created_at` of an unchanged row is older (`Reusable`), so that whoever missed it found it spent
  (`Missed`).

### PolitenessProofs

| theorem | says |
| --- | --- |
| `GateTypes` | `TypeOK` |
| `GateInvariant` | `PermitsConserved` |
| `CapHolds` | never more than `MaxConcurrent` inside |
| `StartsSpaced` | `StartsAreSpaced` |
| `Implements` | `ImplementsGate`, the refinement of `Gate` |

for any finite set of callers, any cap and any interval. `StartsSpaced` needs the lock: whoever
sleeps is the one holder of it and has at least the rest of the interval left. `Implements` puts the
two together: who is about to get in holds a permit, so there is room inside (`RoomInside`), and the
interval has passed; every other step takes somebody out, lets time pass, or leaves the abstract gate
alone (`StepOfGate`).

### UpstreamProofs

| theorem | says |
| --- | --- |
| `TypeCorrect` | `TypeOK` |
| `Collapse` | `FetchesCollapse` |
| `RetriedWithNew` | `RetryUsesNewSecret` |
| `DirectIsTried` | `GivesUpDirect` |
| `Bounded` | `CallsAreBounded` |
| `NoStandstill` | `SomebodyMoves`: while calls are on their way, one of them waits for nothing |

for any callers, proxies, rotations and number of attempts. `Locking` says that whoever fetches is
the one that holds the lock; `Dated` that no secret is newer than the homepage's and that the secret
of a retry is at least the one the homepage showed when the retry was decided; `Falling` that with a
fallback every attempt after the first is a direct one. `Calling` ties the step of a call to that of
the provider.

`Bounded` and `NoStandstill` are what `EveryCallEnds` needs beside fairness. `Left` counts the steps
a call may still take: those of its attempt (`AttemptLeft`) below those of the attempts that remain
(`Round`), below those of the retry (`CallLeft`). It is a natural number (`LeftRange`), no step of
another call changes it (`OthersStay`), and every step of its own lowers it (`Nearer`, by
`AttemptStep`, `RetryStep`, `SecretStep`, `EndLeft`, `RefreshLeft`), the retry and the back-off
included. `NoStandstill` adds `Running` to the invariant: who is inside `get()` is waiting for the
lock, has it, or is about to return. Whoever has the lock waits for nobody; if nobody has it, a call
that is not at the gate goes on; and if all are at the gate, it is empty.

### BackupProofs

| theorem | says |
| --- | --- |
| `ConsistentArchives` | `ArchivesAreConsistent` |
| `OnlyRestoresTear` | `TornOnlyByRestore` |
| `ExactRestores` | `RestoreIsExact` |
| `SavedBeforeRemoved` | `RemovedIsSaved` |
| `TypeCorrect` | `TypeOK` |
| `OnlyImportsCollide` | `CollidesOnlyAfterImport` |
| `NoDeadlock` | `NobodyIsStuck` |

for any checks, jobs, seconds and archives from elsewhere, as long as these lack no row, are finite
and have numbers for ids (`BackupAssumption`, `UploadsAssumption`, `NoneAssumption`). (An instance
can write an archive that lacks a row, see section 3: as an archive of this instance it is in the
model, as one from elsewhere it is not.) `OneRestore` says that one restore at a time has deleted
anything, `Emptying` what is left of the tables between its two DELETEs, and `Replaces` after them:
what it deletes, and beside it what was committed since, which is nothing except on PostgreSQL and
could stand for itself. `Reading` says
that a dump is behind by no more than what was committed since it began. `Apart` keeps the ids of
open transactions and of the table apart, and `Refers` says that an event about to be committed has
its row, until a restore on SQLite (`Quiet`).

The types rest on something that is not obvious: SQLite's next id is one more than the greatest in
use, which is a number only if tables are finite (`Typed`). That a finite set of numbers has a
greatest member is `MaxIsGreatest`. The usual induction is not available to these provers, so
`Greatest` counts instead: `n` members differ in how many are above them, which is a number from
`0` to `n - 1`, so each of these numbers occurs, and so does 0.

`Numbered` is the invariant about ids: where the sequence is `Ahead` (always on MySQL, on PostgreSQL
until something comes from elsewhere), every id in the tables, in an open transaction, in a dump
and in an archive of this instance is below it. An archive of this instance therefore restores
nothing that will be given out again.

`NoDeadlock` adds `Tidy`: only a restore that is under way has deleted anything, a check that has
inserted has its row in hand, and SQLite has one writer. The argument goes along what can wait for
what. A commit, a dump and the end of a restore wait for nothing. A check that has inserted its row
needs a number for its event, and that is new (`NextIsFree`), so it waits for nobody. A restore
waits for such checks only, and every other check for a restore. The argument fails in two places,
where the circles described in section 3 close: on MySQL the event of a check also waits for a
restore that is between its DELETEs (`MySqlCircle`), and where the sequence is behind, on PostgreSQL,
the number of the event is not new. `Ready` spells out the guards of the actions.

### RestoredCacheProofs

| theorem | says |
| --- | --- |
| `TypeCorrect` | `TypeOK` |
| `OrphansAreGone` | `OrphansExpire` |
| `HitsHoldTheirRow` | `HitsAreStored` |

for any requests and archives, each backend, any TTLs and bounds. `Backed` says what a request has
in hand: a row that is there, its own that it is about to commit, or one that a restore has taken
since the request began, which was at most `MaxLag` ago (`Timed`). `Expires` follows for what it
writes to Redis. `Held` is the foreign key: as long as the event of a database hit is not committed,
a row of the id it refers to is in the table and no restore has deleted that. If it is another row,
one of the two is from elsewhere, as requests share no ids. That takes `Unfound`: the row of a request is nowhere to be found
before it is committed, so a hit never has its own in hand, and `MayDelete` does wait for it.

### AccessProofs

| theorem | says |
| --- | --- |
| `TypeCorrect` | `TypeOK` |
| `OnlyStoredTokens` | `OnlyStoredTokensOpenTheApi` |
| `MemoryFollows` | `MemoryFollowsTable` |
| `TwiceAtMost` | `NeverTwiceTheLimit` |
| `RefusedWhenSpent` | `RefusedOnlyWhenSpent` |

for any number of calls, TTLs, tokens and configurations, and any limit and window. `AllKnown` says
that whatever can get into the memory (what a call has read, or is to assign) was committed;
`Meeting` that two calls that write one row know of each other; `Done` what a call that is alone has
done so far; `Follows` that a clean key agrees, or a call is midway between its two copies. For the
limiter, `Counted` relates the bucket's count to the hits admitted in its window, and says that those
admitted less than a window before its start are no more than a limit: an interval as long as a
window meets two windows at most.

### HistoryPageProofs

| theorem | says |
| --- | --- |
| `TypeCorrect` | `TypeOK` |
| `SettlesAsAsked` | `SettledPageIsAskedFor` |
| `WalksAreComplete` | `WalkShowsEverything` |
| `CountsFit` | `PageFitsCounts` |
| `RevisionsDiffer` | `HashAgreesWithDiff` |

for any addresses, searches, page sizes, answers and bounds. The listing is a strict total order, so
that ranks are distinct and run from 0 without a gap (by cardinalities, without an induction), and a
row that is added moves others down and never up. So what the first `k` ranks have shown stays shown
(`Covers`), which is what `Resting` and `Waiting` say of a walk between two pages and during one.
`Latest` says that the page asked for last is on its way, or has arrived, or an error is shown.

### Model-checked only

* Liveness: `EveryRequestEnds`, `CallersGetIn`, `EveryCallEnds`. Temporal reasoning from fairness is
  out of the prover's reach. What they need of the states and steps is proved: that nobody waits in
  vain (`WritersGoOn`, `NoStandstill`) and that calls get nearer to their end (`Bounded`).

## 5. Not modelled

* **Parts of modelled components**: `/metrics`, the temporary file of an upload, the timeline of an
  address and the 404 for a revision of another one, the wildcards of a search, the limit of the
  connection pool, the serving of the built interface, the reading of the configuration (its two
  rules of coherence are in `Access` and `Upstream`).
* **The other pages of the web interface**: forms and rendering, without state that outlives a call.
* **User agents, migrations, logging, build**: a random choice nothing depends on, work delegated to
  Alembic before anything is served, output, and nothing at run time.

The models stop at these edges: one process of the service on a database, a clock that does not go
back, HTTP and HTML reduced to the outcomes the code distinguishes.

Three hazards have no property. That a refill without the fallback may raise an untranslated `httpx`
error (`client.py:85`) is a behaviour of the model which nothing in the repository forbids; so is a
health report that follows the last refresh and not the cached secret (`secret.py:85`). A proxy list
that is not JSON (`proxies.py:88`) is described in section 3.

## 6. Plan

1. Whether one of several forced fetches that follow a rejection can bring back an older secret than
   another did (how many there can be is bounded by `CallsAreBounded`).
2. The timeline of an address beside `HistoryPage`, and the deletion of rows by a restore while a
   visitor pages.
3. An abstract specification of the two copies of a setting, refined by `Access` as `HistoryLog` is
   by `Validation`.
