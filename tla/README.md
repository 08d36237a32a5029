# TokenLoom in TLA+

TokenLoom keeps Outlook refresh tokens alive: it stores accounts encrypted in
PostgreSQL, renews their tokens on a schedule, checks that their mailboxes can
be opened, and imports accounts from text files.  A web process takes requests
and writes jobs; one worker process runs them.  The two share the database and
a directory of import files and nothing else.  This directory models that
system in TLA+, checks it with TLC on small instances, and proves their
safety properties with TLAPS for instances of any size.

    tlc -workers 2 -config jobqueue_imports.cfg MCJobQueue.tla
    tlapm JobQueueProofs.tla

`PROJECT.json` maps every definition to the lines it models and lists the
runs, the mutants that show each property can fail, the hazards of the code
and the theorems.

## The system

| Component | State | Operations | Interacts with |
|---|---|---|---|
| Job queue (`app/main.py`, `app/worker.py`) | rows of `jobs`; files in `data/imports` | create, import (file then row), cancel; recover, claim, run a batch, complete, cancel, fail, remove the file | web and worker through row locks, `SKIP LOCKED` and files |
| Account jobs (`worker.py`, `services.py`) | `cursor_id`, counters, snapshot of a job; status and date of accounts | load a batch, call Microsoft, write results | deletions and imports between and inside batches |
| Import jobs (`worker.py`, `services.py`) | spool file, offset, counters; accounts | read a batch of lines, upsert, advance | deletions; the file of the job queue |
| Ciphertext migration (`database.py`) | format of stored ciphertexts | read a batch, seal it again, commit | the same migration in the other process; refreshes; deletions; start order of `install.sh` or `compose.yaml` |
| Scheduler (`worker.py`) | policy, marker of the last run | one job for due accounts a day | job queue |
| Maintenance (`worker.py`) | retention periods | delete old jobs, audit rows and orphaned files | job queue, uploads |
| Account list and deletion (`main.py`, `app.js`) | page cursor and history in the browser | list, page, select, delete | batches in progress |
| Login limiter and sessions (`auth.py`) | attempts per address; signed cookie | reserve, verify, clear, prune, evict | concurrent requests |
| Request guard (`request_guard.py`) | bytes received | check length and session, buffer, replay | the ASGI server |
| Token refresh (`services.py`) | attempt number | post, classify, wait, retry | Microsoft; account jobs |
| Settings, dashboard, encryption, configuration, pages, packaging | rows written whole, read-only queries, library calls, static content | | |

What is hard here: every transaction of one process can be interleaved with
those of the other, and several of them read without a lock and write later;
a batch is a read, minutes of network calls and a write; the file of an import
and its row cannot be committed together; the worker may be killed anywhere
and its recovery guesses from the rows what it was doing; an answer to a commit
can be lost.  What makes each component correct:

- queue: one job runs at a time, jobs of equal priority run one after the other
  unless the older one was out of sight when the younger was begun, an ended job
  stays ended, a cancelled job stops, every job ends;
- spool: an accepted import has its file until it ends, and no file stays for
  ever;
- account jobs: a job covers what it was created for and nothing later, its
  counters are the results it wrote and the accounts deleted in the middle of a
  batch, an account is out of the schedule only with an invalid token, the job
  ends;
- imports: the result is that of importing line by line, and the counters
  account for every line;
- migration: no process works on the old format, and migrating never undoes a
  refresh;
- calls to Microsoft: a token that was delivered is stored, a permanent error
  ends the attempts, a transient one uses them all, the batch ends;
- limiter, sessions: never more verifications of an address than its window
  allows, logins and logouts take effect;
- scheduler: one job for a local date, never two active ones, and accounts that
  are due get a job.

## Modules

| Module | Models | |
|---|---|---|
| `JobContract` | what a client of the task list may rely on | abstract specification, implemented by the next three |
| `JobQueue` | job rows, spool files, the handlers that create and cancel jobs, the worker loop | implements `JobContract` |
| `MCJobQueue` | instances of `JobQueue` for TLC | |
| `JobQueueProofs` | theorems about `JobQueue` | TLAPS |
| `AccountJob` | one refresh or health job and the accounts it works on | implements `JobContract` |
| `ImportJob` | one import job, its file and the accounts | implements `JobContract` |
| `TokenRefresh` | the calls of a batch, their attempts, and the tokens they bring | |
| `CipherMigration` | the migration both processes run at start-up | |
| `Scheduler` | the daily tick, the clock, the policy and the marker | |
| `WebAccess` | request guard, login limiter, sessions and cookies | |
| `MCScheduler`, `MCWebAccess` | instances of the two for TLC | |
| `AccountJobProofs`, `ImportJobProofs`, `TokenRefreshProofs`, `CipherMigrationProofs`, `SchedulerProofs`, `WebAccessProofs` | theorems about the modules they are named after | TLAPS |
| `IdLemmas` | what several proofs need to know of sets of ids: least and greatest element, a batch as the first ids of a set, cardinality of a union, quotients | TLAPS |

### JobQueue

One action is one transaction, or the part of one between two points where
another process can see it or interfere.  A request that creates a job is
`SpoolImport` (the file, if it is an import), `FlushJob` (the `INSERT`, which
gives the row its `created_at`; the audit row follows) and `CommitJob`, from
which on others see the row.  An import may instead end in `RejectImport` and
`UndoImport` (the `except Exception` clause, which also runs when the commit took
effect and its answer was lost); `AbandonJob` is a process that dies, a request
that is cancelled, or a `POST /api/jobs` that raises: nothing is undone.  A cancel
request is `CancelCheck` (an unlocked read), `CancelFlush` (the `UPDATE` takes
the row lock) and `CancelCommit`.  `Locked` is that row lock: batches, failures
and recovery wait for it, a claim passes over it.

The worker's place in its loop is `wpc`: recovery, maintenance at start, then
per iteration the scheduler tick (`TickCheck` looks for an active refresh job,
`TickCommit` inserts one, fails, or loses its answer), maintenance when due, a
claim, and a batch.
A batch (`RunBatch`) is one unit of work here; `AccountJob` and `ImportJob`
show what is inside, and that what they do to their row is what `JobQueue` says
of it: all three implement `JobContract`.  An import opens its file before its transaction
(`OpenSpool`): from then on the file may be unlinked without harm to the batch,
and a file that is missing leaves only `RaiseInBatch`.  `RaiseInBatch` is every way to leave a batch by an
exception, with its transaction rolled back or, when only the answer was lost,
committed; `FailJob` and `RemoveSpool` follow.  `GoDown` may strike between any
two steps.

`created` is the rank of the stamp a row gets when it is flushed; the commit comes
later, and two requests that overlap may commit in the other order.  The younger
job is then begun first, and the older one, claimed by age, comes in between its
batches.  A cancel request that holds the row of the older one does the same, by
`SKIP LOCKED`.  `overtook` is history: which job was begun by a claim that could
not see which other one.  `EqualPriorityInTurn` says that nothing else makes two
jobs take turns.  A `POST /api/jobs` differs from an import in having no file and
no `except` clause; the theorems cover every kind, the runs imports and a
scheduled job.  A health job of due accounts counts as an `"all"` job, which has its
priority.  `left` counts the batches a
job still needs.  An account job may end before its last batch because accounts
of its range are gone, an import not.  `spool` distinguishes files older than an
hour, the age at which maintenance may take one.  Assumed of the environment:
a request commits within an hour of its last write to the file (the guard of
`Age`); `unlink` does not fail; job ids are never used twice.

### AccountJob

The job row with its cursor, highest id and counters, the accounts with status
and date, and the worker between `LoadWork`, `SelectAccounts` and `WriteBatch`.  `DeleteAccounts`, `ImportBatch` and `BecomeDue` may come between
any two of them, except that the one worker imports only while it is not inside
this job's batch.  An outcome is what the worker tells apart: success, a
permanent error, a mailbox that cannot be opened, any other error; nothing looks
at one before it is written, so `WriteBatch` chooses it (`Results`).
`RaiseStale` models what SQLAlchemy does with an `UPDATE` of a row that has been
deleted: alone it raises, sent together with others it goes unnoticed.
An account that is deleted between the `SELECT` and such `UPDATE`s is counted as
succeeded or failed although nothing is written: `applied` is history of what was
written, `raced` of what was deleted in that window, and `CountersMatch` says that
the counters are those two and nothing else.  `FinishEmpty` (no account left) may
lose the answer to its commit, and `FailJob` then overwrites the row.
Ids that are not in the table carry no data (`DeleteAccounts` resets them).
`BatchesLeft`, which the contract's `left` stands for, is the accounts of the
snapshot in batches, rounded up, less the batches already counted.

### ImportJob

A line of the file is an email, `"blank"` (empty or a comment) or `"bad"` (it
does not parse, is not UTF-8, or is too long); an offset is a number of lines.
`CreateImport` commits the row of a file already written.  `ref` is a history
variable: the accounts and counters after importing the same lines one at a
time, each on its own (`ImportLines`, a recursive function of the line number).
`BatchesLeft` is the lines in batches, and the empty batch in which the end of
the file is met.  `Conflict` is PostgreSQL's refusal to
write one row twice in `INSERT ... ON CONFLICT DO UPDATE`.

### TokenRefresh

One batch after another.  The call of an account waits for the semaphore
(`Enter`), posts (`Post`), sleeps before its next attempt (`Wake`), and in a
health job opens the mailbox (`CheckMailbox`); `Gathered` is `gather` returning,
`StoreTokens` and `RollBack` the two ends of the transaction.  `Answers` are
what `refresh_token` tells apart: the status and whether the body holds a token,
a permanent error, neither, or something that raises.  `GivesUp` is its
condition at `services.py:251` without the last attempt; `Retryable` can be false
only for a permanent error there, so that `GivesUp` is `Permanent`, which is why
`PermanentIsFinal` holds for the statuses 429 and 5xx too.  A token is the number
of times Microsoft has replaced it; Microsoft may replace it without the program
seeing the answer (`MayIssue`).  `received` and `cutOff` are history: what has
been delivered, and whose delivery a rollback or a crash took away.  The
concurrency is below the semaphore's 150.  An account that is deleted during the
batch is `AccountJob`'s subject.  The account job is the one writer of the token
here: imports in update mode are `ImportJob`'s subject, the migration at start-up is
`CipherMigration`'s.  `ReplacedBySuccess` does not speak of them, and
`TransientAfterAllAttempts` not of an error of the program itself
(`internal_error`), which is not tried again.

### Scheduler

`scheduler_tick` is `TickRead` (policy and clock), then `TickReturn` or
`TickDecide` (marker, active jobs, due accounts), then `TickCommit` or
`TickFails`; the policy, the other jobs and the clock may change between.
`active` counts the jobs the tick has inserted, `manual` says whether a user's
job for due accounts is active.  Dates are relative to the UTC date, so a
behaviour has no last day; what is more than two days back is `Earlier`.  A tick
takes less than a day, the guard of `PassTime`.  `read` and `ran` are
history for `OncePerDate`: a job runs at most once for a date as long as the zone
does not change.  After a change of zone a date may be run again, or skipped: the
marker holds one date and no zone.  That is why the property is limited to an
unchanged zone, and why `DueGetsJob`, which is not, matters.

### WebAccess

A request goes through `Send` (what the guard reads from the headers),
`ReadChunk` or `Disconnect`, and its handler; a login is `HandleLogin` (the
reservation, under its lock), the verification in a thread (`VerifyFails`,
`VerifySucceeds`) and `Opened` when the answer reaches the browser; a logout is
`HandleLogout` and `Closed`.  Requests the guard answers at once change nothing
and are no step.  The session may end while the guard reads a body, and the handler
looks again (`Authorised`); there is no property about it, since it would only
repeat the guard of `HandleApi`.  Ages and lives are relative, so time has no end.  `Sent` and
`Set` are the browser's rules for secure cookies.  `COOKIE_SECURE` is false, as
the documents ask for plain HTTP: with it set, a browser drops the cookie of an
HTTP login.  `tries` is history: the verifications an address was granted in the
window since its last success or eviction.  `order` is the order of the dict
`_attempts`, as the pairs of addresses of which the first was inserted before
the second; `MakeRoom` evicts by counting how many were inserted after an entry.
The reservation reads the clock and takes the lock in one turn of the event loop,
so that attempts are recorded in the order of their times as long as the host's
clock is not set back.  At 4096 addresses within one window
the oldest entry goes with its recent attempts (`LiveEvictedLast` says no
earlier): the limit is per address as long as it is tracked.

### CipherMigration

Each process migrates (`Select`, `Rewrite` per batch) and becomes ready, may die
and start over; the worker then refreshes tokens and the web process deletes
accounts while the other may still be migrating.  `token[a]` counts the
refreshes of an account, so that an older token written back shows.
`order` is how the processes were started: `"compose"`, where both start as soon
as the database is healthy, or `"install"`.  `script` is where `install.sh` is: it
tries `/healthz` 30 times, a second apart, and then one of three things happens
whatever the length of a migration: `StartWorker`, after a try that was answered;
`GiveUp`, which leaves a first installation with a web process that systemd goes on
restarting and without a worker; or `RollBack`, where a previous release exists,
whose two processes take the place of these (`exit 1` in both).  The model ends with
a rollback: the previous release is another program, started on a table that may be
half sealed.  A script that is killed is a `GiveUp`.  A host that reboots starts both
through systemd at once, as compose does; an installation interrupted by a reboot is
not a case of its own, and `InstallKeepsTokens` does not speak of it.  `create_all`
is taken as done: of two processes that create the same tables at a time one dies and
is started again, which is no more than a `Die`.  Rows that are inserted while a migration runs are sealed in the new format
from the start and do not concern it; they are left out.

## What the runs check

| Run | Instance | Shows |
|---|---|---|
| `jobqueue_imports` | 2 imports of 1 or 2 batches, 1 cancel, 1 restart | type, one runner, files kept, turns only when out of sight, ended stays ended, cancelled stops; `JobQueue` implements `JobContract` |
| `jobqueue_liveness` | an import and a scheduled job of 1 or 2 batches, 1 cancel, 1 restart | every job ends, every unneeded file is removed |
| `accountjob` | 3 ids, batches of 2, every scope, 1 crash | counters, snapshot, coverage, schedule; the job ends whatever happens to the accounts; `AccountJob` implements `JobContract` |
| `importjob` | every file of up to 3 lines over 2 emails, batches of 2, both modes, 1 crash | as if line by line, counters add up, imports end; `ImportJob` implements `JobContract` |
| `migration` | 4 accounts, batches of 2, both start orders, a script that gives up or not, 2 crashes | sealed before use, no token undone in the order of `install.sh`, migration ends |
| `tokenrefresh` | 2 accounts, 1 slot, 3 attempts, 2 rotations, 1 crash | no delivered token lost, attempts as the policy says, the batch ends |
| `scheduler` | days of 3 slots, zones -1 and +1, 2 policy changes, 1 crash | one job per date, one active at most, due accounts get one |
| `webaccess` | 2 requests, 3 addresses, room for 2, 2 attempts per window | limiter exact, live entries evicted last, answers take effect |
| `accountjob_due` | violation | a due job completes without an account that was due |
| `accountjob_delete` | violation | a deletion fails the job |
| `importjob_duplicates` | violation | equal emails in a batch fail the import |
| `migration_overwrite` | violation | an old token overwrites a new one |

The violations are disagreements between the code and what its pages and
documents say; `PROJECT.json` quotes both sides.  Each needs a window
between two steps of different processes, except the equal emails, which need
only a file.

Why the bounds are enough to be of interest.  Two imports and one cancel
request are the least that let a claim pass one of two equal jobs over, or two
creations commit in the other order; two
batches let a job be requeued with work done; one restart exercises recovery
from every place of the loop.  Three ids and batches of two give a full and a
short batch, a boundary between batches, gaps, and an id imported after the
snapshot.  Files of up to three lines and batches of two give a file that ends
exactly with a batch, one that ends in a short batch, a pair of equal emails within
a batch and across two, and the empty batch at the end.  Four accounts and batches of two give the migration two batches to
race in, and two crashes let each of them start over while the other works.  Two calls and one slot make one wait for the other's retries; three attempts
have a first, a middle and a last one.  A day of three slots has one before, at
and after the time of the schedule, and zones on both sides of Greenwich put
midnight before and after the UTC one; two changes of policy lead to another
zone and back.  Three addresses and room for two force evictions of expired
and of recent entries; two requests make verifications of one address overlap;
a limit of two chunks is met, kept and passed.
`MaxBatches`, `MaxRestarts`, `MaxCrashes`, `MaxChanges`, `MaxId`, `MaxLines`,
`MaxIssued` and `MaxRefreshes` are bounds of the instances; each cancel request
of `JobQueue` is used once.

The jobs of `jobqueue_liveness` are of different priority, so that the scheduled
one is put off by the import, and its cancel request makes claims pass over either.
Three jobs with cancel requests are more than TLC can check for liveness in minutes.
`accountjob` runs health jobs, whose outcomes include all those of a refresh; a refresh
differs in nothing else there.

Symmetry is used for the two imports of `jobqueue_imports` and for the requests
and addresses of `webaccess`, whose names carry nothing; these runs check no
liveness property (`ContractSpec` is a safety specification).  Deadlock is checked in every run: the worker always has a step.

### Fairness

`JobQueue!Fairness` asks for weak fairness of the worker's step, because the
loop does not end by itself and systemd (`Restart=always`) or compose
(`unless-stopped`) restarts it; strong fairness of `Maintain`, because the hour
between two maintenances passes while the loop passes the place where it looks
at the clock again and again; weak fairness of a cancel request that has
checked its job, and of a request past its file or its flush, because both commit
or die; and
weak fairness of a file growing old.  Nothing is asked of clients.  Crashes are
bounded, so that the worker is not killed for ever.  `AccountJob` and
`ImportJob` ask for weak fairness of the worker alone (every call to Microsoft
has a time limit), `CipherMigration` for weak fairness of each process's
migration, as far as something starts it, and of `install.sh`, whose loop ends after
30 tries: which of its three ends it comes to is left open, and `MigrationEnds` asks
for a worker only where it was started, and for nothing after a rollback,
`TokenRefresh` for weak fairness of each call and of the end of the
batch.  `Scheduler` lets days pass and the worker go on, and asks for strong
fairness of `TickRead`: between the time of the schedule and midnight the loop
comes past its tick again and again, every 30 seconds or after a batch.  A
schedule at 23:59 with batches that always cover the last minute would break
that.  Strong fairness of `TickCommit` says that not every tick fails.

## What is proved

`JobQueueProofs` proves, for every set of jobs and kinds, every number of cancel
requests, batches and restarts:

- `TypeCorrect`, `OneRunner`, `SpoolKept`, `InTurn`: the invariants `TypeOK`,
  `RunningIsHeld`, `AckedImportKeepsSpool` and `EqualPriorityInTurn`;
- `NoRevival`, `CancelStops`: the action properties `EndedStaysEnded` and
  `CancelledWorkStops`;
- `Refinement`: `Spec => ContractSpec`.

The only assumption is `JobsAssumption` (the constants have their types,
`NoJob` is no job, a job needs at least one batch at most), which TLC evaluates
in every `jobqueue_*` run.

None of the invariants is inductive alone.  `IInv` adds to them:

- `HeldJob`: where the worker holds a job and in which state that job can be
  there, which `RunningIsHeld` needs, since a job runs only between a claim and
  the end of its batch;
- `RequestsKnowTheJob`: a cancel request past its check is about a job whose row
  has existed, which a lock and the contract's `Cancel` need;
- `WorkRemains`: an active job has a batch left, so that committing one never
  counts below zero;
- `Creations`: how far a creating request is, against its row and its file: the
  file is younger than an hour until the row is committed, so that maintenance
  cannot have marked it before;
- `Ranks` and `Turns`: the stamps of rows, committed or on their way, are distinct
  and bounded by the clock, and a begun job has no older unfinished job of its
  priority beside it, committed or on its way, unless the claim that began it could
  not see that one.  A commit that comes late keeps this, because the claim has
  recorded what was on its way; `EqualPriorityInTurn` is a part of it.

`Initially`, `Inductive` and `Invariance` prove `IInv`, one step per action and
one below it per conjunct the action touches; the theorems follow from it.  For
the refinement, `InsertSubmits`, `BatchRefines`, `RecoverRefines` and
`ClaimRefines` map the steps that are not trivial: recovery, for example, is one
step of the contract because `RunningIsHeld` leaves it at most one row.

The other proofs are laid out in the same way: an `IInv` that TLC has checked
as an invariant, `Initially`, lemmas for the actions (`...Keep`, `...Keeps`),
`Inductive`, `Invariance`, and the theorems.  Each rests on the one assumption
of its module, which TLC evaluates in that module's runs, and which says no more
than that the constants are of their types and a batch, a day or the semaphore
is not empty; `TokenRefresh` also uses that `max_retries` is 1 to 5
(`main.py:466`) and that a batch is finite, `Scheduler` that a zone is less than
a day from UTC.

`AccountJobProofs` proves `TypeCorrect`, `CountersExact` (`CountersMatch`),
`SnapshotKept` (`SnapshotOnly`), `CompletedCovers` (`CompletedCoversSnapshot`),
`ParkedInvalid` (`ParkedIffInvalid`) and `Refinement` (`Spec => ContractSpec`),
for any table and batch size.  A job
that has covered its snapshot finds that out by comparing counters and by a short
or empty batch, never by looking at the accounts; so `IInv` has to know what is
behind the cursor (`Behind`: covered, or deleted), that a batch skips nothing
and is the last one if it is short (`InBatch`), and that the snapshot was
complete when it was taken (`Snapshot`); and that what was deleted while the batch
held it is not in the table any more (`Raced`).  The arithmetic of the counters is that
of disjoint unions, by the cardinality theorems of the library.  For the
refinement, `WorthOf` shows that a full batch takes exactly one from
`BatchesLeft` and a short one takes one or none, and that more than one was left
if a full batch leaves the job with accounts to process.  That is the contract's
`Yield`, and what makes the number of batches of a job finite.  It rests on
`Quotients`: what one more batch does to a quotient by its size.

`ImportJobProofs` proves `TypeCorrect`, `EveryLineCounted` (`CountsAddUp`),
`BatchesAreLines` (`AsIfLineByLine`) and `Refinement` (`Spec => ContractSpec`),
for files and batches of any length.  `IInv` says that the batch read is the
stretch after the offset and when it has met the end of the file (`Stretch`);
`LinesOfBatch` splits such a stretch into its blank, bad and good lines.  That a
batch is as good as its lines one by one is proved with `After(i)`, what the
lines of the batch up to `i` make of the accounts and counters, in closed form:
`LineByLine` shows that line `i` makes it of `After(i - 1)`, the first of equal
emails inserting and the others being skipped, and `WholeBatch` that the last one
is what the one statement of `upsert_accounts` makes of them.  `ImportLinesIs`
puts the steps together by the least line at which the two could differ, so that
no induction over data is needed.

`TokenRefreshProofs` proves `TypeCorrect`, `DeliveredIsKept`
(`ReceivedIsStored`), `PermanentEndsCall` (`PermanentIsFinal`), `AllAttemptsUsed`
(`TransientAfterAllAttempts`) and `OnlyNewerTokens` (the action property
`ReplacedBySuccess`), for any batch, semaphore, policy and number of crashes.
`IInv` counts the requests of a call at each place of its loop (`Progress`) and
follows a token from Microsoft to the call and to the row (`Whereabouts`): what
is in the row or in the call is the newest delivered, unless a rollback or a
crash has cut it off.

`CipherMigrationProofs` proves `TypeCorrect`, `SealedBeforeUse`
(`ReadyMeansSealed`) and `InstallOrderSuffices` (the action property
`InstallKeepsTokens`).  What is still in the old format is ahead of every
migration or in the batch it holds, read in that format (`Swept`), whatever the
other process does; and in the order of `install.sh` nothing is refreshed before
the script starts the worker, when nothing is left to migrate (`InOrder`), so that a
batch read before cannot carry an old token.

`SchedulerProofs` proves `TypeCorrect`, `NeverTwo` (`OneScheduled`) and
`OnceADay` (the action property `OncePerDate`), for days of any number of slots
and any zones.  The date a tick has read may have passed by the time it commits;
`InTick` says that it is not ahead of the clock and not the marked one, `InZone`
that the marker is not ahead of the clock either while the zone is unchanged.
`DateOfSlot` and `DatesMove` are the facts about division by the length of a day
that this takes.

`WebAccessProofs` proves `TypeCorrect`, `LimitIsExact` (`WindowIsExact`) and, as
action properties, `ExpiredGoFirst` (`LiveEvictedLast`) and `LoginsTakeEffect`
(`AnswersTakeEffect`).  `Granted`
says that what is left of an address's window is what the history of its grants
says, which takes a small theory of pruning: twice is once, and before time
passes is after it (`RecentTwice`, `RecentOlder`).  `OldestFirst` keeps the attempts of an address in the order of
their ages, which is what lets the code look at the last one alone to see whether
an entry has expired.  `InLine` says that the insertion order is a linear order of
the tracked addresses and that these are within the bound: `RoomIsMade` gets that
from `FewAtTheEnd`, that of any line no more than `k` have fewer than `k` behind
them.  An address that is evicted with a recent attempt has so many others with
one behind it that together they fill all places, which is `ExpiredGoFirst`.
`PlainCookie` says that the cookie of plain HTTP is never a secure one, without
which a login over HTTP could be shadowed.

Only model-checked:

- liveness (`EveryJobEnds`, `OrphansCollected`, `JobEnds`, `ImportEnds`,
  `MigrationEnds`, `BatchEnds`, `DueGetsJob`): fairness and `ENABLED` are out of
  the prover's reach;
- the four violations, which are counterexamples.

Every invariant, every action property and every refinement that a passing run
checks is proved.  Of the liveness of jobs, the refinements prove the part that
needs no fairness: a job has only so many batches, and as long as it goes on each
commit takes one away.

## What is not modelled

The bytes of a file and the finding of line ends in them; the encryption and
the format of ciphertexts beyond old and new; signatures and password hashes,
which are library calls; audit rows; heartbeats (a column nobody reads); the
dashboard's aggregates; the free space of the disk; the list's pages; the console.  SQLite,
which the code supports for development, has one writer at a time and fewer
interleavings than what is modelled.  Hazards without a property yet have a
note in `PROJECT.json`.

## Plan

Done: `JobQueue` with its contract, `AccountJob`, `ImportJob`,
`CipherMigration`, `TokenRefresh`, `WebAccess`, `Scheduler`, and the proofs about
them.  Next, in this order:

1. `LineReader`: `read_limited_line` against a reference split into lines, and
   the number of lines the upload counts against the number the job processes.
2. `DiskBudget`: the room two uploads and a text import measure and use.
3. Two account jobs and an import composed over the same accounts, with the
   worker's claims as in `JobQueue`.
