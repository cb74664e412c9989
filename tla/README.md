# Formal models of transactAgent

transactAgent ingests bank statements from a Google Drive folder, extracts and
categorizes their transactions, and lets its user review the result. This
directory holds TLA+ models of its core, the TLC configurations that check them
on small instances, and proofs of the main properties for instances of any size.
References such as WR-65 or BR-34 are to the business rules in `aidlc-docs/`.

## The system

Two programs matter for correctness, and they share nothing but the database.

* The **ingestion worker** (`ingestion-worker/`) is one process with one poll
  loop (`main.py`). Each cycle does at most one thing, the first of: process a
  queued ingestion run; process a recategorization job; carry out a statement
  removal; back up; detect recurring payments; scan for duplicate pairs; embed
  pending rows. When it starts it fails whatever a previous process left running.
* The **API service** (`api-service/`) serves the frontend. Each request is one
  transaction at READ COMMITTED; requests run concurrently with one another and
  with the worker.

Only account requests lock rows before they read them (`lock_accounts`). Everywhere
else what keeps the two apart is a handful of partial unique indexes, a conditional
update, and the order of reads and writes, which is why the interesting behaviours are
interleavings of transactions.

### Inventory

| Component | State | Operations | What is hard | What makes it correct |
|---|---|---|---|---|
| Ingestion run (worker: `orchestrator/`; API: `ingestion/`) | `ingestion_runs`, `ingestion_run_files`, `bank_statements`, the session's flushed rows | start, cancel, claim, list, process a file in a savepoint, complete, fail, recover at startup | exceptions between the savepoint and the commit; crash; cancellation that races the end; two workers in a rolling update, which may claim the same run | one active run; a file's row, its statement and its run's counter appear together; every run ends; cancel stops a run |
| Duplicate detection and removal (worker: `duplicates/`, `duplicate_detection/`; API: `duplicates/`) | `known_files`, `duplicate_pairs`, `statement_removal_jobs`, `duplicate_scan_state` | skip, scan, confirm, dismiss, re-verify, delete, clean up embeddings, override, re-check | the scan writes by primary key what it decided from earlier reads; re-verification and deletion are apart; crashes and retries; chains of skips and removals | no content is ever lost; a removal keeps the other copy; a decision stays; every duplicate is listed; every job ends |
| Recategorization (worker: `categorization/`, `pipeline.process_recategorize_job`; API: `recategorization/`, `transactions/`) | `recategorization_jobs`, `recategorization_proposals`, `categorization_disagreements`, a transaction's category and its source | correct, queue a job, propose, approve, reject, resolve | approvals and resolutions write unconditionally; a job works from what it read | a manual category is not replaced by an older proposal; one pending proposal per transaction |
| Recurring payments (worker and API: `recurring_payments/`) | `recurring_payments`, matches, suggestions, scan runs | match, approve, reject, detect, dismiss or add a suggestion, edit, delete | two writers of a cycle's match; reviews that overlap; date arithmetic around month ends, once per service | one live match per payment and cycle; a settled cycle stays; the two date arithmetics agree |
| Embeddings (`embedding/`) | `embedding_status` of transactions and payments, the vector collections | compute, upsert, mark | renaming or deleting a row while its batch computes; vectors are not transactional | an embedded row's vector is that of its current name |
| Backup (`backup/`) | `backup_runs`, the Drive backup folder | due check, upload, retention | failure in each step, lost answers, midnight | one attempt per date; the newest files are kept |
| Backfill (`backfill/`) | everything above, exported files | dry run, export, verify, wipe and pre-register, reingest, reapply corrections, restore | minutes between the dry run and the wipe; crash between wipe and reingest; text that reads otherwise the second time | nothing wiped that was not verified as saved; decisions kept; corrections back on their rows |
| Poll loop (`main.py`) | what each branch finds due | one branch per cycle | starvation of the later branches, branches that raise every cycle | every branch's work is eventually done |
| Matching rule (`duplicates/matching.py`) | none | compare two statements, choose the copy to keep | a maximum matching written by hand; an asymmetric similarity | the matching is maximum; a copy is found; the verdict does not depend on the order of its arguments |
| Extraction (`extraction/`) | none beyond a file's rows | repair dates, drop non-transactions, validate, refuse | day and month swapped on some lines or all | a repairable reading gives the printed dates |
| Accounts (worker and API: `accounts/`) | `accounts`, keys, anchors, statement sections | resolve a statement's sections, learn a type, retype, anchor, merge | a merge while a file is being ingested; locks taken in two orders | sections follow their key; requests do not deadlock; the user's type stays |
| Balances (API: `balances/`) | none: anchors, closing balances, transactions and rates are read | lookup, series, discrepancies | two ways to compute one balance; the nearest known balance; month ends | the series is the lookup; what is not listed as a discrepancy is none |
| Currency conversion, settings, categories, costs, dashboards, auth, Drive connection, frontend, model training, scripts, deployment | single rows or none | read, write one row, render | none that a model reaches, except the rolling update | not modelled |

`PROJECT.json` lists the components with their status and every hazard at the
line where it bites.

## The modules

| Module | What it is |
|---|---|
| `StatementDuplicates` | The life of a statement: ingested or skipped, paired by the scan, decided by the user, removed by the worker. Worker, API requests and crashes interleave. |
| `StatementDuplicatesProofs` | Type correctness and the safety properties of `StatementDuplicates`. |
| `IngestionRun` | A run from the user's click to its final status, with the worker's session apart from what is committed. |
| `RunLedger` | What `IngestionRun` promises: the abstract ledger of runs that it is checked to implement. |
| `IngestionRunProofs` | Type correctness of `IngestionRun`, its counters and its statements, and that it implements `RunLedger`. |
| `Recategorization` | The category of a transaction: ingested, corrected, propagated by the worker's jobs, reviewed. |
| `RecategorizationProofs` | Type correctness and the safety properties of `Recategorization`. |
| `RecurringPayments` | The register of payments, the matches a file records, their review, and the suggestions of the detection scan. |
| `RecurringPaymentsProofs` | Type correctness and the safety properties of `RecurringPayments`. |
| `Accounts` | Accounts, keys, anchors and sections: the worker ingests, users retype, anchor and merge. Row locks are explicit. |
| `AccountsProofs` | The safety properties of `Accounts`. |
| `Backfill` | The Backfill Tool from dry run to finish or restore, beside a user who goes on working. |
| `BackfillProofs` | The safety properties of `Backfill`. |
| `WorkerLoop` | The poll loop: its branches in order, with the backup and the embedding backlog opened up, a clock, crashes and outages. |
| `WorkerLoopProofs` | Type correctness of `WorkerLoop`, and the safety of its backups and its embedding backlog. |
| `DueDates`, `StatementMatching`, `Balances`, `Extraction`, `Corrections` | Pure algorithms as operators, each with the reference definition it is compared with. |
| `Calculations` | Asks those algorithms for one input at a time, so that TLC compares them over tens of thousands of inputs. |
| `Verdicts` | `Calculations` with `StatementMatching` asked too, which is recursive and for that kept apart from what is proved. |
| `CalculationsProofs` | That due dates, balances, the date repair and the corrections put back are right for every input. |
| `MC...` | Values for TLC's constants. |

`StatementDuplicates` and `IngestionRun` describe the same worker from two
sides. The first treats a file as one step and follows it for its whole life;
the second opens that step up and follows it until it is committed.
`Recategorization` follows what both leave out, a transaction's category;
`RecurringPayments` and `Accounts` the other rows a file writes. `WorkerLoop` puts
the branches of the poll loop in order and treats as one step what the modules
above describe. `Backfill` is the one program that replaces what all of them
have built up.

### StatementDuplicates

| Variable | In the code |
|---|---|
| `held`, `earlier`, `corrected` | `bank_statements`, the order of `processed_at`, and the number of transactions with category source `manual` |
| `known`, `matched` | `known_files.state` and `matched_statement_hash`, per content hash |
| `pairs` | `duplicate_pairs`: status, the copy proposed to keep, whether removal is allowed |
| `jobs` | `statement_removal_jobs` in the order of `requested_at` |
| `fresh`, `recheck`, `scanned` | `duplicate_scan_state` as `is_pair_scan_due_now` reads it: statements processed since the last scan started, a re-check requested since, the fingerprint of the settings last used |
| `worker` | the process: where in `poll_once` it is, its job, what its scan has read, the settings it read when it started |
| `api` | requests between the read and the write of `confirm_removal` and `dismiss_pair` |

One action is one committed transaction, or the reads made before one.
`process_next_removal` commits the claim, re-verifies, commits the deletion
(one transaction: cascade, known file, pair, job) and commits each cleanup
attempt; `run_pair_scan` reads everything, then flushes and commits once; an API
handler that checks and then writes is two actions. Two places deserve a
remark.

* **The scan writes what it decided, not what it sees.** SQLAlchemy loads the
  pair rows at the scan's start and emits `UPDATE ... WHERE id = ...` with the
  changed columns when it flushes. `ScanRead` therefore stores a plan and
  `ScanCommit` applies it to whatever the rows hold by then (`Applied`): a
  refresh does not touch the status, a supersession does.
* **Ingesting a file is one step** here. While the worker ingests, no scan and
  no removal runs, and what the API can commit meanwhile (an override, a
  dismissal) only concerns files that are remembered or pairs that are recorded,
  not a file that is neither.

Abstractions: the matching rule is the constants `Duplicate[s]` and
`Comparable[s]`, the pairs flagged and the pairs close enough in size for a
removal, under the settings `s`. The several queries of one scan are one atomic
read. Corrections are counted per statement. A run's list of files is left out:
any file of the folder may come next.

### IngestionRun and RunLedger

| Variable | In the code |
|---|---|
| `runs` | `ingestion_runs`: status, whether `cancel_requested_at` is set, the counters |
| `rows` | `ingestion_run_files`: the outcome recorded for each file, and which worker inserted the row |
| `held` | `bank_statements`, the content hashes committed |
| `worker`, `session` | per worker, where in `process_run` it is, the run's row as its session has loaded it, and the statement its session has flushed and not committed |
| `api` | requests between the check and the write of `start_run` and `cancel_run` |

* **What is selected is written by primary key, later.** `FindQueuedRun` and `ClaimRun`
  are the SELECT and the UPDATE of `claim_next_queued_run`, `StartWorker` and
  `FailStaleRun` those of `fail_stale_runs`. While a rolling update has two workers up,
  both may find a run and claim it, and a run that one of them ends may be failed by the
  other. Nothing in the model keeps them apart but what the database does: the partial
  unique index on active runs and the unique content hash.
* **The session keeps the run it has loaded** until a commit expires it (`loaded`,
  `LoadRun`). `update_run_progress` adds to a counter it has loaded, and an assignment
  that does not change the loaded value writes nothing (`Assigned`). Only the
  cancellation is asked of the database each time.

`RunLedger` has the committed rows only: opening a run when none is active,
recording a file with its statement in one step, closing a run for good.
`Ledger == INSTANCE RunLedger WITH ...` maps both active statuses to one, and
`LedgerSpec` says that every step of the detailed module is a step of the ledger
or a stutter. A half-written file that becomes visible, a second active run or a
row without its statement is none.

What a listing returns, which files cannot be read and which are remembered or found to
be probable duplicates are constants (`Listing`, `Unreadable`, `Remembered`) and free
choices within them; a file whose content is held may always be skipped. Statements are
never deleted here; removals do not run while a run does, and are in
`StatementDuplicates`.

### Recategorization

| Variable | In the code |
|---|---|
| `txns` | `transactions`: `category_id` and `category_source`; source `none` is a row not yet ingested |
| `disagreements` | `categorization_disagreements`, by transaction |
| `jobs`, `proposals` | `recategorization_jobs` and `recategorization_proposals`, by job and candidate |
| `scan` | the worker: its job, the category it proposes, the candidates it still has to look at, and what its session has flushed and not committed |
| `api` | requests in flight: the rows loaded, what will be written to each, which of them are flushed |
| `touched` | history: the transactions requests have written since the job began to read |

`correct_transaction_category` writes the correction and queues a job in one
transaction. The job (`recategorize_unsure_from_precedent`) reads its source, lists
the unsure transactions that await no review, applies or proposes its match to
each, lists what awaits review once more, flags the source's neighbours in other
categories (or, without any, the best text match) and commits once, at its end:
`ClaimJob`, `ReadSource`, `ListUnsure`, `MatchUnsure`, `ListPending`,
`FlagNeighbours`, `FlagBestText`, `CompleteJob`. Each is a query or a flush of its
own, and requests commit in between.

* **The ORM's UPDATE writes the columns that differ from what was loaded.**
  A request loads a row (`seen`), assigns a category and a source, and its UPDATE
  leaves out a column that already had its new value. `Assign` is that UPDATE
  applied to the row as it is by then, so that two overlapping requests may leave
  the category of one with the source of the other.
* **What is flushed is locked.** The rows a job has applied its match to, and those
  a bulk review has flushed, are invisible until the commit, and another UPDATE of
  them waits (`MayFlush`, `RowIsFree`). A deadlock between two bulk reviews ends by
  the database rolling one back (`DropRequest`).
* **Two ways to fail.** An exception in a job is caught and committed as a failure
  together with what the session had flushed (`JobRaises`). If the session itself is
  unusable, recording the failure raises too: everything is rolled back and the job
  stays `running` until the worker restarts (`SessionFails`).

Abstractions: similarity scores, thresholds and buckets are left out; which match
is found, and whether it is applied or proposed, is a choice. A proposal is
identified by its job and its candidate, which a job proposes at most once. The
removal of a statement, which deletes its transactions, and the order of the poll
loop's branches are not part of this module. That a job eventually runs is not
either; it belongs to the poll loop.

### RecurringPayments

| Variable | In the code |
|---|---|
| `payments` | `recurring_payments`: whether the row exists, its schedule, whether it is trusted |
| `matches`, `flushed` | `recurring_payment_matches` committed, and those in the worker's savepoint |
| `ingested` | the transactions of committed statements |
| `suggestions` | `detection_suggestions`, one per pattern |
| `worker` | the file in hand: the transactions left, the payments listed, the payment about to be matched |
| `api` | requests between loading a row and writing it |
| `resolutions`, `overlapped` | history: how often an item was resolved, and those two requests held at once |

`match_new_transaction` lists the payments, asks `has_live_match` and inserts, in
steps of its own, because approvals and deletions commit in between; the partial
unique index of migration 0007 is `IndexRefuses`. Schedules, dates and amounts are
the functions `CycleOf` and `PatternOf`; the date arithmetic behind `CycleOf` is in
`DueDates`. Which payment matches best is a choice.

### Accounts

`accounts`, `keyOf`, `anchors` and `sections` are the four tables; `worker` is the file
being ingested and the rows its transaction has pinned, `api` the requests with
the rows they hold locked. A request locks what it names in id order
(`lock_accounts`) and does the rest in that transaction. The worker resolves a
section by reading its key without a lock; its first flush, and the foreign key of
each section it inserts, take the share lock that meets a request's. The session returns
an account it holds as it was when the file first read it (`AsLoaded`), so that the type
rules may look at a choice of the user's that is no longer the last. A
merge may absorb an account before it is pinned, and `AccountGone` is the foreign key
that then refuses. `BreakDeadlock` is PostgreSQL ending a wait between a request
and a file.

### Backfill

A statement stands for its one transaction: old or re-read (`converted`), with the
text it reads as, its category, whether the user set it, and whether it is marked
embedded. The tool's steps are those of `run_backfill`; the dry run fixes the wipe
set and the planned skips, the backup is a snapshot, and the wipe, the
pre-registration of skips, the recreation of the collection, the reset of the
statuses and the start of the reingest run are apart, with a crash possible after
each. The worker service is stopped while the tool runs (`backfill/__main__.py:9` says
so; the actions of `Service` require it to run). The reingest reads every PDF of the
folder, which may read otherwise or fail, or be a copy of one that is held: of the copies
found any may be the best match, the file is skipped if that one is comparable and not
dismissed, and it is ingested if not (`IngestFile`), or if the search itself raises, which
is logged and ignored (`IngestUnchecked`). `Finish` uses `Corrections` for every
statement; the corrections of a planned skip are carried to the copy that is kept
in its stead. Overrides and removals are left to `StatementDuplicates`.

### WorkerLoop

`due` is the set of branches with work, `worker` the branch that is asked next with what
it holds. `PollOnce` asks, serves, or passes on. The removal and the pair scan are
guarded: their exception is logged and the cycle goes on to the next branch, and
`poisoned` is the set of those that raise whenever they are served. The backup reads
the date twice (`CheckBackup`, `StartBackup`) and talks to Drive in steps; an upload
whose answer is lost is repeated by `retry_with_backoff`. The embedding backlog lists,
computes, stores each vector at once and commits the statuses at the end of both
batches; a batch is a set, worked off in the order of its query (`Age`, the order of
`created_at`). A payment is renamed by a request that loads it and writes it later; a
row the batch has flushed is locked until its commit.

### Algorithms

| Module | The code | Compared with |
|---|---|---|
| `DueDates` | `recurring_payments/cycle.py` of both services | the nearest of all due dates; the last one passed; each other |
| `StatementMatching` | pairing and verdict of `duplicates/matching.py` | the largest one-to-one matching over all subsets of pairs |
| `Balances` | `balances/` of the API | the lookup against the series; the anchor alone against the nearest known balance |
| `Extraction` | date repair, validation and refusal of `extraction/service.py` | the printed document that was misread |
| `Corrections` | `apply_corrections` of `backfill/corrections.py` | the largest number of corrections that fit by text |

`StatementMatching` is recursive (Kuhn's augmenting paths), so only TLC evaluates it.

## The runs

A run's name is that of its `.cfg`.

| Run | Instance | Shows |
|---|---|---|
| `StatementDuplicates_safety` | three copies of one statement, two removals, a crash, an exception, two settings | types; remembered files are not held; no content lost; a removal keeps the other copy; a pair reads removed exactly when a job deleted |
| `StatementDuplicates_liveness` | two copies, two concurrent requests, a removal with two cleanup attempts, corrections, a crash, two settings, no exceptions | no decided pair is reopened; every job ends; duplicates get listed |
| `IngestionRun_safety` | one worker, two requests, two runs, a crash, an exception, one statement uploaded twice; 447 000 states | the committed rows implement the ledger; counters match rows |
| `IngestionRun_liveness` | two workers that overlap in a rolling update, two runs of one file, a crash, no exceptions; 232 000 states | a statement is held once, with one row that says processed, also when both workers claim one run; runs end; cancelling takes effect on a run that one worker has |
| `Recategorization_safety` | two transactions, UNSURE and one category, two jobs, two requests, any number of crashes and unusable sessions | types; a transaction is proposed once; a row marked unsure is in UNSURE; a job overwrites only rows it raced with, proposes its own source only after such a race; its count is that of its proposals |
| `RecurringPayments_safety` | three transactions in two files and two cycles, two schedules, two overlapping requests | a file fails on the match index only after a race; an item is resolved once unless two requests overlapped; a settled cycle stays settled |
| `Accounts_safety` | two accounts, two keys, a statement that prints them in the other order, two overlapping requests | sections hang on the account their key leads to; requests never wait for each other; a user's type survives every file that had not read it before |
| `Calculations_edges` | some 70 000 inputs, those of `Verdicts` included | the algorithms agree with their references |
| `Backfill_safety` | three copies, any two of a user's step, a fault, a crash and a restore; 770 000 states | no statement is lost; what is marked embedded has a vector; corrections are backed up before they are wiped and come back; dismissals are honoured |
| `WorkerLoop_cycle` | one transaction, two payments, two days of two hours, two user steps, one fault, any of the guarded branches poisoned | vectors fit their rows; a backup belongs to its day; a success stays on Drive until newer files displace it; every backlog drains |

Two runs check what the documentation says and the code does not keep.
Each has one property and TLC finds it violated; `PROJECT.json` quotes the text under
"findings".

| Run | What is claimed | What happens |
|---|---|---|
| `StatementDuplicates_dismissal` | a decision is final | a dismissal that lands during a scan becomes superseded |
| `RecurringPayments_delete` | a payment can be deleted and its matches remain | the ORM clears their NOT NULL foreign key, and the deletion fails |

### Known disagreements

These definitions state a documented rule that the code breaks too. They have no run;
to see the counterexample, name one as the INVARIANT or PROPERTY of a `.cfg` of its
module.

| Definition | What is claimed | What happens |
|---|---|---|
| `StatementDuplicates!RemovalIsRemembered` | a removed copy is remembered as `confirmed_duplicate` | a row left by an earlier override stays `overridden` (worker `duplicates/repository.py:170`), and the next run ingests the removed file |
| `StatementDuplicates!NoUnacknowledgedLoss` | no more corrections are deleted than acknowledged | one committed between re-verification and deletion is (`removal.py:135`) |
| `IngestionRun!FailedRunsAreOrphaned` | a run active at startup is orphaned (`orchestrator/repository.py:31`) | in a rolling update its worker still runs, and completes a failed run |
| `Recategorization!ManualNeverOverwritten` | automatic categorization never overwrites a manual category | a correction that lands while a job holds the transaction in its list is overwritten (`categorization/service.py:365`) |
| `Recategorization!NeverUnsureBySimilarity` | unsure transactions are no precedents | the embedding search takes one (`categorization/service.py:146`); its successor is stored in UNSURE with source `similarity`, out of reach of later jobs |
| `Accounts!UserTypeKept` | no extraction changes a type the user set (BR-34) | one that read the account before the user set it does |
| `Verdicts!EqualFirstLosesNothing` | pairing equal descriptions first cannot change the count (`matching.py:12`) | it can, when an equal description is the only partner of another |
| `Backfill!CarriedNeverOverwrites` | a carried correction is applied only where none is (`business-rules.md:346`) | one that finds its text replaces the kept copy's own (`backfill/corrections.py:179`) |
| `Backfill!RerunRepairs` | an interrupted backfill may be run again (WR-52, WR-55) | a second run does not empty the collection or reset the statuses when nothing is left to wipe (`backfill/service.py:240`) |

Others were met while modelling and are part of the modelled behaviour, or of what it leaves out:

* BR-23: a match or suggestion is resolved once. Two overlapping requests resolve it
  twice; nothing locks the row. The same goes for proposals.
* BR-22: a dismissed suggestion does not come back. A request that loaded it earlier may
  still add it after the dismissal.
* A payment renamed while a batch computes its vector is marked embedded with the old
  name's vector (`raced` in `WorkerLoop`). A change of its expected amount does not reset the
  status although the amount is part of the embedded text (AR-22 against WR-29).
* Removing a duplicate deletes the recurring match of its transaction; the copy
  that is kept is never matched again.
* Two workers of a rolling update may both claim a run. Each then records its files,
  the counters are those one of them wrote last, and one of them may complete the run
  after the other was cancelled or has failed it. `ingestion-worker-deployment.yaml:4`
  warns of it ("would double-process ingestion runs") of two replicas; the default
  update strategy of its Deployment makes two for a moment. `CountersMatchRows` and
  `LedgerSpec` are therefore claimed for one worker at a time only.
* The first purchase of a section is committed as read, even if its date has a second
  reading (`extraction/service.py:293`). If the model misread it, the ambiguous
  dates that follow are drawn after it, up to the first that can be read one way only;
  read as a date in the future, it is left out.
* An exception outside the `try` of `process_run` leaves the run active until the
  worker restarts (`pipeline.py:70`, `:121`).
* A merge and a file that prints both accounts in the other order may wait for each
  other (`accounts/repository.py:88` considers two merges only); one of them fails.
* `_has_monthly_cadence` accepts a group in which any one gap is about a month.
* The similarity of descriptions (`difflib`) is not symmetric, and a statement
  that names an account twice is compared with the last of its closing balances: the
  verdict may then depend on which statement comes first (WR-58).
* When a whole document is read month first its `statement_date` is not swapped with
  it; the repair relies on the statement date lying at most 45 days after the last
  trusted line, and on lines less than about four weeks apart.
* The worker rounds half to even, the API half up.
* Backfill: corrections made between the snapshot and the wipe are lost and
  dismissals made after the dry run ignored; a run the user queues meanwhile makes
  the start of the reingest fail on the unique index after the wipe; `finish`
  overwrites a correction made since the reingest.
* A detection scan that raises in every cycle starves the pair scan and the embedding
  backlog, since it is not guarded.

### Bounds

`MaxJobs`, `MaxCorrections`, `MaxCrashes`, `MaxFaults`, `MaxEvents`, `MaxRequests`,
`MaxDays` and the finite sets of identities bound what a user does and what goes wrong;
they appear in guards only.
`EmbeddingAttempts` is a parameter of the code (five there, one or two here).
Three copies are the smallest set in which a skipped file's match can itself be
removed in favour of a third, which is what `NoStatementLost` is about; the
second job is that removal, or the retry of a failed one. Two requests are enough
for every race between a check and a write, because a request touches one pair.
Two settings are needed for the rule to change while the worker is down: three
copies are pairs under the loose one and not under the strict one. Initially any
set of statements is held, in any order, because detection is installed in a
running system (migration 0020).
Two files are needed for a content that is uploaded twice; in the liveness run
one file suffices, because cancelling concerns a run with a file not yet begun,
two runs list it twice, and two workers that claimed one run both have it before them.
There it is always listed and can be read: what it would add is in the safety run.

In `Recategorization` nothing needs a bound but the identities: a crash leaves a
job `running`, the restart fails it, and no job is run twice. Its properties
relate one transaction to a job and to the requests that write it: two
transactions give a job a source and a candidate, two jobs the second correction
that could propose the candidate again, two requests every overlap of two
writers, and a bulk review of two proposals. UNSURE and one category suffice to
tell an assigned row from an unsure one, and a source whose category has changed
from one that has not. Transactions, jobs and requests are interchangeable, so
the run is checked up to their permutation; it has no liveness property.

In `RecurringPayments` two files of one cycle are what competes for its one live
match, two transactions of one file what the index could refuse within a savepoint,
and a second schedule what moves a transaction to another cycle when the payment is edited.
In `Accounts` two accounts are what a merge needs and what can be locked in two
orders. `Backfill` needs three copies for a chain of skips; two events are a crash
and a rerun, a late correction and a crash, or a restore after a fault. The instance
of `WorkerLoop` is small in each of its halves because they multiply: a transaction
batch and a payment batch of two are enough for a batch that fails in its middle, two
days and one kept file for a backup that displaces another.

`Calculations_edges` covers, for due dates, every day of a winter with a leap day under
due days that months lack; for the matching, all graphs between three and three
descriptions, all directed similarities of three, and short statements with every
combination of accounts and closing balances; for balances, every placement of two closings and two
transactions around an anchor; for series, ranges from and to the edges of months; for
extraction, three lines around the turn of the year misread in every way, the first
included; for
corrections, up to two rows and three corrections.

### Fairness

`StatementDuplicates` assumes weak fairness of `Removal`, of `Scan` and of the
restart; `IngestionRun` of a worker's processing and of starting one. The poll
loop (`run_forever`) calls `poll_once` for ever and each branch runs when those
before it find nothing; the Deployment restarts a worker that exits. That a
removal or a scan gets its turn also assumes that the user does not queue
ingestion runs for ever: the bounded number of user actions is that assumption.
`WorkerLoop` assumes weak fairness of `PollOnce` and of the restart, for the same reasons.
Users and outages are bounded there, so `BacklogsDrain` says what remains once they
stop: everything is served and stays so, except a guarded branch that raises whenever
it is served, and that one keeps nobody waiting. The other modules assume none.
Nothing is assumed of the user, of requests in flight, of crashes or of faults.
The two liveness runs have no exceptions, because with one a job or a run does
stay where it is until the worker restarts: `RunRaises` leaves a run active, and
`RemovalRaises` a job `running`.

The runs of `IngestionRun` and `Backfill` switch the deadlock check off: once the run
identities or the events are used up, the system rests. `Calculations` stops after
its one step.

## Proofs

### StatementDuplicates

For any finite or infinite set of files, any settings, requests and bounds, from
`ConstantsAssumption` alone.

| Theorem | Says |
|---|---|
| `TypeCorrectness` | `TypeOK` |
| `RememberedIsNotHeld` | `RememberedNotHeld` |
| `NothingIsLost` | `NoStatementLost` |
| `VerificationHolds` | `VerifiedIsSafe` |
| `RemovalIsRecorded` | `RemovedIffDeleted` |
| `OtherCopyIsKept` | `RemovalKeepsTheOtherCopy` |
| `DecisionsStay` | `NeverReopened` |

`StatementDuplicatesProofs` proves `TypeInv`, which is `TypeOK` with the facts
its steps need: a job that exists has a pair and removes a member of it, the
worker's job is a job that exists whenever it is at a removal step, a recorded
pair keeps one of its members.

It then proves `SafetyInv`, the conjunction of `TypeInv` and six
named parts, inductive. They need one another. The deletion is the step that
could lose a content, and the chain of `NoStatementLost` survives it because the
other copy is held (`VerifiedIsSafe`), which holds at that step because the
other statements are only deleted by the worker itself and because a scan, which
could change the copy to keep, does not run during a removal. The chain never
loops because a new link points at a held statement and `RememberedNotHeld` says
that no remembered file is held. `RemovedIffDeleted` needs `JobFollowsWorker` (a
crash or restart finds the job of a deletion already past `running`) and
`PlanStillFits` (a scan that was under way cannot have planned to write a pair a
removal has since decided). `NeverReopened` and `RemovalKeepsTheOtherCopy` are
then facts about single steps from a state that satisfies `SafetyInv`.

`NoStatementLost` speaks of sets rather than of paths: every nonempty set of
remembered files has a member whose match lies outside it and is held,
overridden or remembered. For finitely many files that is the same as every chain
ending, it needs no recursion, and it is inductive.

### Recategorization

For any finite set of transactions, any categories, jobs and requests, from
`RecategorizationAssumption` alone. Every property of `Recategorization_safety`
is proved.

| Theorem | Says | By |
|---|---|---|
| `RowsHaveTypes` | `TypeOK` | itself inductive |
| `EndedJobsStay` | `JobsEndOnce` | `TypeOK` |
| `OnePendingProposal` | `AtMostOnePending` | `PendingInv` |
| `SelfProposalsAreRaced` | `OnlyRacedSelfProposals` | `RaceInv` |
| `OnlyRacesLoseRows` | `OnlyRacedRowsLost` | `RaceInv` |
| `CountsMatch` | `CountMatchesProposals` | `ReviewInv` |
| `UnsureRowsAreUnsure` | `UnsureMeansUnsure` | `WriteInv` |

`PendingInv` says that what the job in hand is about to look at, or has proposed
without committing, awaits no review: it is listed so, and no other job runs
meanwhile. `RaceInv` is about stale reads: what the job applies, or is about to
look at, was unsure when listed and is so still unless a request is recorded in
`touched`, and until then the source is as it was read. `ReviewInv` says that a
job's proposals appear with its end and that a review in flight writes proposals
that were pending when it loaded them, so that it can neither create an applied
proposal nor remove one. `WriteInv` says that a request which is about to write a
row that is unsure has seen it unsure; since it assigns another source, its UPDATE
includes that column. For this no row may become unsure after the request loaded
it, which holds because only ingestion makes rows unsure and the row exists already
(`RowsExist`, which needs proposals and disagreements to be about rows that exist).

### IngestionRun

For any finite folder, any runs, workers, requests, crashes and faults, from
`RunAssumption` alone.

| Theorem | Says | By |
|---|---|---|
| `TypeCorrectness` | `TypeOK` | `TypeInv`: a worker that has begun a file has it in hand |
| `StatementsFollowRows` | `StatementsMatchRows` | `HeldInv` |
| `CountersFollowRows` | `~RollingUpdate => (Spec => []CountersMatchRows)` | `SoloInv` |
| `RunImplementsLedger` | `~RollingUpdate => (Spec => LedgerSpec)` | `SoloInv`, and a step of the ledger or a stutter for each step |

The first two hold with a rolling update too, whoever claims what. `HeldInv` says that a
session holds the statement of the file it has written and nothing else (`SessionFits`),
so that what `fail_run` commits with the status is empty, and that the unique content
hash refuses what another worker has committed: a commit adds a statement and its one
row, or a row that says something else. Rows of one run and file may be two then, one
per worker, and are told apart by who inserted them.

The other two are false when two workers overlap, and are proved for one at a time.
`SoloInv` adds that at most one worker is up (`OneWorker`) and at most one run active
(`OneActive`), that the counters of each run are those of its rows (`Table`), and what
the worker has in hand at each step (`Hand`): its run is the active one, its copy of the
row, where it has one, is the row, and what was found is what is recorded together with
what remains. The commit of a file moves it from one to the other. The step that needs
most is the recovery at startup: it fails a run that it has selected before, and which is
still the active one because nobody else could end it.

### WorkerLoop

For any rows, batch sizes, schedules, days, requests and faults, from
`WorkerAssumption` alone.

| Theorem | Says | By |
|---|---|---|
| `TypeCorrectness` | `TypeOK` | `TypeInv`: a backup under way has a date |
| `BackupsBelongToTheirDay` | `BackupsLandOnTheirDay` | `BackupInv` |
| `EmbeddedRowsFit` | `VectorsFit` | `VectorInv` |
| `SuccessesAreKept` | `SuccessesStayOnDrive` | `DriveInv` |

`BackupInv` carries the due check to the record. Before `run_backup` reads the date it
is at or after the hour of the schedule, or midnight has passed since the check
(`CheckedInTime`, which `Tick` keeps in both its cases); afterwards the same holds of
the hour and the date that were read (`AttemptedInTime`), and every outcome records
those. `VectorInv` carries a name from the listing to the commit: a listed entry has
the name its row has (`BatchFits`), the entry just stored has its row's vector
(`StoredFits`: `Age` has no ties, so the entry that is marked is the one that was
stored), and a marked row has it until the commit (`MarksFit`). A rename could break any of
the three. It waits while the row is marked, which is locked; and a row that is in the
batch, or that completed since the request loaded it as pending, is in `raced`.

`DriveInv` says that the files on Drive are in the order of their days, none of a day
later than today or than the upload in hand (`FilesInOrder`, `FilesPast`,
`UploadIsLatest`). A success is then on Drive, or `Displaced`: the file `RetentionCount`
from the end is of a later day. That is inductive because an upload appends and
retention, finished or broken off, keeps a prefix and the newest `RetentionCount` files,
in their order; and with the files in order, what it says of one file is true of the
`RetentionCount` files after it, which is the property.

### Accounts

For any accounts, keys, statements and requests, from `AccountsAssumption` alone.
Every property of `Accounts_safety` is proved.

| Theorem | Says | By |
|---|---|---|
| `SectionsKeepTheirKeys` | `SectionsFollowKeys` | `AccountsInv` |
| `RequestsDoNotDeadlock` | `RequestsNeverDeadlock` | `AccountsInv` |
| `UsersTypeStays` | `UserTypeKeptUnlessRaced` | `TypesInv` |

The argument for the sections is that what the worker has pinned cannot be merged away
before the commit. What it has only resolved can: `Resolutions` says that such a key
leads to another account by then, and to the resolved one as long as that is kept. At
the commit everything resolved is pinned, `PinnedStay` makes it kept, and so its key
leads to it. A merge holds both its accounts, and no transaction holds what another
has pinned (`LocksFit`). That a statement lists an account once needs `NewOnce` for the
accounts a file creates, and the refusal of a merge of two accounts on one statement.
`LockOrder` says that what a request holds has smaller ids than what it has yet to
lock; two requests that wait for each other would have to be ordered both ways.
`TypesInv` follows a type from the section it was read in to the commit: the account
is in `read` with it, so that any later choice of the user is in `raced`, and a choice
the worker's copy does not show is one of those (`LearnedTypes`), and the accounts the file creates are blank until then.

### RecurringPayments

For any payments, transactions, files, schedules and patterns and any finite set of
requests, from `PaymentsAssumption` alone. Every property of `RecurringPayments_safety`
is proved.

| Theorem | Says | By |
|---|---|---|
| `RowsHaveTypes` | `TypeOK` | `TypeInv`: what the worker and each request hold at each step |
| `OnlyRacesFailFiles` | `FilesFailOnlyWhenRaced` | `FailInv` |
| `NothingIsOfferedAgain` | `ResolvedOnceUnlessRaced` | `ReviewInv` |
| `SettledCyclesStayMatched` | `SettledCyclesStay` | `TypeInv`, as a fact about single steps |

`FailInv` says that until a request deletes a payment or approves a match, the payments
listed are there and the one about to be matched has no live match (`ListedAreKept`,
`ChosenIsFree`). `ReviewInv` follows an item that requests hold for review. What one of
them holds is pending, and two that hold it have overlapped (`HeldIsPending`,
`TwoHoldersOverlap`); what is held by one alone, or may still be offered, has not been
resolved (`HeldIsUnresolved`, `OpenIsUnresolved`). Of an item that several hold, every
holder may resolve it, hence `OncePerHolder`: resolutions and holders together are never
more than the requests. That a match is not made a second time after its review needs
`TablesFit`: what is matched is of the file in hand, whose transactions are not yet
ingested, and what is committed is of ingested ones.

### Backfill

For any finite set of statements, any ranks, duplicate pairs, plans, texts and starts,
from `BackfillAssumption` alone.

| Theorem | Says | By |
|---|---|---|
| `EmbeddedIsEmbedded` | `EmbeddedHasVector` | itself inductive, with `Types` |
| `CorrectionsAreBackedUp` | `CorrectionsBackedUp` | `PlanInv` |
| `DismissalsAreHonoured` | `DismissalsHonoured` | `PlanInv` |
| `NothingIsWipedForGood` | `NoStatementLost` | `LossInv` |
| `OwnCorrectionsComeBack` | `OwnCorrectionsReturn` | `PlanInv` and `CategoryInv` |

`Types` leaves the category of a row open, which only the last theorem needs. `PlanInv` carries the dry
run to the wipe. While a plan is carried out the worker is stopped (`WorkerIsStopped`);
a planned skip is of a file to be wiped, as the copy of a held one, over a pair not
dismissed before the plan (`SkipsAreCopies`); the backup holds what will be wiped, except
what the user has corrected since (`BackupHoldsWipe`).

`LossInv` is about sets, as in `StatementDuplicates`. The wipe is the step that could lose
something: it deletes many statements at once, and a planned skip then refers from one
wiped file to another. A set of files that referred only to itself would do so along the
skips, and each of those leads to a copy that is better in the order by which the plan
chose: corrected by hand first, then rank. A correction made between plan and wipe may
reverse that order between two copies, which is why `SkipsImprove` says only that there
is some set of corrected files for which every skip improves: the one at the time of
the plan. `BestOfAny` finds the best member of a nonempty set, whose skip must leave it.
`HeldIsNoCopy` and `SavedNotLost` say the same of the backup, for the restore.

`CategoryInv` says that every category is one of the user's or the automatic one, in the
backup too, and that the backup holds every statement it says was wiped: without that,
what `finish` puts back would not be known to be a correction at all, and the order in
which corrections are placed would not be one. Of the corrections for a statement,
however they are listed (`AllAreListed`), its own is the only one that is not carried
over from a skipped copy. It therefore precedes all others of its text, has the first
turn, and the statement's one row is at the first position (`OwnIsPlaced`).

### Calculations

For every input, from five assumptions about inputs. Four are what the code has checked
by then or the database guarantees: schedules the API accepts and dates of the calendar
(`InputsAssumption`; years are any integers, where those of `datetime.date` go from 1 to
9999); accounts whose rows have the types of their columns, and finitely many of them
(`BooksAssumption`); ranges the API does not refuse (`SeriesAssumption`);
rows and corrections with numbers for categories (`PlacingAssumption`). The fifth,
`ReadingAssumption`, nothing guarantees: that a statement was read as printed except that
some or all dates were read month first, which is the error the repair is written for. TLC
evaluates them on the inputs of the run, which checks the same properties under `AskSpec`, the specification
that also asks for comparisons of statements.

| Theorem | Says |
|---|---|
| `WorkerAndApiAgree` | `DueDatesAgree` |
| `SeriesAndLookupAgree` | `SeriesIsLookup` |
| `UnlistedIsExplained` | `DiscrepanciesExplain` |
| `MisreadDatesReturn` | `DatesRecovered` |
| `CorrectionsComeBack` | `CorrectionsReturn` |

**Due dates.** Both services' arithmetic is put in terms of *periods*: the months counted on through the
years, or the years (`PeriodOf`, and `DueIn` for the due date of a period). A date lies
after the start of its period and not after the start of the next (`DateInPeriod`), and
the starts are in order (`StartsInOrder`, from the lengths of months and years with the
rule for leap years), so that due dates, one in each period, are too
(`DueDatesInOrder`). The due dates of the periods before and after a date's own lie
before and after it (`NeighboursAround`). The worker's two candidates are therefore the
two between which the date lies (`AdjacentIsDue`, which has to see that a due day the
month lacks and a date in the last days of that month do not send it the wrong way), all
others lie behind them, and the nearer is the nearest of all. The API's is the one period
whose due date has passed while the next one's has not (`LatestIsDue`), and there is
only one such period (`SameCycle`), which is why the two services agree on the cycle.

**Balances.** Sums are over finite sets, so they are reasoned about by the size of the
set: `SetsBySize` is an induction that needs no operator as parameter, by the least size
of a counterexample. What a series has added up to a day (`RunningTotal`) is what the
lookup's query nets between its reference and that day (`QueriedNet`), for both
directions of the query; that a nearest reference exists is `LeastMember` and
`ReferenceIsChosen`. For the discrepancy view, the difference between a printed balance
and the anchor is carried from each statement to the next as long as no gap is listed
(`NoGapNoChange`); a gap is of any size there, so what is said of printed balances
holds of an empty list at tolerance 0, the setting's default, and not of one at a
larger tolerance. The points of a monthly series are due dates: month ends are what a
monthly schedule on day 31 is due on (`CursorIs`, `MonthEndsOfRange`), so that the lemmas
about due dates say that none is missing and none is doubled.

**Date repair.** The two readings of a date, day first and month first, are 27 days apart
at least (`ReadingsApart`), if it has two, and the property is about statements printed
in date order with gaps of 26 days at most. Any line may have been misread, the first of
a section too. What follows such a first line cannot be told until a purchase has one
reading only (`ReadFirmly`): from there on the reading that continues the section is the
printed one, line by line (`LineFollowed`, `SectionFollowed`), whichever lines were swapped. Of
what stands before it only this is used, that every line keeps one of its two readings
(`ChosenIsARead`). The lines that can be told (`Settled`) are the ones the theorem is about;
the validation of the whole document keeps what was recovered of them (`DatesAreKept`),
with the two cases of a document misread throughout (`WhollyRecovered`) and in part
(`PartlyRecovered`). That each section has such a line that is kept is the property's
premise: without one the document might be refused as empty.

**Corrections.** Rows and corrections are named by their positions. The order in which
corrections are placed is total (`PrecedesIsOrder`), and in a finite total order the
number of predecessors runs through all ranks once (`RanksAreAll`), so that each turn
comes to one correction and each position to one row (`TurnsAreRanks`,
`PositionsAreRanks`). The statement's own corrections have the first turns
(`RanksOfFirst`), which counts what returns (`FirstReturn`). That a second `finish`
changes nothing (`AppliedTwice`) is because it sees the same texts, hence the same turns,
and the strict fallback finds its one row holding already what it would put there.

### What is not proved

Only model-checked: the liveness properties (`EveryJobFinishes`, `DuplicatesGetListed`,
`EveryRunFinishes`, `CancelTakesEffect`, `BacklogsDrain`: the prover does no liveness), and
`MatchingIsComplete` of `Verdicts`, whose augmenting paths are recursive operators. Every
other property of a run that passes is proved for every value of the constants.

## Plan

Done: every module of the list above, and proofs of every safety and action property but
`MatchingIsComplete`. Left:

1. `StatementMatching` without recursive operators, as a first step to proving
   `MatchingIsComplete`.
2. The recurring matches and account sections of a removed statement, composed with
   `StatementDuplicates`.

## Not modelled

Currency conversion caches one rate per day and currency. Settings, categories,
costs, dashboards, health and the assistant read committed rows or write single ones.
Authentication and the Drive connection exchange tokens with Google. Frontend, model
training, scripts and deployment render, train or install, except for the worker's
rolling update. Of the external clients, Drive's backup calls, the embedding endpoint
and the vector store are modelled by what they may answer and by the retry; of
extraction, prompts and the model's call are not. The text a row is embedded from is
its name only: amount and direction, which are part of it, are left out. A backup
folder that is created twice after a lost answer is too.
