----------------------------- MODULE WorkerLoop -----------------------------
(***************************************************************************)
(* The worker's poll loop (main.py), with the two branches that no other   *)
(* module models: the nightly backup (backup/service.py) and the embedding *)
(* backlog (embedding/service.py), and with the API renaming and deleting  *)
(* the rows the backlog reads.                                             *)
(*                                                                         *)
(* A cycle asks the branches in order, each in a session of its own, and   *)
(* serves the first that has work.  What a run, a job, a removal or a scan *)
(* does is in IngestionRun, Recategorization, StatementDuplicates and      *)
(* RecurringPayments; here it is one step that takes the work away.        *)
(***************************************************************************)
EXTENDS Naturals, Sequences, FiniteSets

CONSTANTS
    Transaction,     \* rows of transactions
    Payment,         \* rows of recurring_payments, which the API renames
    Age,             \* Age[r]: the order of the rows' creation
    Name,            \* what is embedded: a description or a payment's name
    FirstName,       \* the name every row starts with
    NoName,          \* the vector store has no point for a row
    BatchSize,       \* embedding_batch_size
    ScheduleHour,    \* backup_schedule_hour
    RetentionCount,  \* backup_retention_count
    LastHour,        \* an hour runs over 0..LastHour
    MaxDays,         \* bound: the days the clock may show
    MaxRequests,     \* bound: what users do
    MaxFaults        \* bound: crashes, refused calls and failed statements

Row == Transaction \cup Payment
Day == 1..MaxDays

ASSUME WorkerAssumption ==
    /\ Age \in [Row -> Nat] /\ \A r, s \in Row : Age[r] = Age[s] => r = s
    /\ Transaction \cap Payment = {}
    /\ FirstName \in Name /\ NoName \notin Name
    /\ BatchSize \in Nat \ {0} /\ RetentionCount \in Nat \ {0}
    /\ LastHour \in Nat /\ ScheduleHour \in 0..LastHour
    /\ MaxDays \in Nat \ {0} /\ MaxRequests \in Nat /\ MaxFaults \in Nat

\* The branches that are one step here, and those whose exceptions poll_once
\* swallows.
Branch == {"run", "job", "removal", "detection", "pairScan"}
Guarded == {"removal", "pairScan"}

\* The branch asked when one had nothing to do.
NextBranch == [run |-> "job", job |-> "removal", removal |-> "backup",
               backup |-> "detection", detection |-> "pairScan",
               pairScan |-> "embedding"]

VARIABLES
    clock,      \* [day, hour]
    due,        \* the branches with work
    poisoned,   \* the guarded branches that raise whenever they are served
    rows,       \* Row -> [name, status]; status is absent, pending or completed
    vectors,    \* the vector store: Row -> the name its vector was computed from
    drive,      \* the days of the backup files on Drive, oldest first
    backups,    \* backup_runs: Day -> [outcome, hour, checked]
    worker,     \* where the cycle is, and what it holds
    request,    \* the API request renaming a payment
    raced,      \* history: payments renamed under a batch
    left        \* [requests, faults] still allowed

vars == <<clock, due, poisoned, rows, vectors, drive, backups, worker, request,
          raced, left>>

NoBackup == [outcome |-> "none", hour |-> 0, checked |-> 0]
NoRequest == [row |-> NoName, name |-> NoName, status |-> "absent"]

\* A worker at a branch holds nothing.
AtBranch(b) == [at |-> b, date |-> 0, checked |-> 0, hour |-> 0,
                batch |-> {}, marked |-> {}, kind |-> "none"]
CycleStart == AtBranch("run")

Init ==
    /\ clock = [day |-> 1, hour |-> 0]
    /\ due = {"detection", "pairScan"}
    /\ poisoned \in SUBSET Guarded
    /\ rows = [r \in Row |-> [name |-> FirstName, status |-> "pending"]]
    /\ vectors = [r \in Row |-> NoName]
    /\ drive = <<>>
    /\ backups = [d \in Day |-> NoBackup]
    /\ worker = CycleStart
    /\ request = NoRequest
    /\ raced = {}
    /\ left = [requests |-> MaxRequests, faults |-> MaxFaults]

Ask == left.requests > 0 /\ left' = [left EXCEPT !.requests = @ - 1]
Fault == left.faults > 0 /\ left' = [left EXCEPT !.faults = @ - 1]

----------------------------------------------------------------------------
(* One cycle.                                                              *)

\* The branch has nothing to do: the cycle asks the next one.
FindNothing(b) ==
    /\ worker.at = b /\ b \notin due
    /\ worker' = AtBranch(NextBranch[b])
    /\ UNCHANGED <<clock, due, poisoned, rows, vectors, drive, backups, request, raced, left>>

\* A finished run or removal changes the statements the pair scan compares.
Follows(b) == IF b \in {"run", "removal"} THEN {"pairScan"} ELSE {}

\* The branch is served and ends the cycle.
Serve(b) ==
    /\ worker.at = b /\ b \in due \ poisoned
    /\ due' = (due \ {b}) \cup Follows(b)
    /\ worker' = CycleStart
    /\ UNCHANGED <<clock, poisoned, rows, vectors, drive, backups, request, raced, left>>

\* Slip: the exception is not swallowed and ends the cycle.
RaiseEndsCycle(b) == CycleStart

\* A removal or a pair scan raises: its session is rolled back, so it stays
\* due, and the cycle goes on.
AfterRaise(b) == AtBranch(NextBranch[b])

GuardedBranchRaises(b) ==
    /\ b \in Guarded \cap poisoned
    /\ worker.at = b /\ b \in due
    /\ worker' = AfterRaise(b)
    /\ UNCHANGED <<clock, due, poisoned, rows, vectors, drive, backups, request, raced, left>>

\* Any other branch raises: the cycle ends and the branch stays due.
BranchRaises(b) ==
    /\ b = "detection" /\ Fault
    /\ worker.at = b /\ b \in due
    /\ worker' = CycleStart
    /\ UNCHANGED <<clock, due, poisoned, rows, vectors, drive, backups, request, raced>>

----------------------------------------------------------------------------
(* The nightly backup.                                                     *)

\* Slip: the schedule hour is not asked.
DueAllDay == backups[clock.day] = NoBackup

BackupDue == clock.hour >= ScheduleHour /\ backups[clock.day] = NoBackup

CheckBackup ==
    /\ worker.at = "backup"
    /\ worker' = IF BackupDue THEN [AtBranch("backing") EXCEPT !.checked = clock.day]
                              ELSE AtBranch("detection")
    /\ UNCHANGED <<clock, due, poisoned, rows, vectors, drive, backups, request, raced, left>>

\* run_backup reads the date again.
StartBackup ==
    /\ worker.at = "backing"
    /\ worker' = [worker EXCEPT !.at = "uploading", !.date = clock.day, !.hour = clock.hour]
    /\ UNCHANGED <<clock, due, poisoned, rows, vectors, drive, backups, request, raced, left>>

\* The upload is retried when its answer is lost, and then leaves two files.
Upload ==
    /\ worker.at = "uploading"
    /\ \/ drive' = Append(drive, worker.date) /\ UNCHANGED left
       \/ drive' = drive \o <<worker.date, worker.date>> /\ Fault
    /\ worker' = [worker EXCEPT !.at = "retaining"]
    /\ UNCHANGED <<clock, due, poisoned, rows, vectors, backups, request, raced>>

\* Slip: the sort is not reversed, and the oldest are kept.
OldestKept(files) == SubSeq(files, 1, RetentionCount)

Newest(files) ==
    SubSeq(files, Len(files) - RetentionCount + 1, Len(files))
Retained(files) == IF Len(files) > RetentionCount THEN Newest(files) ELSE files

Recorded(outcome) ==
    /\ backups[worker.date] = NoBackup
    /\ backups' = [backups EXCEPT ![worker.date] =
                     [outcome |-> outcome, hour |-> worker.hour, checked |-> worker.checked]]
    /\ worker' = CycleStart

EnforceRetention ==
    /\ worker.at = "retaining"
    /\ drive' = Retained(drive)
    /\ Recorded("success")
    /\ UNCHANGED <<clock, due, poisoned, rows, vectors, request, raced, left>>

\* A Drive call gives up, perhaps after it has had its effect: the attempt is
\* recorded as failed and not repeated that day.  Deletions go newest first.
LeftByFailure ==
    LET stale == Len(drive) - RetentionCount IN
    IF worker.at = "uploading" THEN {drive, Append(drive, worker.date)}
    ELSE IF stale <= 0 THEN {drive}
    ELSE {SubSeq(drive, 1, k) \o Newest(drive) : k \in 0..stale}

BackupFails ==
    /\ Fault
    /\ worker.at \in {"uploading", "retaining"}
    /\ drive' \in LeftByFailure
    /\ Recorded("failed")
    /\ UNCHANGED <<clock, due, poisoned, rows, vectors, request, raced>>

\* The row itself is refused: run_backup raises and the day stays due.
BackupUnrecorded ==
    /\ Fault
    /\ worker.at \in {"uploading", "retaining"}
    /\ worker' = CycleStart
    /\ UNCHANGED <<clock, due, poisoned, rows, vectors, drive, backups, request, raced>>

----------------------------------------------------------------------------
(* The embedding backlog.                                                  *)

RowsOf(kind) == IF kind = "transactions" THEN Transaction ELSE Payment
Pending(kind) == {r \in RowsOf(kind) : rows[r].status = "pending"}

Oldest(kind) == {r \in Pending(kind) : Cardinality({s \in Pending(kind) : Age[s] < Age[r]}) < BatchSize}

\* The oldest pending rows, with the names they have now.
PendingBatch(kind) == {[row |-> r, name |-> rows[r].name] : r \in Oldest(kind)}

\* All the vectors are computed, from the names listed, before the first is stored.
ListPending(kind) ==
    /\ \/ worker.at = "embedding" /\ kind = "transactions"
       \/ worker.at = "storing" /\ worker.kind = "transactions" /\ worker.batch = {}
            /\ kind = "payments"
    /\ worker' = [worker EXCEPT !.at = "storing", !.kind = kind, !.batch = PendingBatch(kind)]
    /\ UNCHANGED <<clock, due, poisoned, rows, vectors, drive, backups, request, raced, left>>

\* The batch is worked off in the order of its query.
FirstInBatch(e) == e \in worker.batch /\ \A f \in worker.batch : Age[e.row] <= Age[f.row]

\* The vector is stored at once; the status waits for the commit.
Upsert(e) ==
    /\ worker.at = "storing" /\ FirstInBatch(e)
    /\ vectors' = [vectors EXCEPT ![e.row] = e.name]
    /\ worker' = [worker EXCEPT !.at = "marking"]
    /\ UNCHANGED <<clock, due, poisoned, rows, drive, backups, request, raced, left>>

\* The row may have been deleted: then the flush fails and with it the batch.
MarkEmbedded(e) ==
    /\ worker.at = "marking" /\ FirstInBatch(e)
    /\ worker' = IF rows[e.row].status = "absent" THEN CycleStart
                 ELSE [worker EXCEPT !.at = "storing", !.marked = @ \cup {e.row},
                                     !.batch = @ \ {e}]
    /\ UNCHANGED <<clock, due, poisoned, rows, vectors, drive, backups, request, raced, left>>

CommitMarks ==
    /\ rows' = [r \in Row |-> IF r \in worker.marked
                              THEN [rows[r] EXCEPT !.status = "completed"] ELSE rows[r]]
    /\ worker' = CycleStart

FinishBatch ==
    /\ worker.at = "storing" /\ worker.kind = "payments" /\ worker.batch = {}
    /\ CommitMarks
    /\ UNCHANGED <<clock, due, poisoned, vectors, drive, backups, request, raced, left>>

\* The endpoint or the store is unavailable: what was done so far is kept.
StopEarly ==
    /\ Fault
    /\ worker.at = "storing" /\ worker.batch # {}
    /\ CommitMarks
    /\ UNCHANGED <<clock, due, poisoned, vectors, drive, backups, request, raced>>

----------------------------------------------------------------------------
(* Users, through the API.                                                 *)

\* An ingestion, a job or a removal is asked for.
Queue(b) ==
    /\ Ask /\ b \in {"run", "job", "removal"} \ due
    /\ due' = due \cup {b}
    /\ UNCHANGED <<clock, poisoned, rows, vectors, drive, backups, worker, request, raced>>

\* A payment is loaded, to be given a name it does not have.
LoadPayment(p, n) ==
    /\ Ask
    /\ request = NoRequest
    /\ rows[p].status # "absent" /\ n # rows[p].name
    /\ request' = [row |-> p, name |-> n, status |-> rows[p].status]
    /\ UNCHANGED <<clock, due, poisoned, rows, vectors, drive, backups, worker, raced>>

\* The batch has read the row's name and has not committed its status.
InBatch(p) == \E e \in worker.batch : e.row = p

\* Slip: a rename does not reset the status.
StatusLeftAlone(p) == rows[p].status

\* The status is written only when it differs from the one that was loaded.
RenamedStatus(p) ==
    IF request.status = "pending" THEN rows[p].status ELSE "pending"

Overtaken(p) ==
    InBatch(p) \/ (request.status = "pending" /\ rows[p].status = "completed")

\* The UPDATE waits for a batch that has marked the row.
RenamePayment ==
    LET p == request.row IN
    /\ request # NoRequest /\ rows[p].status # "absent" /\ p \notin worker.marked
    /\ rows' = [rows EXCEPT ![p] = [name |-> request.name, status |-> RenamedStatus(p)]]
    /\ raced' = IF Overtaken(p) THEN raced \cup {p} ELSE raced \ {p}
    /\ request' = NoRequest
    /\ UNCHANGED <<clock, due, poisoned, vectors, drive, backups, worker, left>>

RenameFails ==
    /\ request # NoRequest /\ rows[request.row].status = "absent"
    /\ request' = NoRequest
    /\ UNCHANGED <<clock, due, poisoned, rows, vectors, drive, backups, worker, raced, left>>

\* A payment is deleted; its vector stays behind.
DeletePayment(p) ==
    /\ Ask
    /\ rows[p].status # "absent" /\ p \notin worker.marked
    /\ rows' = [rows EXCEPT ![p].status = "absent"]
    /\ UNCHANGED <<clock, due, poisoned, vectors, drive, backups, worker, request, raced>>

----------------------------------------------------------------------------
(* The clock, and the process.                                             *)

\* The detection scan is due again when its interval has passed.
Tick ==
    /\ \/ clock.hour < LastHour /\ clock' = [clock EXCEPT !.hour = @ + 1] /\ UNCHANGED due
       \/ /\ clock.hour = LastHour /\ clock.day < MaxDays
          /\ clock' = [day |-> clock.day + 1, hour |-> 0]
          /\ due' = due \cup {"detection"}
    /\ UNCHANGED <<poisoned, rows, vectors, drive, backups, worker, request, raced, left>>

\* Uncommitted statuses go with the process; vectors and files stay.
Crash ==
    /\ worker.at # "down" /\ Fault
    /\ worker' = AtBranch("down")
    /\ UNCHANGED <<clock, due, poisoned, rows, vectors, drive, backups, request, raced>>

\* recover_stale_state: a run or a job left over is failed; a queued removal is kept.
Restart ==
    /\ worker.at = "down"
    /\ due' = due \ {"run", "job"}
    /\ worker' = CycleStart
    /\ UNCHANGED <<clock, poisoned, rows, vectors, drive, backups, request, raced, left>>

PollOnce ==
    \/ \E b \in Branch : FindNothing(b) \/ Serve(b) \/ GuardedBranchRaises(b)
    \/ CheckBackup \/ StartBackup \/ Upload \/ EnforceRetention
    \/ \E kind \in {"transactions", "payments"} : ListPending(kind)
    \/ \E e \in worker.batch : Upsert(e) \/ MarkEmbedded(e)
    \/ FinishBatch

Failure ==
    \/ \E b \in Branch : BranchRaises(b)
    \/ BackupFails \/ BackupUnrecorded \/ StopEarly \/ Crash

User ==
    \/ \E b \in Branch : Queue(b)
    \/ \E p \in Payment, n \in Name : LoadPayment(p, n)
    \/ \E p \in Payment : DeletePayment(p)
    \/ RenamePayment \/ RenameFails

Next == PollOnce \/ Restart \/ Failure \/ User \/ Tick

Spec == Init /\ [][Next]_vars

\* The loop never stops of itself, and the process is restarted.
FairSpec == Spec /\ WF_vars(PollOnce) /\ WF_vars(Restart)

----------------------------------------------------------------------------
(* Properties.                                                             *)

WorkerAt == Branch \cup {"backup", "backing", "uploading", "retaining", "embedding",
                         "storing", "marking", "down"}
Entry == [row : Row, name : Name]
Status == {"absent", "pending", "completed"}
BackupRow == [outcome : {"none", "success", "failed"}, hour : 0..LastHour, checked : 0..MaxDays]
WorkerState == [at : WorkerAt, date : 0..MaxDays, checked : 0..MaxDays, hour : 0..LastHour,
                batch : SUBSET Entry, marked : SUBSET Row, kind : {"none", "transactions", "payments"}]

\* The rows and the local states have their types.
TypeOK ==
    /\ clock \in [day : Day, hour : 0..LastHour]
    /\ due \subseteq Branch /\ poisoned \subseteq Guarded
    /\ rows \in [Row -> [name : Name, status : Status]]
    /\ vectors \in [Row -> Name \cup {NoName}]
    /\ drive \in Seq(Day)
    /\ backups \in [Day -> BackupRow]
    /\ worker \in WorkerState
    /\ request \in {NoRequest} \cup [row : Payment, name : Name, status : Status]
    /\ raced \subseteq Payment
    /\ left \in [requests : Nat, faults : Nat]

\* A row marked embedded has the vector of the name it bears, whatever batch
\* was interrupted, cut short or rolled back; the exception is a payment
\* renamed while a batch held it (embedding/service.py, process_next_embedding_batch).
VectorsFit ==
    \A r \in Row \ raced : rows[r].status = "completed" => vectors[r] = rows[r].name

\* A backup that a day is charged with was attempted at or after that day's
\* schedule hour, unless midnight fell between the due check and run_backup,
\* which reads the date for itself (backup/service.py).
BackupsLandOnTheirDay ==
    \A d \in Day : backups[d] # NoBackup =>
        backups[d].hour >= ScheduleHour \/ backups[d].checked < d

\* A backup recorded as a success is on Drive until RetentionCount files of
\* later days have displaced it, whatever uploads were doubled or left behind
\* by failed attempts (backup/service.py, _enforce_retention).
SuccessesStayOnDrive ==
    \A d \in Day : backups[d].outcome = "success" =>
        \/ \E i \in DOMAIN drive : drive[i] = d
        \/ Cardinality({i \in DOMAIN drive : drive[i] > d}) >= RetentionCount

\* Once users ask for nothing more and the outages are over, every branch with
\* work is served and no row is left pending, though a removal or a pair scan
\* may raise in every cycle (main.py, poll_once: WR-65).
BacklogsDrain ==
    <>[](due \subseteq poisoned /\ \A r \in Row : rows[r].status # "pending")
=============================================================================
