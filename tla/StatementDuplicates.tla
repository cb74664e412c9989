------------------------ MODULE StatementDuplicates ------------------------
(***************************************************************************)
(* The life of a bank statement under probable-duplicate detection.        *)
(*                                                                         *)
(* Two programs share the database and nothing else.  The ingestion worker *)
(* is one process, one step of its poll loop at a time: it ingests files,  *)
(* scans held statements for duplicate pairs, and carries out removals.    *)
(* The API service serves the user's decisions in concurrent requests.     *)
(* Every action below is one committed transaction, or the reads a         *)
(* transaction makes before its writes; the gaps between them are where    *)
(* the other program's commits land.                                       *)
(***************************************************************************)
EXTENDS Naturals, FiniteSets

CONSTANTS
    Hash,               \* content hashes of the files in the Drive folder
    NoHash,             \* "no statement"
    Request,            \* API requests that can be in flight at once
    Setting,            \* values of the detection settings
    Duplicate,          \* Duplicate[s]: pairs the matching rule flags under s
    Comparable,         \* Comparable[s]: pairs of comparable size under s
    EmbeddingAttempts,  \* EMBEDDING_ATTEMPTS
    MaxCorrections,     \* bound: manual corrections per statement
    MaxJobs,            \* bound: removal jobs ever requested
    MaxCrashes,         \* bound: worker crashes
    MaxFaults           \* bound: exceptions raised inside the worker

Pair == {p \in SUBSET Hash : \E a, b \in Hash : a # b /\ p = {a, b}}

ASSUME ConstantsAssumption ==
    /\ NoHash \notin Hash
    /\ Setting # {}
    /\ Duplicate \in [Setting -> SUBSET Pair]
    /\ Comparable \in [Setting -> SUBSET Pair]
    /\ EmbeddingAttempts \in Nat \ {0}
    /\ {MaxCorrections, MaxJobs, MaxCrashes, MaxFaults} \subseteq Nat

VARIABLES
    held,       \* bank_statements: the hashes of the statements held
    earlier,    \* <<a, b>>: a was ingested before b (processed_at)
    corrected,  \* manual category corrections on each held statement
    known,      \* known_files.state, per hash
    matched,    \* known_files.matched_statement_hash
    pairs,      \* duplicate_pairs, per pair of hashes
    jobs,       \* statement_removal_jobs, in the order requested
    fresh,      \* held statements processed after the last scan started
    recheck,    \* recheck_requested_at is later than last_scan_started_at
    scanned,    \* the setting the last completed scan recorded
    worker,     \* the worker process: where it is and what it has read
    api,        \* API requests in flight: what each has read
    crashes, faults

statementVars == <<held, earlier, corrected, fresh>>
knownVars == <<known, matched>>
scanVars == <<recheck, scanned>>
faultVars == <<crashes, faults>>
vars == <<statementVars, knownVars, pairs, jobs, scanVars, worker, api, faultVars>>

----------------------------------------------------------------------------
(* Rows and local states.                                                  *)

RememberedState == {"probable_duplicate", "confirmed_duplicate"}
KnownState == RememberedState \cup {"none", "overridden"}

DecidedStatus == {"dismissed", "removed", "superseded"}
PairStatus == DecidedStatus \cup {"absent", "pending"}
PairRow == [status : PairStatus, keep : Hash \cup {NoHash}, allowed : BOOLEAN]
NoPair == [status |-> "absent", keep |-> NoHash, allowed |-> FALSE]

JobId == 1..MaxJobs
ActiveStatus == {"queued", "running", "embeddings_pending"}
DeletedStatus == {"embeddings_pending", "completed", "embeddings_failed"}
JobStatus == ActiveStatus \cup DeletedStatus \cup {"absent", "failed"}
JobRow == [status : JobStatus, pair : Pair \cup {{}}, remove : Hash \cup {NoHash},
           acknowledged : 0..MaxCorrections, attempts : Nat]
NoJob == [status |-> "absent", pair |-> {}, remove |-> NoHash,
          acknowledged |-> 0, attempts |-> 0]

Effect == {"none", "insert", "refresh", "supersede"}
PlannedWrite == [effect : Effect, keep : Hash \cup {NoHash}, allowed : BOOLEAN]
NoWrite == [effect |-> "none", keep |-> NoHash, allowed |-> FALSE]
NoPlan == [p \in Pair |-> NoWrite]

\* "rest" is the part of poll_once after the removal branch, reached when that
\* branch raised; job 0 is no job; left counts the cleanup attempts remaining.
WorkerStep == {"down", "idle", "rest", "claimed", "verified", "cleanup", "parking", "scanning"}
WorkerState == [step : WorkerStep, job : JobId \cup {0}, left : Nat,
                plan : [Pair -> PlannedWrite], late : BOOLEAN,
                setting : Setting, enabled : BOOLEAN]

RequestState == [op : {"idle", "dismiss", "confirm"}, pair : Pair \cup {{}},
                 remove : Hash \cup {NoHash}, acknowledged : 0..MaxCorrections]
Idle == [op |-> "idle", pair |-> {}, remove |-> NoHash, acknowledged |-> 0]

----------------------------------------------------------------------------
(* What the queries return.                                                *)

Remembered == {h \in Hash : known[h] \in RememberedState}
Overridden == {h \in Hash : known[h] = "overridden"}

Other(p, h) == CHOOSE k \in p : k # h

HasActiveJob(p) == \E j \in JobId : jobs[j].pair = p /\ jobs[j].status \in ActiveStatus

\* The keep rule: the copy carrying corrections; if neither or both, the
\* earlier ingested (no two statements share a processed_at here).
KeptCopy(p) ==
    LET carrying == {h \in p : corrected[h] > 0}
        contenders == IF carrying # {} THEN carrying ELSE p
    IN  CHOOSE h \in contenders : \A k \in contenders \ {h} : <<h, k>> \in earlier

Flagged == {p \in Duplicate[worker.setting] : p \subseteq held \ Overridden}

\* Mutant of ScanDue: a scan is not repeated when the settings changed.
ScanDueIgnoringSettings == worker.enabled /\ (scanned = "never" \/ recheck \/ fresh # {})

ScanDue ==
    /\ worker.enabled
    /\ scanned # worker.setting \/ recheck \/ fresh # {}

\* The branch order of poll_once: queued jobs first, oldest first.
Queued == {j \in JobId : jobs[j].status = "queued"}
AwaitingCleanup == {j \in JobId : jobs[j].status = "embeddings_pending"}
NextJob ==
    LET candidates == IF Queued # {} THEN Queued ELSE AwaitingCleanup
    IN  {j \in candidates : \A i \in candidates : j <= i}

\* Mutant of AttemptsLeft: the difference is not clamped.
AttemptsLeftUnclamped(j) == EmbeddingAttempts - jobs[j].attempts

AttemptsLeft(j) ==
    IF jobs[j].attempts < EmbeddingAttempts THEN EmbeddingAttempts - jobs[j].attempts ELSE 1

GoTo(s) == [worker EXCEPT !.step = s]
GoIdle == [worker EXCEPT !.step = "idle", !.job = 0, !.left = 0, !.plan = NoPlan, !.late = FALSE]
SetJob(j, s) == jobs' = [jobs EXCEPT ![j].status = s]

----------------------------------------------------------------------------
(* Worker: one file of an ingestion run.  Nothing the API can commit while *)
(* a file is processed changes what check 1 or check 2 finds for a file    *)
(* that is neither held nor remembered, so a file is one step.             *)

\* Check 2: held statements the incoming file would be a duplicate of.
ProbableDuplicatesOf(h) ==
    {k \in held : /\ worker.enabled
                  /\ h \notin Overridden
                  /\ {h, k} \in Duplicate[worker.setting]
                  /\ pairs[{h, k}].status # "dismissed"}

\* Mutant of Ingestible: check 1 consults the held statements only.
IngestibleForgetting(h) == worker.step = "idle" /\ h \notin held

Ingestible(h) ==
    /\ worker.step = "idle"
    /\ h \notin held
    /\ h \notin Remembered

SkipProbableDuplicate(h) ==
    /\ Ingestible(h)
    /\ known[h] = "none"
    /\ \E k \in ProbableDuplicatesOf(h) :
          /\ known' = [known EXCEPT ![h] = "probable_duplicate"]
          /\ matched' = [matched EXCEPT ![h] = k]
    /\ UNCHANGED <<statementVars, pairs, jobs, scanVars, worker, api, faultVars>>

Persist(h) ==
    /\ held' = held \cup {h}
    /\ earlier' = earlier \cup (held \X {h})
    /\ fresh' = fresh \cup {h}
    /\ UNCHANGED <<corrected, knownVars, pairs, jobs, scanVars, worker, api, crashes>>

IngestFile(h) ==
    /\ Ingestible(h)
    /\ ProbableDuplicatesOf(h) = {}
    /\ Persist(h)
    /\ UNCHANGED faults

\* The duplicate check raises and the file is ingested as usual.
IngestUnchecked(h) ==
    /\ Ingestible(h)
    /\ ProbableDuplicatesOf(h) # {}
    /\ faults < MaxFaults
    /\ faults' = faults + 1
    /\ Persist(h)

----------------------------------------------------------------------------
(* Worker: a removal job.                                                  *)

ClaimRemoval(j) ==
    /\ worker.step = "idle"
    /\ j \in NextJob /\ jobs[j].status = "queued"
    /\ SetJob(j, "running")
    /\ worker' = [worker EXCEPT !.step = "claimed", !.job = j]
    /\ UNCHANGED <<statementVars, knownVars, pairs, scanVars, api, faultVars>>

\* Mutant of SafeToDelete: the other copy is not looked up again.
SafeToDeleteTrustingThePair(job) ==
    LET pair == pairs[job.pair]
    IN  /\ pair.status = "pending" /\ pair.allowed
        /\ job.remove \in job.pair \cap held
        /\ pair.keep = Other(job.pair, job.remove)
        /\ corrected[job.remove] <= job.acknowledged

SafeToDelete(job) ==
    LET pair == pairs[job.pair]
        keep == Other(job.pair, job.remove)
    IN  /\ pair.status = "pending"
        /\ pair.allowed
        /\ job.remove \in job.pair
        /\ job.remove \in held
        /\ keep \in held
        /\ pair.keep = keep
        /\ corrected[job.remove] <= job.acknowledged

Reverify ==
    /\ worker.step = "claimed"
    /\ \/ /\ SafeToDelete(jobs[worker.job])
          /\ worker' = GoTo("verified")
          /\ UNCHANGED jobs
       \/ /\ ~SafeToDelete(jobs[worker.job])
          /\ SetJob(worker.job, "failed")
          /\ worker' = GoIdle
    /\ UNCHANGED <<statementVars, knownVars, pairs, scanVars, api, faultVars>>

\* Mutant of Remember: the copy that is removed is recorded as its own match.
RememberItself(h, k) ==
    /\ known' = [known EXCEPT ![h] = IF @ = "none" THEN "confirmed_duplicate" ELSE @]
    /\ matched' = [matched EXCEPT ![h] = IF known[h] = "none" THEN h ELSE @]

\* known_files rows are inserted, never overwritten.
Remember(h, k) ==
    /\ known' = [known EXCEPT ![h] = IF @ = "none" THEN "confirmed_duplicate" ELSE @]
    /\ matched' = [matched EXCEPT ![h] = IF known[h] = "none" THEN k ELSE @]

DeleteStatement ==
    LET job == jobs[worker.job]
    IN  /\ worker.step = "verified"
        /\ held' = held \ {job.remove}
        /\ earlier' = {e \in earlier : job.remove \notin {e[1], e[2]}}
        /\ corrected' = [corrected EXCEPT ![job.remove] = 0]
        /\ fresh' = fresh \ {job.remove}
        /\ Remember(job.remove, Other(job.pair, job.remove))
        /\ pairs' = [pairs EXCEPT ![job.pair].status = "removed"]
        /\ SetJob(worker.job, "embeddings_pending")
        /\ worker' = [worker EXCEPT !.step = "cleanup", !.left = AttemptsLeft(worker.job)]
        /\ UNCHANGED <<scanVars, api, faultVars>>

\* The deletion raises: its savepoint is rolled back and the job failed.
DeleteFails ==
    /\ worker.step = "verified"
    /\ faults < MaxFaults
    /\ faults' = faults + 1
    /\ SetJob(worker.job, "failed")
    /\ worker' = GoIdle
    /\ UNCHANGED <<statementVars, knownVars, pairs, scanVars, api, crashes>>

ResumeCleanup(j) ==
    /\ worker.step = "idle"
    /\ j \in NextJob /\ jobs[j].status = "embeddings_pending"
    /\ worker' = [worker EXCEPT !.step = "cleanup", !.job = j, !.left = AttemptsLeft(j)]
    /\ UNCHANGED <<statementVars, knownVars, pairs, jobs, scanVars, api, faultVars>>

CleanupAttempt ==
    LET j == worker.job
    IN  /\ worker.step = "cleanup"
        /\ \/ /\ jobs' = [jobs EXCEPT ![j].attempts = @ + 1, ![j].status = "completed"]
              /\ worker' = GoIdle
           \/ /\ jobs' = [jobs EXCEPT ![j].attempts = @ + 1]
              /\ worker' = [worker EXCEPT !.left = @ - 1,
                                          !.step = IF worker.left = 1 THEN "parking" ELSE "cleanup"]
        /\ UNCHANGED <<statementVars, knownVars, pairs, scanVars, api, faultVars>>

ParkEmbeddings ==
    /\ worker.step = "parking"
    /\ SetJob(worker.job, "embeddings_failed")
    /\ worker' = GoIdle
    /\ UNCHANGED <<statementVars, knownVars, pairs, scanVars, api, faultVars>>

\* An exception escapes the removal handler (a query, a commit or the recovery
\* from a failed deletion raises): poll_once logs it and goes on.
RemovalRaises ==
    /\ worker.step \in {"claimed", "verified", "cleanup", "parking"}
    /\ faults < MaxFaults
    /\ faults' = faults + 1
    /\ worker' = [GoIdle EXCEPT !.step = "rest"]
    /\ UNCHANGED <<statementVars, knownVars, pairs, jobs, scanVars, api, crashes>>

EndCycle ==
    /\ worker.step = "rest"
    /\ worker' = GoIdle
    /\ UNCHANGED <<statementVars, knownVars, pairs, jobs, scanVars, api, faultVars>>

----------------------------------------------------------------------------
(* Worker: the pair scan.  The session loads the stored pairs once and     *)
(* writes what it decided from them when it flushes, by primary key.       *)

ScanWriteFor(p) ==
    LET proposal(e) == [effect |-> e, keep |-> KeptCopy(p),
                        allowed |-> p \in Comparable[worker.setting]]
    IN  CASE p \in Flagged /\ pairs[p].status = "absent" -> proposal("insert")
          [] p \in Flagged /\ pairs[p].status = "pending" -> proposal("refresh")
          [] p \notin Flagged /\ pairs[p].status = "pending" -> [NoWrite EXCEPT !.effect = "supersede"]
          [] OTHER -> NoWrite

ScanRead ==
    /\ \/ worker.step = "idle" /\ NextJob = {}
       \/ worker.step = "rest"
    /\ ScanDue
    /\ worker' = [worker EXCEPT !.step = "scanning", !.late = FALSE,
                                !.plan = [p \in Pair |-> ScanWriteFor(p)]]
    /\ UNCHANGED <<statementVars, knownVars, pairs, jobs, scanVars, api, faultVars>>

\* Mutant of Applied: a refresh writes the whole row as it was read.
AppliedAsRead(row, write) ==
    CASE write.effect \in {"insert", "refresh"} ->
            [status |-> "pending", keep |-> write.keep, allowed |-> write.allowed]
      [] write.effect = "supersede" -> [row EXCEPT !.status = "superseded"]
      [] OTHER -> row

Applied(row, write) ==
    CASE write.effect = "insert" -> [status |-> "pending", keep |-> write.keep, allowed |-> write.allowed]
      [] write.effect = "refresh" -> [row EXCEPT !.keep = write.keep, !.allowed = write.allowed]
      [] write.effect = "supersede" -> [row EXCEPT !.status = "superseded"]
      [] OTHER -> row

ScanCommit ==
    /\ worker.step = "scanning"
    /\ pairs' = [p \in Pair |-> Applied(pairs[p], worker.plan[p])]
    /\ scanned' = worker.setting
    /\ recheck' = worker.late
    /\ fresh' = {}
    /\ worker' = GoIdle
    /\ UNCHANGED <<held, earlier, corrected, knownVars, jobs, api, faultVars>>

\* A scan that raises is rolled back and stays due.
ScanRaises ==
    /\ worker.step = "scanning"
    /\ faults < MaxFaults
    /\ faults' = faults + 1
    /\ worker' = GoIdle
    /\ UNCHANGED <<statementVars, knownVars, pairs, jobs, scanVars, api, crashes>>

----------------------------------------------------------------------------
(* Worker: the process.  Settings are read once, when it starts.           *)

Crash ==
    /\ worker.step # "down"
    /\ crashes < MaxCrashes
    /\ crashes' = crashes + 1
    /\ worker' = [GoIdle EXCEPT !.step = "down"]
    /\ UNCHANGED <<statementVars, knownVars, pairs, jobs, scanVars, api, faults>>

\* Mutants of Restart: every active job is failed, or none is.
RestartFailingAll(s, on) ==
    /\ worker.step = "down"
    /\ jobs' = [j \in JobId |-> IF jobs[j].status \in ActiveStatus
                                THEN [jobs[j] EXCEPT !.status = "failed"] ELSE jobs[j]]
    /\ worker' = [GoIdle EXCEPT !.setting = s, !.enabled = on]
    /\ UNCHANGED <<statementVars, knownVars, pairs, scanVars, api, faultVars>>
RestartFailingNone(s, on) ==
    /\ worker.step = "down"
    /\ worker' = [GoIdle EXCEPT !.setting = s, !.enabled = on]
    /\ UNCHANGED <<statementVars, knownVars, pairs, jobs, scanVars, api, faultVars>>

\* fail_stale_removal_jobs at startup.
Restart(s, on) ==
    /\ worker.step = "down"
    /\ jobs' = [j \in JobId |-> IF jobs[j].status = "running"
                                THEN [jobs[j] EXCEPT !.status = "failed"] ELSE jobs[j]]
    /\ worker' = [GoIdle EXCEPT !.setting = s, !.enabled = on]
    /\ UNCHANGED <<statementVars, knownVars, pairs, scanVars, api, faultVars>>

----------------------------------------------------------------------------
(* API: the user's decisions.                                              *)

CheckConfirm(r, p) ==
    LET remove == Other(p, pairs[p].keep)
    IN  /\ api[r] = Idle
        /\ pairs[p].status = "pending"
        /\ pairs[p].allowed
        /\ ~HasActiveJob(p)
        /\ p \subseteq held
        /\ api' = [api EXCEPT ![r] = [op |-> "confirm", pair |-> p, remove |-> remove,
                                      acknowledged |-> corrected[remove]]]
        /\ UNCHANGED <<statementVars, knownVars, pairs, jobs, scanVars, worker, faultVars>>

\* The insert; the partial unique index refuses a second active job.
InsertJob(r) ==
    /\ api[r].op = "confirm"
    /\ \/ /\ HasActiveJob(api[r].pair)
          /\ UNCHANGED jobs
       \/ /\ ~HasActiveJob(api[r].pair)
          /\ \E j \in JobId :
                /\ \A i \in JobId : jobs[i].status = "absent" <=> i >= j
                /\ jobs' = [jobs EXCEPT ![j] =
                      [status |-> "queued", pair |-> api[r].pair, remove |-> api[r].remove,
                       acknowledged |-> api[r].acknowledged, attempts |-> 0]]
    /\ api' = [api EXCEPT ![r] = Idle]
    /\ UNCHANGED <<statementVars, knownVars, pairs, scanVars, worker, faultVars>>

CheckDismiss(r, p) ==
    /\ api[r] = Idle
    /\ pairs[p].status # "absent"
    /\ ~HasActiveJob(p)
    /\ api' = [api EXCEPT ![r] = [Idle EXCEPT !.op = "dismiss", !.pair = p]]
    /\ UNCHANGED <<statementVars, knownVars, pairs, jobs, scanVars, worker, faultVars>>

\* One conditional UPDATE: only a pending pair is dismissed.
WriteDismiss(r) ==
    /\ api[r].op = "dismiss"
    /\ pairs' = IF pairs[api[r].pair].status = "pending"
                THEN [pairs EXCEPT ![api[r].pair].status = "dismissed"] ELSE pairs
    /\ api' = [api EXCEPT ![r] = Idle]
    /\ UNCHANGED <<statementVars, knownVars, jobs, scanVars, worker, faultVars>>

\* "Not a duplicate -- ingest it".
Override(h) ==
    /\ h \in Remembered
    /\ known' = [known EXCEPT ![h] = "overridden"]
    /\ UNCHANGED <<statementVars, matched, pairs, jobs, scanVars, worker, api, faultVars>>

RequestRecheck ==
    /\ recheck' = TRUE
    /\ worker' = [worker EXCEPT !.late = worker.step = "scanning"]
    /\ UNCHANGED <<statementVars, knownVars, pairs, jobs, scanned, api, faultVars>>

\* A manual category correction, and an approved proposal that replaces one.
CorrectTransaction(h) ==
    /\ h \in held
    /\ corrected[h] < MaxCorrections
    /\ corrected' = [corrected EXCEPT ![h] = @ + 1]
    /\ UNCHANGED <<held, earlier, fresh, knownVars, pairs, jobs, scanVars, worker, api, faultVars>>

ReplaceCorrection(h) ==
    /\ h \in held
    /\ corrected[h] > 0
    /\ corrected' = [corrected EXCEPT ![h] = @ - 1]
    /\ UNCHANGED <<held, earlier, fresh, knownVars, pairs, jobs, scanVars, worker, api, faultVars>>

----------------------------------------------------------------------------
(* Specification.                                                          *)

\* The orders in which a set of statements may have been ingested.
IngestionOrders(S) ==
    {R \in SUBSET (S \X S) :
        /\ \A a, b \in S : a # b => (<<a, b>> \in R <=> <<b, a>> \notin R)
        /\ \A a, b, c \in S : <<a, b>> \in R /\ <<b, c>> \in R => <<a, c>> \in R
        /\ \A a \in S : <<a, a>> \notin R}

\* Detection is installed in a database that may hold statements already.
Init ==
    /\ held \in SUBSET Hash /\ earlier \in IngestionOrders(held) /\ fresh = held
    /\ corrected = [h \in Hash |-> 0]
    /\ known = [h \in Hash |-> "none"]
    /\ matched = [h \in Hash |-> NoHash]
    /\ pairs = [p \in Pair |-> NoPair]
    /\ jobs = [j \in JobId |-> NoJob]
    /\ recheck = FALSE /\ scanned = "never"
    /\ \E s \in Setting, on \in BOOLEAN :
          worker = [step |-> "idle", job |-> 0, left |-> 0, plan |-> NoPlan,
                    late |-> FALSE, setting |-> s, enabled |-> on]
    /\ api = [r \in Request |-> Idle]
    /\ crashes = 0 /\ faults = 0

Ingestion == \E h \in Hash : SkipProbableDuplicate(h) \/ IngestFile(h) \/ IngestUnchecked(h)

Removal ==
    \/ \E j \in JobId : ClaimRemoval(j) \/ ResumeCleanup(j)
    \/ Reverify \/ DeleteStatement \/ DeleteFails
    \/ CleanupAttempt \/ ParkEmbeddings \/ RemovalRaises \/ EndCycle

Scan == ScanRead \/ ScanCommit \/ ScanRaises

Process == Crash \/ \E s \in Setting, on \in BOOLEAN : Restart(s, on)

User ==
    \/ \E r \in Request, p \in Pair : CheckConfirm(r, p) \/ CheckDismiss(r, p)
    \/ \E r \in Request : InsertJob(r) \/ WriteDismiss(r)
    \/ \E h \in Hash : Override(h) \/ CorrectTransaction(h) \/ ReplaceCorrection(h)
    \/ RequestRecheck

Next == Ingestion \/ Removal \/ Scan \/ Process \/ User

Spec == Init /\ [][Next]_vars

\* The poll loop keeps running and a stopped worker is restarted; nothing is
\* assumed of the user, of Drive, or of faults.
Fairness ==
    /\ WF_vars(Removal)
    /\ WF_vars(Scan)
    /\ WF_vars(\E s \in Setting, on \in BOOLEAN : Restart(s, on))

FairSpec == Spec /\ Fairness
----------------------------------------------------------------------------
(* Properties.                                                             *)

\* Every variable has its type.
StatementTypeOK ==
    /\ held \subseteq Hash /\ fresh \subseteq held
    /\ earlier \subseteq held \X held
    /\ corrected \in [Hash -> 0..MaxCorrections]
    /\ known \in [Hash -> KnownState]
    /\ matched \in [Hash -> Hash \cup {NoHash}]
DuplicateTypeOK ==
    /\ pairs \in [Pair -> PairRow]
    /\ jobs \in [JobId -> JobRow]
    /\ recheck \in BOOLEAN
    /\ scanned \in Setting \cup {"never"}
ProcessTypeOK ==
    /\ worker \in WorkerState
    /\ api \in [Request -> RequestState]
    /\ crashes \in 0..MaxCrashes /\ faults \in 0..MaxFaults
TypeOK == StatementTypeOK /\ DuplicateTypeOK /\ ProcessTypeOK

\* A file remembered as a duplicate, skipped or removed, is never also held: a
\* statement is not counted twice and the run never skips what it should hold.
RememberedNotHeld == Remembered \cap held = {}

\* No content is lost: following matched_statement_hash from a skipped or
\* removed file ends at a statement that is held, or at a file the user
\* overrode, which the next run ingests.  It never dangles and never loops,
\* whatever the order of skips, removals, overrides and re-ingestions.
NoStatementLost ==
    \A S \in (SUBSET Remembered) \ {{}} :
        \E h \in S : matched[h] \in (held \cup Overridden \cup Remembered) \ S

\* What re-verification established still holds when the statement is deleted,
\* whatever the API committed in between: the copy to remove and the other copy
\* are both held, and the pair still proposes to keep the other one.
VerifiedIsSafe ==
    worker.step = "verified" =>
        LET job == jobs[worker.job]
            keep == Other(job.pair, job.remove)
        IN  /\ job.remove \in job.pair \cap held
            /\ keep \in held
            /\ pairs[job.pair].keep = keep

\* A statement deleted by a removal leaves the other copy of its pair held, and
\* that copy is the one the pair proposed to keep (WR-66, "the last copy is
\* never deleted").
RemovalKeepsTheOtherCopy ==
    [][\A h \in held \ held' :
          \E p \in Pair : /\ h \in p
                          /\ Other(p, h) \in held'
                          /\ pairs[p].keep = Other(p, h)
                          /\ pairs'[p].status = "removed"]_vars

\* A pair reads "removed" exactly when one of its jobs deleted its statement,
\* through crashes, failures, retries and re-scans; so a job that is queued,
\* running or failed deleted nothing (BR-46).
RemovedIffDeleted ==
    \A p \in Pair :
        pairs[p].status = "removed" <=>
            \E j \in JobId : jobs[j].pair = p /\ jobs[j].status \in DeletedStatus

\* The job a worker carries out has the status of the step it is at: nobody else
\* moves it, so a crash leaves it running before the deletion and awaiting its
\* cleanup after it.
JobFollowsWorker ==
    /\ worker.step \in {"claimed", "verified"} => jobs[worker.job].status = "running"
    /\ worker.step \in {"cleanup", "parking"} => jobs[worker.job].status = "embeddings_pending"

\* What a scan decided from its reads still fits the rows it writes: a pair it
\* inserts is still unrecorded, one it supersedes or refreshes was not removed.
PlanStillFits ==
    worker.step = "scanning" =>
        \A p \in Pair :
            /\ worker.plan[p].effect = "insert" => pairs[p].status = "absent"
            /\ worker.plan[p].effect \in {"refresh", "supersede"} =>
                  pairs[p].status \in {"pending", "dismissed"}

\* A pair that was decided or superseded never becomes pending again (BR-44).
NeverReopened ==
    [][\A p \in Pair : pairs[p].status \in DecidedStatus =>
                          pairs'[p].status \in DecidedStatus]_vars

\* Every removal the user confirmed reaches a final status.
EveryJobFinishes ==
    \A j \in JobId : jobs[j].status \in ActiveStatus ~> jobs[j].status \notin ActiveStatus

\* Two held copies of one statement end up on the user's list of pairs, unless
\* one of them goes or is overridden, or detection is switched off first: no
\* order of ingestion, removals, crashes and restarts starves the scan.
DuplicatesGetListed ==
    \A p \in Pair :
        (worker.enabled /\ p \in Flagged) ~>
            (pairs[p].status # "absent" \/ p \notin Flagged \/ ~worker.enabled)

(* What the documents say and the code does not keep.                      *)

\* BR-44: dismissed, removed and superseded are final.
DecisionIsFinal ==
    [][\A p \in Pair : pairs[p].status \in DecidedStatus =>
                          pairs'[p].status = pairs[p].status]_vars

\* A removed copy is remembered as confirmed_duplicate, so that its Drive file
\* is never re-ingested unless the user overrides it after the removal.
RemovalIsRemembered ==
    [][\A h \in held \ held' : known'[h] = "confirmed_duplicate"]_vars

\* WR-66: no more manual corrections are deleted than the user acknowledged.
NoUnacknowledgedLoss ==
    [][\A h \in held \ held' : corrected[h] <= jobs[worker.job].acknowledged]_vars
============================================================================
