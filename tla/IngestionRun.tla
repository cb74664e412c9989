--------------------------- MODULE IngestionRun ----------------------------
(***************************************************************************)
(* An ingestion run: queued by the API, claimed and carried out file by    *)
(* file by the worker, cancelled between files, failed by a crash.         *)
(*                                                                         *)
(* The committed rows (runs, rows, held) are apart from what a worker's    *)
(* session has only flushed (session) and from the copy of the run it has  *)
(* loaded: a commit publishes the session and expires the copy, a rollback *)
(* or a crash discards it. Nothing keeps two workers from claiming one run.*)
(***************************************************************************)
EXTENDS Naturals, FiniteSets

CONSTANTS
    Run,            \* identities of ingestion runs (bound: runs ever queued)
    File,           \* files the Drive folder may hold
    Content,        \* SHA-256 hashes of their bytes
    ContentOf,      \* ContentOf[f]: the hash of file f
    Listing,        \* what a listing of the folder may return: sets of files
    Unreadable,     \* files whose download or extraction may fail
    Remembered,     \* files remembered as, or found to be, probable duplicates
    Worker,         \* worker processes
    Request,        \* API requests that can be in flight at once
    RollingUpdate,  \* a worker may start while the previous one still runs
    NoRun, NoFile,  \* "none"
    MaxCrashes,     \* bound: worker crashes
    MaxFaults       \* bound: exceptions raised while a run is processed

ASSUME RunAssumption ==
    /\ NoRun \notin Run /\ NoFile \notin File
    /\ IsFiniteSet(File) /\ ContentOf \in [File -> Content]
    /\ Listing \subseteq SUBSET File /\ {Unreadable, Remembered} \subseteq SUBSET File
    /\ RollingUpdate \in BOOLEAN
    /\ {MaxCrashes, MaxFaults} \subseteq Nat

VARIABLES
    runs,       \* ingestion_runs
    rows,       \* ingestion_run_files, each with the worker that inserted it
    held,       \* bank_statements: the content hashes held
    worker,     \* each worker: where it is, its run, the files left to do,
                \* the run's row as its session has loaded it
    session,    \* each worker's flushed, uncommitted statements
    api,        \* API requests in flight
    crashes, faults

ledgerVars == <<runs, rows, held>>
faultVars == <<crashes, faults>>
vars == <<ledgerVars, worker, session, api, faultVars>>

----------------------------------------------------------------------------
(* Rows and local states.                                                  *)

ActiveStatus == {"queued", "running"}
CompletedStatus == {"completed", "completed_with_failures"}
FinalStatus == CompletedStatus \cup {"failed", "cancelled"}
FileOutcome == {"processed", "skipped", "failed"}

RunRow == [status : ActiveStatus \cup FinalStatus \cup {"none"}, cancel : BOOLEAN,
           found : Nat, processed : Nat, skipped : Nat, failed : Nat]
NewRun(s) == [status |-> s, cancel |-> FALSE, found |-> 0, processed |-> 0, skipped |-> 0, failed |-> 0]

RunFileRow == [run : Run, file : File, by : Worker, outcome : FileOutcome]

\* "recovering" and "found" are between a SELECT and the UPDATE made from it;
\* "listing" and "between" (the top of the file loop, or its end) follow the load
\* of the run's row; "file" and "written" are inside the file's savepoint, before
\* and after its rows are flushed; "committed" is after a commit.
WorkerStep == {"down", "recovering", "idle", "found", "claimed", "listing", "committed",
               "between", "file", "written", "failing"}
WorkerState == [step : WorkerStep, run : Run \cup {NoRun}, loaded : RunRow,
                todo : SUBSET File, file : File \cup {NoFile}]
NotLoaded == NewRun("none")
At(s) == [step |-> s, run |-> NoRun, loaded |-> NotLoaded, todo |-> {}, file |-> NoFile]

RequestState == [op : {"idle", "start", "cancel"}, run : Run \cup {NoRun}]
Idle == [op |-> "idle", run |-> NoRun]

ActiveRuns == {r \in Run : runs[r].status \in ActiveStatus}

----------------------------------------------------------------------------
(* API: starting and cancelling a run.                                     *)

CheckStart(q) ==
    /\ api[q] = Idle
    /\ ActiveRuns = {}
    /\ api' = [api EXCEPT ![q].op = "start"]
    /\ UNCHANGED <<ledgerVars, worker, session, faultVars>>

\* The partial unique index uq_ingestion_runs_single_active refuses the insert
\* when another request's run is active by now.
InsertRun(q) ==
    /\ api[q].op = "start"
    /\ \/ ActiveRuns # {} /\ UNCHANGED runs
       \/ /\ ActiveRuns = {}
          /\ \E r \in Run : /\ runs[r].status = "none"
                            /\ runs' = [runs EXCEPT ![r] = NewRun("queued")]
    /\ api' = [api EXCEPT ![q] = Idle]
    /\ UNCHANGED <<rows, held, worker, session, faultVars>>

CheckCancel(q, r) ==
    /\ api[q] = Idle
    /\ runs[r].status \in ActiveStatus
    /\ api' = [api EXCEPT ![q] = [op |-> "cancel", run |-> r]]
    /\ UNCHANGED <<ledgerVars, worker, session, faultVars>>

\* Only cancel_requested_at is written; the run may have ended since the check.
WriteCancel(q) ==
    /\ api[q].op = "cancel"
    /\ runs' = [runs EXCEPT ![api[q].run].cancel = TRUE]
    /\ api' = [api EXCEPT ![q] = Idle]
    /\ UNCHANGED <<rows, held, worker, session, faultVars>>

----------------------------------------------------------------------------
(* Worker: one run.                                                        *)

FindQueuedRun(w, r) ==
    /\ worker[w].step = "idle"
    /\ runs[r].status = "queued"
    /\ worker' = [worker EXCEPT ![w] = [At("found") EXCEPT !.run = r]]
    /\ UNCHANGED <<ledgerVars, session, api, faultVars>>

\* By primary key, whatever has become of the run since; the unique index refuses
\* it when another run is active by now, and the poll cycle ends.
ClaimRun(w) ==
    /\ worker[w].step = "found"
    /\ LET r == worker[w].run
       IN  \/ /\ ActiveRuns \subseteq {r}
              /\ runs' = [runs EXCEPT ![r].status = "running"]
              /\ worker' = [worker EXCEPT ![w].step = "claimed"]
           \/ /\ ~(ActiveRuns \subseteq {r})
              /\ worker' = [worker EXCEPT ![w] = At("idle")]
              /\ UNCHANGED runs
    /\ UNCHANGED <<rows, held, session, api, faultVars>>

\* The first use of the run after a commit reloads its row (whether it is to be
\* cancelled is never read from there).
LoadRun(w) ==
    /\ worker[w].step \in {"claimed", "committed"}
    /\ worker' = [worker EXCEPT ![w].step = IF @ = "claimed" THEN "listing" ELSE "between",
                                ![w].loaded = [runs[worker[w].run] EXCEPT !.cancel = FALSE]]
    /\ UNCHANGED <<ledgerVars, session, api, faultVars>>

\* A column is written only when the value set differs from the one loaded.
Assigned(now, loaded, new) == IF new = loaded THEN now ELSE new

ListFiles(w) ==
    /\ worker[w].step = "listing"
    /\ \E listing \in Listing :
          /\ runs' = [runs EXCEPT ![worker[w].run].found =
                         Assigned(@, worker[w].loaded.found, Cardinality(listing))]
          /\ worker' = [worker EXCEPT ![w].step = "committed", ![w].loaded = NotLoaded,
                                      ![w].todo = listing]
    /\ UNCHANGED <<rows, held, session, api, faultVars>>

EndRun(w, s) ==
    /\ runs' = [runs EXCEPT ![worker[w].run].status = Assigned(@, worker[w].loaded.status, s)]
    /\ worker' = [worker EXCEPT ![w] = At("idle")]

ListingFails(w) ==
    /\ worker[w].step = "listing"
    /\ EndRun(w, "failed")
    /\ UNCHANGED <<rows, held, session, api, faultVars>>

\* Mutant of CancellationRequested: the claimed row, loaded once, is consulted.
CancellationRequestedStale(r) == r = NoRun

CancellationRequested(r) == runs[r].cancel

CancelRun(w) ==
    /\ worker[w].step = "between" /\ worker[w].todo # {}
    /\ CancellationRequested(worker[w].run)
    /\ EndRun(w, "cancelled")
    /\ UNCHANGED <<rows, held, session, api, faultVars>>

BeginFile(w, f) ==
    /\ worker[w].step = "between"
    /\ f \in worker[w].todo
    /\ ~CancellationRequested(worker[w].run)
    /\ worker' = [worker EXCEPT ![w].step = "file", ![w].todo = @ \ {f}, ![w].file = f]
    /\ UNCHANGED <<ledgerVars, session, api, faultVars>>

\* Mutant of Recorded: a failed file is counted as skipped.
RecordedAsSkipped(row, loaded, o) ==
    IF o = "processed" THEN [row EXCEPT !.processed = loaded.processed + 1]
                       ELSE [row EXCEPT !.skipped = loaded.skipped + 1]

\* The counter that update_run_progress adds to, from the value loaded, in the
\* commit that publishes the file's row.
Recorded(row, loaded, o) ==
    CASE o = "processed" -> [row EXCEPT !.processed = loaded.processed + 1]
      [] o = "skipped" -> [row EXCEPT !.skipped = loaded.skipped + 1]
      [] o = "failed" -> [row EXCEPT !.failed = loaded.failed + 1]

CommitFile(w, o) ==
    LET r == worker[w].run
    IN  /\ rows' = rows \cup {[run |-> r, file |-> worker[w].file, by |-> w, outcome |-> o]}
        /\ runs' = [runs EXCEPT ![r] = Recorded(@, worker[w].loaded, o)]
        /\ held' = held \cup session[w]
        /\ session' = [session EXCEPT ![w] = {}]
        /\ worker' = [worker EXCEPT ![w].step = "committed", ![w].loaded = NotLoaded, ![w].file = NoFile]
        /\ UNCHANGED <<api, faultVars>>

\* Download or extraction failed.
FailFile(w) ==
    /\ worker[w].step = "file" /\ worker[w].file \in Unreadable
    /\ CommitFile(w, "failed")

\* Already held, remembered, or a probable duplicate of a held statement.
SkipFile(w) ==
    /\ worker[w].step = "file"
    /\ ContentOf[worker[w].file] \in held \/ worker[w].file \in Remembered
    /\ CommitFile(w, "skipped")

\* The statement, its sections and transactions are flushed, not committed.
WriteStatement(w) ==
    /\ worker[w].step = "file"
    /\ ContentOf[worker[w].file] \notin held
    /\ session' = [session EXCEPT ![w] = {ContentOf[worker[w].file]}]
    /\ worker' = [worker EXCEPT ![w].step = "written"]
    /\ UNCHANGED <<ledgerVars, api, faultVars>>

\* Mutant of ProcessFile: the content hash is not unique.
ProcessFileTwice(w) == worker[w].step = "written" /\ CommitFile(w, "processed")

\* The unique content hash refuses a statement another worker committed.
ProcessFile(w) ==
    /\ worker[w].step = "written"
    /\ session[w] \cap held = {}
    /\ CommitFile(w, "processed")

CompleteRun(w) ==
    /\ worker[w].step = "between" /\ worker[w].todo = {}
    /\ EndRun(w, IF worker[w].loaded.failed > 0 THEN "completed_with_failures" ELSE "completed")
    /\ UNCHANGED <<rows, held, session, api, faultVars>>

----------------------------------------------------------------------------
(* Worker: failures.                                                       *)

\* Mutant of RolledBack: there is no savepoint around a file.
RolledBackNothing(written) == written

\* The file's savepoint is rolled back where its exception is caught.
RolledBack(written) == {}

FailRunFrom(w) ==
    /\ session' = [session EXCEPT ![w] = RolledBack(@)]
    /\ worker' = [worker EXCEPT ![w].step = "failing"]
    /\ UNCHANGED <<ledgerVars, api, crashes>>

\* The database refuses the content hash another worker has committed.
StatementRefused(w) ==
    /\ worker[w].step = "written"
    /\ session[w] \cap held # {}
    /\ FailRunFrom(w)
    /\ UNCHANGED faults

\* Anything else raises inside the file loop.
FileRaises(w) ==
    /\ worker[w].step \in {"committed", "between", "file", "written"}
    /\ worker[w].step \in {"committed", "between"} => worker[w].todo # {}
    /\ faults < MaxFaults
    /\ faults' = faults + 1
    /\ FailRunFrom(w)

\* fail_run commits whatever the session still holds.
FailRun(w) ==
    /\ worker[w].step = "failing"
    /\ EndRun(w, "failed")
    /\ held' = held \cup session[w]
    /\ session' = [session EXCEPT ![w] = {}]
    /\ UNCHANGED <<rows, api, faultVars>>

\* An exception outside the guarded parts (claiming, recording the number of files
\* found, completing, failing the run) reaches run_forever, which logs it.
RunRaises(w) ==
    /\ \/ worker[w].step \in {"found", "claimed", "listing", "failing"}
       \/ worker[w].step \in {"committed", "between"} /\ worker[w].todo = {}
    /\ faults < MaxFaults
    /\ faults' = faults + 1
    /\ session' = [session EXCEPT ![w] = {}]
    /\ worker' = [worker EXCEPT ![w] = At("idle")]
    /\ UNCHANGED <<ledgerVars, api, crashes>>

Crash(w) ==
    /\ worker[w].step # "down"
    /\ crashes < MaxCrashes
    /\ crashes' = crashes + 1
    /\ session' = [session EXCEPT ![w] = {}]
    /\ worker' = [worker EXCEPT ![w] = At("down")]
    /\ UNCHANGED <<ledgerVars, api, faults>>

\* Startup recovery: any active run (there is at most one) is taken to be orphaned.
StartWorker(w) ==
    /\ worker[w].step = "down"
    /\ RollingUpdate \/ \A v \in Worker : worker[v].step = "down"
    /\ \/ ActiveRuns = {} /\ worker' = [worker EXCEPT ![w] = At("idle")]
       \/ \E r \in ActiveRuns : worker' = [worker EXCEPT ![w] = [At("recovering") EXCEPT !.run = r]]
    /\ UNCHANGED <<ledgerVars, session, api, faultVars>>

\* Mutant of FailStaleRun: the orphaned run is left as it is.
FailStaleRunNever(w) ==
    /\ worker[w].step = "recovering"
    /\ worker' = [worker EXCEPT ![w] = At("idle")]
    /\ UNCHANGED <<ledgerVars, session, api, faultVars>>

\* It is failed by primary key, whatever has become of it since the SELECT.
FailStaleRun(w) ==
    /\ worker[w].step = "recovering"
    /\ EndRun(w, "failed")
    /\ UNCHANGED <<rows, held, session, api, faultVars>>

----------------------------------------------------------------------------
(* Specification.                                                          *)

Init ==
    /\ runs = [r \in Run |-> NewRun("none")]
    /\ rows = {} /\ held = {}
    /\ worker = [w \in Worker |-> At("down")]
    /\ session = [w \in Worker |-> {}]
    /\ api = [q \in Request |-> Idle]
    /\ crashes = 0 /\ faults = 0

Processing(w) ==
    \/ FailStaleRun(w)
    \/ \E r \in Run : FindQueuedRun(w, r)
    \/ ClaimRun(w) \/ LoadRun(w)
    \/ ListFiles(w) \/ ListingFails(w) \/ CancelRun(w)
    \/ \E f \in File : BeginFile(w, f)
    \/ FailFile(w) \/ SkipFile(w) \/ WriteStatement(w) \/ ProcessFile(w)
    \/ StatementRefused(w) \/ CompleteRun(w) \/ FailRun(w)

Failure(w) == FileRaises(w) \/ RunRaises(w) \/ Crash(w)

User(q) == CheckStart(q) \/ InsertRun(q) \/ WriteCancel(q) \/ \E r \in Run : CheckCancel(q, r)

Next ==
    \/ \E w \in Worker : Processing(w) \/ Failure(w) \/ StartWorker(w)
    \/ \E q \in Request : User(q)

Spec == Init /\ [][Next]_vars

\* A worker that is up keeps going and some worker is kept up; nothing is
\* assumed of the user or of failures.
Fairness ==
    /\ \A w \in Worker : WF_vars(Processing(w))
    /\ WF_vars(\E w \in Worker : StartWorker(w))

FairSpec == Spec /\ Fairness

----------------------------------------------------------------------------
(* Properties.                                                             *)

\* Every variable has its type, and a working worker has a run.
TypeOK ==
    /\ runs \in [Run -> RunRow]
    /\ rows \subseteq RunFileRow
    /\ held \subseteq Content
    /\ worker \in [Worker -> WorkerState]
    /\ \A w \in Worker : worker[w].step \in {"down", "idle"} <=> worker[w].run = NoRun
    /\ session \in [Worker -> SUBSET Content]
    /\ api \in [Request -> RequestState]
    /\ crashes \in 0..MaxCrashes /\ faults \in 0..MaxFaults

\* The counters the history page shows are those of the run's file rows, and a
\* run that completed accounts for every file it found: as long as a worker is
\* started only once the one before it is gone. Two workers that claim one run
\* each record its files, and each overwrites what the other has counted.
CountersMatchRows ==
    \A r \in Run :
        LET count(o) == Cardinality({e \in rows : e.run = r /\ e.outcome = o})
        IN  /\ runs[r].processed = count("processed")
            /\ runs[r].skipped = count("skipped")
            /\ runs[r].failed = count("failed")
            /\ runs[r].status \in CompletedStatus =>
                  runs[r].found = runs[r].processed + runs[r].skipped + runs[r].failed

\* A statement is held exactly when one row, of all the rows of all the runs,
\* records it as processed: also while a worker that is being replaced and its
\* successor ingest the same folder, in two runs or both in one.
StatementsMatchRows ==
    \A c \in Content :
        Cardinality({e \in rows : ContentOf[e.file] = c /\ e.outcome = "processed"})
            = IF c \in held THEN 1 ELSE 0

\* The committed rows behave as the ledger: one active run, a file's row and its
\* statement appear together or not at all, a finished run never changes.
RowsOf(r, f) == {e \in rows : e.run = r /\ e.file = f}
Outcome(r, f) == IF RowsOf(r, f) = {} THEN "none" ELSE (CHOOSE e \in RowsOf(r, f) : TRUE).outcome
Ledger == INSTANCE RunLedger WITH
    status <- [r \in Run |-> IF runs[r].status \in ActiveStatus THEN "active" ELSE runs[r].status],
    outcome <- [r \in Run |-> [f \in File |-> Outcome(r, f)]]
LedgerSpec == Ledger!Spec

\* Every run the user queued ends, so the next one can be started (BR-10).
EveryRunFinishes == \A r \in Run : r \in ActiveRuns ~> r \notin ActiveRuns

\* Cancelling a running run that one worker has, with files left, stops it before
\* they are done: it ends cancelled, or failed by a crash or a restart, and never
\* completed, also when another worker had it before. (Of two workers that have
\* it, one past its last check may complete it and the other then crash.)
CancelTakesEffect ==
    \A r \in Run :
        (/\ runs[r].cancel /\ runs[r].status = "running"
         /\ \E w \in Worker : /\ worker[w].run = r /\ worker[w].todo # {}
                              /\ \A v \in Worker \ {w} : worker[v].run # r)
            ~> runs[r].status \in {"cancelled", "failed"}

(* What the documents say and the code does not keep.                      *)

\* fail_stale_runs: a run still active when a worker starts is orphaned, so no
\* process is left to move it from failed to anything else.
FailedRunsAreOrphaned ==
    [][\A r \in Run : runs[r].status \in FinalStatus => runs'[r].status = runs[r].status]_vars
============================================================================
