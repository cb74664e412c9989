--------------------- MODULE StatementDuplicatesProofs ---------------------
(***************************************************************************)
(* Proofs about StatementDuplicates, for every number of statements,       *)
(* requests, jobs, crashes and faults: its types, that no statement is     *)
(* lost, and that decisions and removals are kept.                         *)
(***************************************************************************)
EXTENDS StatementDuplicates, TLAPS

----------------------------------------------------------------------------
(* Pairs and the choices made from them.                                   *)

\* A pair has two elements, and Other is the one that is not given.
LEMMA OtherIsTheOther ==
    ASSUME NEW p \in Pair, NEW h
    PROVE  Other(p, h) \in p /\ Other(p, h) # h /\ Other(p, h) \in Hash
<1>1. PICK a \in Hash, b \in Hash : a # b /\ p = {a, b}
    BY DEF Pair
<1>2. \E k \in p : k # h
    BY <1>1
<1>3. Other(p, h) \in p /\ Other(p, h) # h
    BY <1>2 DEF Other
<1>4. QED
    BY <1>1, <1>3

\* Of any two held statements one was ingested before the other.
EarlierIsTotal ==
    \A a, b \in held : a # b => <<a, b>> \in earlier \/ <<b, a>> \in earlier

\* The keep rule always names one of the two copies.
LEMMA KeptCopyIsACopy ==
    ASSUME EarlierIsTotal, NEW p \in Pair, p \subseteq held
    PROVE  KeptCopy(p) \in p /\ KeptCopy(p) \in Hash
<1> DEFINE carrying == {h \in p : corrected[h] > 0}
           contenders == IF carrying # {} THEN carrying ELSE p
           first(h) == \A k \in contenders \ {h} : <<h, k>> \in earlier
<1>1. PICK a \in Hash, b \in Hash : a # b /\ p = {a, b}
    BY DEF Pair
<1>2. a \in held /\ b \in held
    BY <1>1
<1>3. contenders # {} /\ contenders \subseteq {a, b}
    BY <1>1
<1>4. \E h \in contenders : first(h)
    <2>1. CASE a \in contenders /\ b \in contenders
        <3>1. contenders = {a, b}
            BY <2>1, <1>3
        <3>2. <<a, b>> \in earlier \/ <<b, a>> \in earlier
            BY <1>1, <1>2 DEF EarlierIsTotal
        <3>. QED BY <1>1, <3>1, <3>2
    <2>2. CASE a \notin contenders
        <3>1. contenders = {b}
            BY <2>2, <1>3
        <3>. QED BY <3>1
    <2>3. CASE b \notin contenders
        <3>1. contenders = {a}
            BY <2>3, <1>3
        <3>. QED BY <3>1
    <2>. QED BY <2>1, <2>2, <2>3
<1>5. KeptCopy(p) = CHOOSE h \in contenders : first(h)
    BY DEF KeptCopy
<1>6. KeptCopy(p) \in contenders
    BY <1>4, <1>5
<1>. QED BY <1>1, <1>3, <1>6

----------------------------------------------------------------------------
(* Type correctness.                                                       *)

\* While the worker carries out a removal it has a job the user requested, and
\* while it cleans up it has an attempt left.
WorkerHasJob ==
    /\ worker.step \in {"claimed", "verified", "cleanup", "parking"} =>
          worker.job \in JobId /\ jobs[worker.job].status # "absent"
    /\ worker.step = "cleanup" => worker.left > 0

\* A request in flight holds a pair, and a confirmation one of its statements.
RequestHasPair ==
    \A r \in Request :
        /\ api[r].op # "idle" => api[r].pair \in Pair
        /\ api[r].op = "confirm" => api[r].remove \in Hash

\* A requested job keeps the pair and the statement it was requested for.
JobHasPair ==
    \A j \in JobId : jobs[j].status # "absent" => jobs[j].pair \in Pair /\ jobs[j].remove \in Hash

TypeInv == TypeOK /\ EarlierIsTotal /\ WorkerHasJob /\ RequestHasPair /\ JobHasPair

\* The bounds are natural numbers.
LEMMA Bounds ==
    /\ EmbeddingAttempts \in Nat /\ EmbeddingAttempts > 0
    /\ MaxCorrections \in Nat /\ MaxJobs \in Nat /\ MaxCrashes \in Nat /\ MaxFaults \in Nat
BY ConstantsAssumption DEF ConstantsAssumption

LEMMA TypeInit == Init => TypeInv
<1> SUFFICES ASSUME Init PROVE TypeInv
    OBVIOUS
<1>1. NoPlan \in [Pair -> PlannedWrite]
    BY DEF NoPlan, NoWrite, PlannedWrite, Effect
<1>2. NoPair \in PairRow
    BY DEF NoPair, PairRow, PairStatus
<1>3. NoJob \in JobRow
    BY Bounds DEF NoJob, JobRow, JobStatus
<1>4. Idle \in RequestState
    BY Bounds DEF Idle, RequestState
<1>5. worker \in WorkerState
    BY <1>1 DEF Init, WorkerState, WorkerStep
<1>6. StatementTypeOK
    BY Bounds DEF Init, StatementTypeOK, KnownState, IngestionOrders
<1>7. DuplicateTypeOK
    BY <1>2, <1>3 DEF Init, DuplicateTypeOK
<1>8. ProcessTypeOK
    BY <1>4, <1>5, Bounds DEF Init, ProcessTypeOK
<1>9. EarlierIsTotal /\ WorkerHasJob
    BY DEF Init, EarlierIsTotal, WorkerHasJob, IngestionOrders
<1>10. RequestHasPair /\ JobHasPair
    BY DEF Init, RequestHasPair, JobHasPair, Idle, NoJob
<1>. QED BY <1>6, <1>7, <1>8, <1>9, <1>10 DEF TypeInv, TypeOK

\* Lemmas on the values the actions assign.
LEMMA NoPlanType == NoPlan \in [Pair -> PlannedWrite]
BY DEF NoPlan, NoWrite, PlannedWrite, Effect

LEMMA IdleType == Idle \in RequestState /\ Idle.op = "idle"
BY Bounds DEF Idle, RequestState

LEMMA GoIdleType ==
    ASSUME worker \in WorkerState
    PROVE  GoIdle \in WorkerState /\ GoIdle.step = "idle"
BY NoPlanType DEF GoIdle, WorkerState, WorkerStep

LEMMA AttemptsLeftType ==
    ASSUME jobs \in [JobId -> JobRow], NEW j \in JobId
    PROVE  AttemptsLeft(j) \in Nat /\ AttemptsLeft(j) > 0
BY Bounds DEF AttemptsLeft, JobRow

LEMMA ScanWriteForType ==
    ASSUME TypeInv, NEW p \in Pair
    PROVE  ScanWriteFor(p) \in PlannedWrite
<1>1. CASE p \in Flagged
    <2>1. KeptCopy(p) \in Hash
        BY <1>1, KeptCopyIsACopy DEF Flagged, TypeInv
    <2>2. \A e \in Effect : [effect |-> e, keep |-> KeptCopy(p),
                             allowed |-> p \in Comparable[worker.setting]] \in PlannedWrite
        BY <2>1 DEF PlannedWrite
    <2>. QED BY <1>1, <2>2 DEF ScanWriteFor, NoWrite, PlannedWrite, Effect
<1>2. CASE p \notin Flagged
    BY <1>2 DEF ScanWriteFor, NoWrite, PlannedWrite, Effect
<1>. QED BY <1>1, <1>2

LEMMA AppliedType ==
    ASSUME NEW row \in PairRow, NEW write \in PlannedWrite
    PROVE  Applied(row, write) \in PairRow
BY DEF Applied, PairRow, PlannedWrite, PairStatus, DecidedStatus

\* A job that was requested keeps its pair and its statement when its status is set.
LEMMA SetJobType ==
    ASSUME TypeInv, NEW j \in JobId, jobs[j].status # "absent",
           NEW s \in JobStatus \ {"absent"}, SetJob(j, s)
    PROVE  /\ jobs' \in [JobId -> JobRow]
           /\ JobHasPair'
           /\ jobs'[j].status # "absent"
<1>1. jobs \in [JobId -> JobRow]
    BY DEF TypeInv, TypeOK, DuplicateTypeOK
<1>2. jobs' \in [JobId -> JobRow]
    BY <1>1 DEF SetJob, JobRow
<1>3. \A i \in JobId : jobs'[i] = IF i = j THEN [jobs[i] EXCEPT !.status = s] ELSE jobs[i]
    BY <1>1 DEF SetJob
<1>4. \A i \in JobId : /\ jobs'[i].pair = jobs[i].pair /\ jobs'[i].remove = jobs[i].remove
                       /\ jobs'[i].status = IF i = j THEN s ELSE jobs[i].status
    BY <1>1, <1>3 DEF JobRow
<1>. QED BY <1>1, <1>2, <1>4 DEF TypeInv, JobHasPair

----------------------------------------------------------------------------
(* One lemma per group of variables: the actions that change the group, one *)
(* by one, and the fact that no other action does.                          *)

LEMMA StatementStep ==
    ASSUME TypeInv, [Next]_vars
    PROVE  StatementTypeOK' /\ EarlierIsTotal'
<1>. USE Bounds DEF TypeInv, TypeOK, StatementTypeOK, EarlierIsTotal, statementVars, knownVars
<1>1. CASE UNCHANGED <<statementVars, knownVars>>
    BY <1>1
<1>2. ASSUME NEW h \in Hash, SkipProbableDuplicate(h)
      PROVE  StatementTypeOK' /\ EarlierIsTotal'
    <2>1. PICK k \in held : /\ known' = [known EXCEPT ![h] = "probable_duplicate"]
                            /\ matched' = [matched EXCEPT ![h] = k]
        BY <1>2 DEF SkipProbableDuplicate, ProbableDuplicatesOf
    <2>2. UNCHANGED statementVars
        BY <1>2 DEF SkipProbableDuplicate
    <2>. QED BY <2>1, <2>2 DEF KnownState, RememberedState
<1>3. ASSUME NEW h \in Hash, Persist(h)
      PROVE  StatementTypeOK' /\ EarlierIsTotal'
    BY <1>3 DEF Persist
<1>4. CASE DeleteStatement
    <2> DEFINE remove == jobs[worker.job].remove
    <2>1. remove \in Hash
        BY <1>4 DEF DeleteStatement, WorkerHasJob, JobHasPair
    <2>2. Other(jobs[worker.job].pair, remove) \in Hash
        BY <1>4, OtherIsTheOther DEF DeleteStatement, WorkerHasJob, JobHasPair
    <2>3. known' \in [Hash -> KnownState] /\ matched' \in [Hash -> Hash \cup {NoHash}]
        BY <1>4, <2>1, <2>2 DEF DeleteStatement, Remember, KnownState, RememberedState
    <2>4. /\ held' = held \ {remove} /\ fresh' = fresh \ {remove}
          /\ earlier' = {e \in earlier : remove \notin {e[1], e[2]}}
          /\ corrected' = [corrected EXCEPT ![remove] = 0]
        BY <1>4 DEF DeleteStatement
    <2>5. held' \subseteq Hash /\ fresh' \subseteq held' /\ corrected' \in [Hash -> 0..MaxCorrections]
        BY <2>1, <2>4
    <2>6. earlier' \subseteq held' \X held' /\ EarlierIsTotal'
        BY <2>4
    <2>. QED BY <2>3, <2>5, <2>6
<1>5. CASE ScanCommit
    BY <1>5 DEF ScanCommit
<1>6. ASSUME NEW h \in Hash, Override(h)
      PROVE  StatementTypeOK' /\ EarlierIsTotal'
    BY <1>6 DEF Override, KnownState
<1>7. ASSUME NEW h \in Hash, CorrectTransaction(h) \/ ReplaceCorrection(h)
      PROVE  StatementTypeOK' /\ EarlierIsTotal'
    BY <1>7 DEF CorrectTransaction, ReplaceCorrection
<1>. QED
    BY <1>1, <1>2, <1>3, <1>4, <1>5, <1>6, <1>7
    DEF vars, Next, Ingestion, IngestFile, IngestUnchecked, Removal, ClaimRemoval, ResumeCleanup,
        Reverify, DeleteFails, CleanupAttempt, ParkEmbeddings, RemovalRaises, EndCycle,
        Scan, ScanRead, ScanRaises, Process, Crash, Restart, User, CheckConfirm, CheckDismiss,
        InsertJob, WriteDismiss, RequestRecheck

LEMMA DuplicateStep ==
    ASSUME TypeInv, [Next]_vars
    PROVE  DuplicateTypeOK' /\ JobHasPair'
<1>. USE DEF scanVars
<1>0. /\ pairs \in [Pair -> PairRow] /\ jobs \in [JobId -> JobRow]
      /\ recheck \in BOOLEAN /\ scanned \in Setting \cup {"never"}
      /\ DuplicateTypeOK /\ JobHasPair /\ WorkerHasJob /\ worker \in WorkerState
    BY DEF TypeInv, TypeOK, DuplicateTypeOK, ProcessTypeOK
<1>. DEFINE Preserved == DuplicateTypeOK' /\ JobHasPair'
<1>1. CASE UNCHANGED <<pairs, jobs, scanVars>>
    BY <1>0, <1>1 DEF DuplicateTypeOK, JobHasPair
<1>2. ASSUME NEW j \in JobId, jobs[j].status # "absent", NEW s \in JobStatus \ {"absent"},
             SetJob(j, s), UNCHANGED <<pairs, scanVars>>
      PROVE  Preserved
    BY <1>0, <1>2, SetJobType DEF DuplicateTypeOK
<1>3. ASSUME NEW j \in JobId, ClaimRemoval(j)
      PROVE  Preserved
    BY <1>2, <1>3 DEF ClaimRemoval, JobStatus, ActiveStatus
<1>4. CASE Reverify
    BY <1>0, <1>1, <1>2, <1>4 DEF Reverify, WorkerHasJob, JobStatus
<1>5. CASE DeleteStatement
    <2>1. worker.job \in JobId /\ jobs[worker.job].status # "absent"
          /\ SetJob(worker.job, "embeddings_pending")
        BY <1>0, <1>5 DEF DeleteStatement, WorkerHasJob
    <2>2. jobs' \in [JobId -> JobRow] /\ JobHasPair'
        BY <2>1, SetJobType DEF JobStatus, ActiveStatus
    <2>3. pairs' = [pairs EXCEPT ![jobs[worker.job].pair].status = "removed"] /\ UNCHANGED scanVars
        BY <1>5 DEF DeleteStatement
    <2>4. pairs' \in [Pair -> PairRow]
        BY <1>0, <2>3 DEF PairRow, PairStatus, DecidedStatus
    <2>. QED BY <1>0, <2>2, <2>3, <2>4 DEF DuplicateTypeOK
<1>6. CASE DeleteFails
    BY <1>0, <1>2, <1>6 DEF DeleteFails, WorkerHasJob, JobStatus
<1>7. CASE CleanupAttempt
    <2> DEFINE j == worker.job
    <2>1. /\ j \in JobId /\ jobs[j].status # "absent"
          /\ UNCHANGED <<pairs, scanVars>>
        BY <1>0, <1>7 DEF CleanupAttempt, WorkerHasJob
    <2>2. \/ jobs' = [jobs EXCEPT ![j].attempts = @ + 1, ![j].status = "completed"]
          \/ jobs' = [jobs EXCEPT ![j].attempts = @ + 1]
        BY <1>7 DEF CleanupAttempt
    <2>3. jobs' \in [JobId -> JobRow]
        BY <1>0, <2>1, <2>2 DEF JobRow, JobStatus, DeletedStatus
    <2>4. \A i \in JobId : /\ jobs'[i].pair = jobs[i].pair /\ jobs'[i].remove = jobs[i].remove
                           /\ i # j => jobs'[i].status = jobs[i].status
        BY <1>0, <2>1, <2>2 DEF JobRow
    <2>5. JobHasPair'
        BY <1>0, <2>1, <2>4 DEF JobHasPair
    <2>. QED BY <1>0, <2>1, <2>3, <2>5 DEF DuplicateTypeOK
<1>8. CASE ParkEmbeddings
    BY <1>0, <1>2, <1>8 DEF ParkEmbeddings, WorkerHasJob, JobStatus, DeletedStatus
<1>9. CASE ScanCommit
    <2>1. \A p \in Pair : Applied(pairs[p], worker.plan[p]) \in PairRow
        BY <1>0, AppliedType DEF WorkerState
    <2>2. worker.setting \in Setting /\ worker.late \in BOOLEAN
        BY <1>0 DEF WorkerState
    <2>. QED BY <1>0, <1>9, <2>1, <2>2 DEF ScanCommit, DuplicateTypeOK, JobHasPair
<1>10. ASSUME NEW s \in Setting, NEW on \in BOOLEAN, Restart(s, on)
       PROVE  Preserved
    <2>1. /\ jobs' = [j \in JobId |-> IF jobs[j].status = "running"
                                      THEN [jobs[j] EXCEPT !.status = "failed"] ELSE jobs[j]]
          /\ UNCHANGED <<pairs, scanVars>>
        BY <1>10 DEF Restart
    <2>2. \A j \in JobId : /\ jobs'[j] \in JobRow
                           /\ jobs'[j].pair = jobs[j].pair /\ jobs'[j].remove = jobs[j].remove
                           /\ jobs'[j].status # "absent" => jobs[j].status # "absent"
        BY <1>0, <2>1 DEF JobRow, JobStatus
    <2>3. jobs' \in [JobId -> JobRow]
        BY <2>1, <2>2
    <2>. QED BY <1>0, <2>1, <2>2, <2>3 DEF DuplicateTypeOK, JobHasPair
<1>11. ASSUME NEW r \in Request, InsertJob(r)
       PROVE  Preserved
    <2>1. UNCHANGED <<pairs, scanVars>>
        BY <1>11 DEF InsertJob
    <2>2. CASE UNCHANGED jobs
        BY <1>1, <2>1, <2>2
    <2>3. CASE ~UNCHANGED jobs
        <3> DEFINE row == [status |-> "queued", pair |-> api[r].pair, remove |-> api[r].remove,
                           acknowledged |-> api[r].acknowledged, attempts |-> 0]
        <3>1. PICK j \in JobId : jobs' = [jobs EXCEPT ![j] = row]
            BY <1>11, <2>3 DEF InsertJob
        <3>2. /\ api[r].pair \in Pair /\ api[r].remove \in Hash
              /\ api[r].acknowledged \in 0..MaxCorrections
            BY <1>11 DEF InsertJob, TypeInv, TypeOK, ProcessTypeOK, RequestHasPair, RequestState
        <3>3. row \in JobRow
            BY <3>2 DEF JobRow, JobStatus, ActiveStatus
        <3>. QED BY <1>0, <2>1, <3>1, <3>2, <3>3 DEF DuplicateTypeOK, JobHasPair
    <2>. QED BY <2>2, <2>3
<1>12. ASSUME NEW r \in Request, WriteDismiss(r)
       PROVE  Preserved
    <2>1. pairs' \in [Pair -> PairRow]
        BY <1>0, <1>12 DEF WriteDismiss, PairRow, PairStatus, DecidedStatus
    <2>. QED BY <1>0, <1>12, <2>1 DEF WriteDismiss, DuplicateTypeOK, JobHasPair
<1>13. CASE RequestRecheck
    BY <1>0, <1>13 DEF RequestRecheck, DuplicateTypeOK, JobHasPair
<1>. QED
    BY <1>1, <1>3, <1>4, <1>5, <1>6, <1>7, <1>8, <1>9, <1>10, <1>11, <1>12, <1>13
    DEF vars, Next, Ingestion, SkipProbableDuplicate, IngestFile, IngestUnchecked, Persist,
        Removal, ResumeCleanup, RemovalRaises, EndCycle, Scan, ScanRead, ScanRaises, Process, Crash,
        User, CheckConfirm, CheckDismiss, Override, CorrectTransaction, ReplaceCorrection

LEMMA RequestStep ==
    ASSUME TypeInv, [Next]_vars
    PROVE  api' \in [Request -> RequestState] /\ RequestHasPair'
<1>0. /\ api \in [Request -> RequestState] /\ RequestHasPair
      /\ corrected \in [Hash -> 0..MaxCorrections]
    BY DEF TypeInv, TypeOK, ProcessTypeOK, StatementTypeOK
<1>. DEFINE Preserved == api' \in [Request -> RequestState] /\ RequestHasPair'
<1>1. CASE UNCHANGED api
    BY <1>0, <1>1 DEF RequestHasPair
<1>2. ASSUME NEW r \in Request, NEW q \in RequestState, api' = [api EXCEPT ![r] = q],
             q.op # "idle" => q.pair \in Pair, q.op = "confirm" => q.remove \in Hash
      PROVE  Preserved
    BY <1>0, <1>2 DEF RequestHasPair
<1>3. ASSUME NEW r \in Request, NEW p \in Pair, CheckConfirm(r, p)
      PROVE  Preserved
    <2> DEFINE remove == Other(p, pairs[p].keep)
               q == [op |-> "confirm", pair |-> p, remove |-> remove, acknowledged |-> corrected[remove]]
    <2>1. remove \in Hash
        BY OtherIsTheOther
    <2>2. q \in RequestState
        BY <1>0, <2>1 DEF RequestState
    <2>3. api' = [api EXCEPT ![r] = q]
        BY <1>3 DEF CheckConfirm
    <2> HIDE DEF remove
    <2>. QED BY <1>2, <2>1, <2>2, <2>3
<1>4. ASSUME NEW r \in Request, NEW p \in Pair, CheckDismiss(r, p)
      PROVE  Preserved
    <2> DEFINE q == [Idle EXCEPT !.op = "dismiss", !.pair = p]
    <2>1. q \in RequestState /\ q.op = "dismiss" /\ q.pair = p
        BY IdleType DEF RequestState
    <2>2. api' = [api EXCEPT ![r] = q]
        BY <1>4 DEF CheckDismiss
    <2> HIDE DEF q
    <2>. QED BY <1>2, <2>1, <2>2
<1>5. ASSUME NEW r \in Request, InsertJob(r) \/ WriteDismiss(r)
      PROVE  Preserved
    <2>1. api' = [api EXCEPT ![r] = Idle]
        BY <1>5 DEF InsertJob, WriteDismiss
    <2>. QED BY <1>2, <2>1, IdleType
<1>. QED
    BY <1>1, <1>3, <1>4, <1>5
    DEF vars, Next, Ingestion, SkipProbableDuplicate, IngestFile, IngestUnchecked, Persist,
        Removal, ClaimRemoval, ResumeCleanup, Reverify, DeleteStatement, DeleteFails, CleanupAttempt,
        ParkEmbeddings, RemovalRaises, EndCycle, Scan, ScanRead, ScanCommit, ScanRaises,
        Process, Crash, Restart, User, Override, CorrectTransaction, ReplaceCorrection, RequestRecheck

LEMMA WorkerStepStep ==
    ASSUME TypeInv, [Next]_vars
    PROVE  worker' \in WorkerState /\ WorkerHasJob'
<1>. USE DEF WorkerStep
<1>0. worker \in WorkerState /\ WorkerHasJob /\ jobs \in [JobId -> JobRow]
    BY DEF TypeInv, TypeOK, ProcessTypeOK, DuplicateTypeOK
<1>. DEFINE Preserved == worker' \in WorkerState /\ WorkerHasJob'
<1>1. CASE UNCHANGED <<worker, jobs>>
    BY <1>0, <1>1 DEF WorkerHasJob
<1>2. ASSUME worker' \in WorkerState,
             worker'.step \notin {"claimed", "verified", "cleanup", "parking"}
      PROVE  Preserved
    BY <1>2 DEF WorkerHasJob
<1>3. ASSUME NEW j \in JobId, ClaimRemoval(j)
      PROVE  Preserved
    <2>1. jobs'[j].status = "running" /\ worker' = [worker EXCEPT !.step = "claimed", !.job = j]
        BY <1>0, <1>3 DEF ClaimRemoval, SetJob, JobRow
    <2>2. worker' \in WorkerState /\ worker'.step = "claimed" /\ worker'.job = j
        BY <1>0, <2>1 DEF WorkerState
    <2>. QED BY <2>1, <2>2 DEF WorkerHasJob
<1>4. CASE Reverify
    <2>1. CASE worker' = GoTo("verified") /\ UNCHANGED jobs
        <3>1. worker' \in WorkerState /\ worker'.step = "verified" /\ worker'.job = worker.job
            BY <1>0, <2>1 DEF GoTo, WorkerState
        <3>. QED BY <1>0, <1>4, <2>1, <3>1 DEF Reverify, WorkerHasJob
    <2>2. CASE worker' = GoIdle
        BY <1>0, <1>2, <2>2, GoIdleType
    <2>. QED BY <1>4, <2>1, <2>2 DEF Reverify
<1>5. CASE DeleteStatement
    <2>1. worker.job \in JobId /\ jobs[worker.job].status # "absent"
        BY <1>0, <1>5 DEF DeleteStatement, WorkerHasJob
    <2>2. jobs'[worker.job].status # "absent"
        BY <1>5, <2>1, SetJobType DEF DeleteStatement, JobStatus, ActiveStatus
    <2>3. worker' = [worker EXCEPT !.step = "cleanup", !.left = AttemptsLeft(worker.job)]
        BY <1>5 DEF DeleteStatement
    <2>4. AttemptsLeft(worker.job) \in Nat /\ AttemptsLeft(worker.job) > 0
        BY <1>0, <2>1, AttemptsLeftType
    <2>5. /\ worker' \in WorkerState /\ worker'.step = "cleanup" /\ worker'.job = worker.job
          /\ worker'.left > 0
        BY <1>0, <2>3, <2>4 DEF WorkerState
    <2>. QED BY <2>1, <2>2, <2>5 DEF WorkerHasJob
<1>6. ASSUME NEW j \in JobId, ResumeCleanup(j)
      PROVE  Preserved
    <2>1. /\ worker' = [worker EXCEPT !.step = "cleanup", !.job = j, !.left = AttemptsLeft(j)]
          /\ jobs[j].status = "embeddings_pending" /\ UNCHANGED jobs
        BY <1>6 DEF ResumeCleanup
    <2>2. AttemptsLeft(j) \in Nat /\ AttemptsLeft(j) > 0
        BY <1>0, AttemptsLeftType
    <2>3. worker' \in WorkerState /\ worker'.step = "cleanup" /\ worker'.job = j /\ worker'.left > 0
        BY <1>0, <2>1, <2>2 DEF WorkerState
    <2>. QED BY <2>1, <2>3 DEF WorkerHasJob
<1>7. CASE CleanupAttempt
    <2>1. CASE worker' = GoIdle
        BY <1>0, <1>2, <2>1, GoIdleType
    <2>2. CASE worker' # GoIdle
        <3>1. /\ jobs' = [jobs EXCEPT ![worker.job].attempts = @ + 1]
              /\ worker' = [worker EXCEPT !.left = @ - 1,
                                          !.step = IF worker.left = 1 THEN "parking" ELSE "cleanup"]
              /\ worker.step = "cleanup"
            BY <1>7, <2>2 DEF CleanupAttempt
        <3>2. worker.job \in JobId /\ jobs[worker.job].status # "absent" /\ worker.left > 0
            BY <1>0, <3>1 DEF WorkerHasJob
        <3>3. jobs'[worker.job].status # "absent"
            BY <1>0, <3>1, <3>2 DEF JobRow
        <3> DEFINE left == worker.left - 1
                   step == IF worker.left = 1 THEN "parking" ELSE "cleanup"
        <3>4. left \in Nat /\ step \in {"parking", "cleanup"} /\ (step = "cleanup" => left > 0)
            BY <1>0, <3>2 DEF WorkerState
        <3>5. worker' = [worker EXCEPT !.left = left, !.step = step]
            BY <1>0, <3>1 DEF WorkerState
        <3> HIDE DEF left, step
        <3>6. /\ worker' \in WorkerState /\ worker'.job = worker.job
              /\ worker'.step = step /\ worker'.left = left
            BY <1>0, <3>4, <3>5 DEF WorkerState
        <3>. QED BY <3>2, <3>3, <3>4, <3>6 DEF WorkerHasJob
    <2>. QED BY <2>1, <2>2
<1>8. CASE DeleteFails \/ ParkEmbeddings \/ EndCycle \/ ScanCommit \/ ScanRaises
    <2>1. worker' = GoIdle
        BY <1>8 DEF DeleteFails, ParkEmbeddings, EndCycle, ScanCommit, ScanRaises
    <2>. QED BY <1>0, <1>2, <2>1, GoIdleType
<1>9. CASE RemovalRaises \/ Crash
    <2>1. \/ worker' = [GoIdle EXCEPT !.step = "rest"]
          \/ worker' = [GoIdle EXCEPT !.step = "down"]
        BY <1>9 DEF RemovalRaises, Crash
    <2>2. worker' \in WorkerState /\ worker'.step \in {"rest", "down"}
        BY <1>0, <2>1, GoIdleType DEF WorkerState
    <2>. QED BY <1>2, <2>2
<1>10. CASE ScanRead
    <2> DEFINE plan == [p \in Pair |-> ScanWriteFor(p)]
    <2>1. worker' = [worker EXCEPT !.step = "scanning", !.late = FALSE, !.plan = plan]
        BY <1>10 DEF ScanRead
    <2>2. plan \in [Pair -> PlannedWrite]
        BY ScanWriteForType
    <2> HIDE DEF plan
    <2>3. worker' \in WorkerState /\ worker'.step = "scanning"
        BY <1>0, <2>1, <2>2 DEF WorkerState
    <2>. QED BY <1>2, <2>3
<1>11. ASSUME NEW s \in Setting, NEW on \in BOOLEAN, Restart(s, on)
       PROVE  Preserved
    <2>1. worker' = [GoIdle EXCEPT !.setting = s, !.enabled = on]
        BY <1>11 DEF Restart
    <2>2. worker' \in WorkerState /\ worker'.step = "idle"
        BY <1>0, <2>1, GoIdleType DEF WorkerState
    <2>. QED BY <1>2, <2>2
<1>12. ASSUME NEW r \in Request, InsertJob(r)
       PROVE  Preserved
    <2>1. UNCHANGED worker
        BY <1>12 DEF InsertJob
    <2>2. \A j \in JobId : jobs[j].status # "absent" => jobs'[j].status # "absent"
        BY <1>0, <1>12 DEF InsertJob
    <2>. QED BY <1>0, <2>1, <2>2 DEF WorkerHasJob
<1>13. CASE RequestRecheck
    <2>1. worker' = [worker EXCEPT !.late = worker.step = "scanning"] /\ UNCHANGED jobs
        BY <1>13 DEF RequestRecheck
    <2>2. /\ worker' \in WorkerState /\ worker'.step = worker.step
          /\ worker'.job = worker.job /\ worker'.left = worker.left
        BY <1>0, <2>1 DEF WorkerState
    <2>. QED BY <1>0, <2>1, <2>2 DEF WorkerHasJob
<1>. QED
    BY <1>1, <1>3, <1>4, <1>5, <1>6, <1>7, <1>8, <1>9, <1>10, <1>11, <1>12, <1>13
    DEF vars, Next, Ingestion, SkipProbableDuplicate, IngestFile, IngestUnchecked, Persist,
        Removal, Scan, Process, User, CheckConfirm, CheckDismiss, WriteDismiss,
        Override, CorrectTransaction, ReplaceCorrection

LEMMA FaultStep ==
    ASSUME TypeInv, [Next]_vars
    PROVE  crashes' \in 0..MaxCrashes /\ faults' \in 0..MaxFaults
<1>0. crashes \in 0..MaxCrashes /\ faults \in 0..MaxFaults
    BY DEF TypeInv, TypeOK, ProcessTypeOK
<1>1. \/ UNCHANGED faultVars
      \/ crashes' = crashes + 1 /\ crashes < MaxCrashes /\ UNCHANGED faults
      \/ faults' = faults + 1 /\ faults < MaxFaults /\ UNCHANGED crashes
    BY DEF vars, faultVars, Next, Ingestion, SkipProbableDuplicate, IngestFile, IngestUnchecked, Persist,
        Removal, ClaimRemoval, ResumeCleanup, Reverify, DeleteStatement, DeleteFails, CleanupAttempt,
        ParkEmbeddings, RemovalRaises, EndCycle, Scan, ScanRead, ScanCommit, ScanRaises,
        Process, Crash, Restart, User, CheckConfirm, CheckDismiss, InsertJob, WriteDismiss,
        Override, CorrectTransaction, ReplaceCorrection, RequestRecheck
<1>. QED BY <1>0, <1>1, Bounds DEF faultVars

LEMMA TypeStep == TypeInv /\ [Next]_vars => TypeInv'
<1> SUFFICES ASSUME TypeInv, [Next]_vars PROVE TypeInv'
    OBVIOUS
<1>1. ProcessTypeOK'
    BY WorkerStepStep, RequestStep, FaultStep DEF ProcessTypeOK
<1>. QED
    BY <1>1, StatementStep, DuplicateStep, WorkerStepStep, RequestStep DEF TypeInv, TypeOK

\* Every variable has its type in every reachable state, and the worker, its job
\* and the requests in flight refer to rows that exist.
THEOREM TypeCorrect == Spec => []TypeInv
BY TypeInit, TypeStep, PTL DEF Spec

\* Every variable has its type in every reachable state.
THEOREM TypeCorrectness == Spec => []TypeOK
<1>1. TypeInv => TypeOK
    BY DEF TypeInv
<1>. QED BY <1>1, TypeCorrect, PTL

----------------------------------------------------------------------------
(* What is deleted, remembered and decided.                                *)

\* The inductive invariant.  What was deleted and what is remembered follows
\* from what the worker verified; what it verified is not undone before it acts.
SafetyInv ==
    /\ TypeInv
    /\ RememberedNotHeld
    /\ NoStatementLost
    /\ VerifiedIsSafe
    /\ JobFollowsWorker
    /\ PlanStillFits
    /\ RemovedIffDeleted

LEMMA SafetyInit == Init => SafetyInv
<1> SUFFICES ASSUME Init PROVE SafetyInv
    OBVIOUS
<1>1. TypeInv
    BY TypeInit
<1>2. Remembered = {}
    BY DEF Init, Remembered, RememberedState
<1>3. RememberedNotHeld /\ NoStatementLost
    BY <1>2 DEF RememberedNotHeld, NoStatementLost
<1>4. VerifiedIsSafe /\ JobFollowsWorker /\ PlanStillFits
    BY DEF Init, VerifiedIsSafe, JobFollowsWorker, PlanStillFits
<1>5. RemovedIffDeleted
    BY DEF Init, RemovedIffDeleted, NoPair, NoJob, DeletedStatus
<1>. QED BY <1>1, <1>3, <1>4, <1>5 DEF SafetyInv

----------------------------------------------------------------------------
(* Statements held, remembered and overridden.                             *)

\* The four ways the held statements and the remembered files change.
LEMMA StatementChanges ==
    ASSUME TypeInv, [Next]_vars
    PROVE  \/ UNCHANGED <<held, knownVars>>
           \/ \E h \in Hash : SkipProbableDuplicate(h)
           \/ \E h \in Hash : Ingestible(h) /\ Persist(h)
           \/ DeleteStatement
           \/ \E h \in Hash : Override(h)
BY DEF vars, statementVars, knownVars, Next, Ingestion, IngestFile, IngestUnchecked,
       Removal, ClaimRemoval, ResumeCleanup, Reverify, DeleteFails, CleanupAttempt,
       ParkEmbeddings, RemovalRaises, EndCycle, Scan, ScanRead, ScanCommit, ScanRaises,
       Process, Crash, Restart, User, CheckConfirm, CheckDismiss, InsertJob, WriteDismiss,
       CorrectTransaction, ReplaceCorrection, RequestRecheck

\* A skipped file is remembered, and matched to a statement that is held.
LEMMA SkipRemembers ==
    ASSUME TypeInv, NEW h \in Hash, SkipProbableDuplicate(h)
    PROVE  /\ h \notin held /\ UNCHANGED held
           /\ Remembered' = Remembered \cup {h} /\ Overridden' = Overridden
           /\ matched'[h] \in held
           /\ \A k \in Hash \ {h} : matched'[k] = matched[k]
<1>1. /\ known \in [Hash -> KnownState] /\ matched \in [Hash -> Hash \cup {NoHash}]
    BY DEF TypeInv, TypeOK, StatementTypeOK
<1>2. PICK k \in held : /\ known' = [known EXCEPT ![h] = "probable_duplicate"]
                        /\ matched' = [matched EXCEPT ![h] = k]
    BY DEF SkipProbableDuplicate, ProbableDuplicatesOf
<1>3. h \notin held /\ UNCHANGED held /\ known[h] = "none"
    BY DEF SkipProbableDuplicate, Ingestible, statementVars
<1>4. Remembered' = Remembered \cup {h}
    BY <1>1, <1>2 DEF Remembered, RememberedState
<1>5. Overridden' = Overridden
    BY <1>1, <1>2, <1>3 DEF Overridden
<1>. QED BY <1>1, <1>2, <1>3, <1>4, <1>5

\* A removed statement is remembered and matched to the other copy, which stays
\* held, unless the user had overridden its file.
LEMMA DeletionRemembers ==
    ASSUME TypeInv, VerifiedIsSafe, RememberedNotHeld, DeleteStatement,
           NEW remove, remove = jobs[worker.job].remove
    PROVE  /\ remove \in held /\ held' = held \ {remove}
           /\ \/ /\ Remembered' = Remembered \cup {remove} /\ Overridden' = Overridden
                 /\ matched'[remove] \in held'
                 /\ \A k \in Hash \ {remove} : matched'[k] = matched[k]
              \/ /\ remove \in Overridden
                 /\ UNCHANGED <<Remembered, Overridden, matched>>
<1>. DEFINE keep == Other(jobs[worker.job].pair, remove)
<1>1. /\ known \in [Hash -> KnownState] /\ matched \in [Hash -> Hash \cup {NoHash}]
      /\ held \subseteq Hash
    BY DEF TypeInv, TypeOK, StatementTypeOK
<1>2. jobs[worker.job].pair \in Pair
    BY DEF TypeInv, WorkerHasJob, JobHasPair, DeleteStatement
<1>3. remove \in held /\ keep \in held /\ keep # remove /\ remove \in Hash
    BY <1>1, <1>2, OtherIsTheOther DEF VerifiedIsSafe, DeleteStatement
<1>4. held' = held \ {remove} /\ Remember(remove, keep)
    BY DEF DeleteStatement
<1>. HIDE DEF keep
<1>5. known[remove] \in {"none", "overridden"}
    BY <1>1, <1>3 DEF RememberedNotHeld, Remembered, KnownState
<1>6. CASE known[remove] = "none"
    <2>1. /\ known' = [known EXCEPT ![remove] = "confirmed_duplicate"]
          /\ matched' = [matched EXCEPT ![remove] = keep]
        BY <1>1, <1>3, <1>4, <1>6 DEF Remember
    <2>2. Remembered' = Remembered \cup {remove} /\ Overridden' = Overridden
        BY <1>1, <1>3, <1>6, <2>1 DEF Remembered, Overridden, RememberedState
    <2>. QED BY <1>1, <1>3, <1>4, <2>1, <2>2
<1>7. CASE known[remove] = "overridden"
    <2>1. known' = known /\ matched' = matched
        BY <1>1, <1>3, <1>4, <1>7 DEF Remember
    <2>. QED BY <1>3, <1>4, <1>7, <2>1 DEF Remembered, Overridden
<1>. QED BY <1>5, <1>6, <1>7

\* An override turns one remembered file into an overridden one.
LEMMA OverrideForgets ==
    ASSUME TypeInv, NEW h \in Hash, Override(h)
    PROVE  /\ h \in Remembered /\ UNCHANGED <<held, matched>>
           /\ Remembered' = Remembered \ {h} /\ Overridden' = Overridden \cup {h}
<1>1. known \in [Hash -> KnownState] /\ known' = [known EXCEPT ![h] = "overridden"]
    BY DEF TypeInv, TypeOK, StatementTypeOK, Override
<1>2. h \in Remembered /\ UNCHANGED <<held, matched>>
    BY DEF Override, statementVars
<1>3. Remembered' = Remembered \ {h}
    BY <1>1 DEF Remembered, RememberedState
<1>4. Overridden' = Overridden \cup {h}
    BY <1>1 DEF Overridden
<1>. QED BY <1>2, <1>3, <1>4

LEMMA RememberedNotHeldStep ==
    ASSUME SafetyInv, [Next]_vars
    PROVE  RememberedNotHeld'
<1>. USE DEF SafetyInv, RememberedNotHeld
<1>1. CASE UNCHANGED <<held, knownVars>>
    BY <1>1 DEF Remembered, knownVars
<1>2. ASSUME NEW h \in Hash, SkipProbableDuplicate(h)
      PROVE  RememberedNotHeld'
    BY <1>2, SkipRemembers
<1>3. ASSUME NEW h \in Hash, Ingestible(h), Persist(h)
      PROVE  RememberedNotHeld'
    BY <1>3 DEF Ingestible, Persist, Remembered, knownVars
<1>4. CASE DeleteStatement
    BY <1>4, DeletionRemembers
<1>5. ASSUME NEW h \in Hash, Override(h)
      PROVE  RememberedNotHeld'
    BY <1>5, OverrideForgets
<1>. QED BY <1>1, <1>2, <1>3, <1>4, <1>5, StatementChanges

\* Every set of remembered files still has a match outside of it: the new file
\* is matched to a held statement, and a statement that goes is remembered.
LEMMA NoStatementLostStep ==
    ASSUME SafetyInv, [Next]_vars
    PROVE  NoStatementLost'
<1>. DEFINE Kept == held \cup Overridden \cup Remembered
<1>. SUFFICES ASSUME NEW S \in (SUBSET Remembered') \ {{}}
              PROVE  \E h \in S : matched'[h] \in Kept' \ S
    BY DEF NoStatementLost
<1>0. Remembered' \cap held' = {}
    BY RememberedNotHeldStep DEF RememberedNotHeld
<1>1. ASSUME S \subseteq Remembered, Kept \subseteq Kept', \A h \in S : matched'[h] = matched[h]
      PROVE  \E h \in S : matched'[h] \in Kept' \ S
    <2>1. PICK h \in S : matched[h] \in Kept \ S
        BY <1>1 DEF SafetyInv, NoStatementLost
    <2>. QED BY <1>1, <2>1
<1>2. ASSUME NEW h \in S, matched'[h] \in held'
      PROVE  \E k \in S : matched'[k] \in Kept' \ S
    BY <1>0, <1>2
<1>. HIDE DEF Kept
<1>3. CASE UNCHANGED <<held, knownVars>>
    <2>1. UNCHANGED <<Kept, Remembered, matched>>
        BY <1>3 DEF Kept, Remembered, Overridden, knownVars
    <2>. QED BY <1>1, <2>1
<1>4. ASSUME NEW h \in Hash, SkipProbableDuplicate(h)
      PROVE  \E k \in S : matched'[k] \in Kept' \ S
    <2>1. /\ Remembered' = Remembered \cup {h} /\ Kept \subseteq Kept'
          /\ matched'[h] \in held' /\ \A k \in Hash \ {h} : matched'[k] = matched[k]
        BY <1>4, SkipRemembers DEF SafetyInv, Kept
    <2>2. S \subseteq Hash
        BY DEF Remembered
    <2>. QED BY <1>1, <1>2, <2>1, <2>2
<1>5. ASSUME NEW h \in Hash, Persist(h)
      PROVE  \E k \in S : matched'[k] \in Kept' \ S
    <2>1. Kept \subseteq Kept' /\ UNCHANGED <<Remembered, matched>>
        BY <1>5 DEF Persist, Kept, Remembered, Overridden, knownVars
    <2>. QED BY <1>1, <2>1
<1>6. CASE DeleteStatement
    <2> DEFINE remove == jobs[worker.job].remove
    <2>1. S \subseteq Hash
        BY DEF Remembered
    <2>2. CASE /\ Remembered' = Remembered \cup {remove} /\ Overridden' = Overridden
               /\ matched'[remove] \in held'
               /\ \A k \in Hash \ {remove} : matched'[k] = matched[k]
        <3>1. Kept \subseteq Kept'
            BY <1>6, <2>2, DeletionRemembers DEF SafetyInv, Kept
        <3>. QED BY <1>1, <1>2, <2>1, <2>2, <3>1
    <2>3. CASE remove \in Overridden /\ UNCHANGED <<Remembered, Overridden, matched>>
        <3>1. Kept \subseteq Kept'
            BY <1>6, <2>3, DeletionRemembers DEF SafetyInv, Kept
        <3>. QED BY <1>1, <2>3, <3>1
    <2>. QED BY <1>6, <2>2, <2>3, DeletionRemembers DEF SafetyInv
<1>7. ASSUME NEW h \in Hash, Override(h)
      PROVE  \E k \in S : matched'[k] \in Kept' \ S
    <2>1. Kept \subseteq Kept' /\ Remembered' \subseteq Remembered /\ UNCHANGED matched
        BY <1>7, OverrideForgets DEF SafetyInv, Kept
    <2>. QED BY <1>1, <2>1
<1>. QED BY <1>3, <1>4, <1>5, <1>6, <1>7, StatementChanges DEF SafetyInv

----------------------------------------------------------------------------
(* The worker's job and plan.                                              *)

\* Only a deletion takes a statement away.
LEMMA HeldOnlyGrowsElsewhere ==
    ASSUME TypeInv, [Next]_vars, ~DeleteStatement
    PROVE  held \subseteq held'
BY StatementChanges DEF SkipProbableDuplicate, Persist, Override, statementVars

\* Where each of the worker's actions leaves it.
LEMMA WorkerMoves ==
    ASSUME TypeInv
    PROVE  /\ Ingestion => worker.step = "idle" /\ UNCHANGED worker
           /\ \A j \in JobId : ClaimRemoval(j) => worker'.step = "claimed" /\ worker'.job = j
           /\ Reverify => \/ worker'.step = "idle"
                          \/ /\ worker'.step = "verified" /\ worker'.job = worker.job
                             /\ SafeToDelete(jobs[worker.job]) /\ UNCHANGED jobs
           /\ DeleteStatement => worker'.step = "cleanup" /\ worker'.job = worker.job
           /\ \A j \in JobId : ResumeCleanup(j) => worker'.step = "cleanup" /\ worker'.job = j
           /\ CleanupAttempt => \/ worker'.step = "idle"
                                \/ /\ worker'.step \in {"cleanup", "parking"} /\ worker'.job = worker.job
                                   /\ jobs' = [jobs EXCEPT ![worker.job].attempts = @ + 1]
           /\ DeleteFails \/ ParkEmbeddings \/ EndCycle \/ ScanCommit \/ ScanRaises =>
                 worker'.step = "idle"
           /\ RemovalRaises => worker'.step = "rest"
           /\ ScanRead => worker'.step = "scanning" /\ worker'.plan = [p \in Pair |-> ScanWriteFor(p)]
           /\ Process => worker'.step \in {"down", "idle"}
<1>1. worker \in WorkerState /\ GoIdle \in WorkerState /\ GoIdle.step = "idle"
    BY GoIdleType DEF TypeInv, TypeOK, ProcessTypeOK
<1>2. Ingestion => worker.step = "idle" /\ UNCHANGED worker
    BY DEF Ingestion, SkipProbableDuplicate, IngestFile, IngestUnchecked, Persist, Ingestible
<1>3. \A j \in JobId : ClaimRemoval(j) => worker'.step = "claimed" /\ worker'.job = j
    BY <1>1 DEF ClaimRemoval, WorkerState
<1>4. Reverify => \/ worker'.step = "idle"
                  \/ /\ worker'.step = "verified" /\ worker'.job = worker.job
                     /\ SafeToDelete(jobs[worker.job]) /\ UNCHANGED jobs
    BY <1>1 DEF Reverify, GoTo, WorkerState
<1>5. DeleteStatement => worker'.step = "cleanup" /\ worker'.job = worker.job
    BY <1>1 DEF DeleteStatement, WorkerState
<1>6. \A j \in JobId : ResumeCleanup(j) => worker'.step = "cleanup" /\ worker'.job = j
    BY <1>1 DEF ResumeCleanup, WorkerState
<1>7. CleanupAttempt => \/ worker'.step = "idle"
                        \/ /\ worker'.step \in {"cleanup", "parking"} /\ worker'.job = worker.job
                           /\ jobs' = [jobs EXCEPT ![worker.job].attempts = @ + 1]
    BY <1>1 DEF CleanupAttempt, WorkerState
<1>8. DeleteFails \/ ParkEmbeddings \/ EndCycle \/ ScanCommit \/ ScanRaises => worker'.step = "idle"
    BY <1>1 DEF DeleteFails, ParkEmbeddings, EndCycle, ScanCommit, ScanRaises
<1>9. RemovalRaises => worker'.step = "rest"
    BY <1>1 DEF RemovalRaises, WorkerState
<1>10. ScanRead => worker'.step = "scanning" /\ worker'.plan = [p \in Pair |-> ScanWriteFor(p)]
    BY <1>1 DEF ScanRead, WorkerState
<1>11. Process => worker'.step \in {"down", "idle"}
    BY <1>1 DEF Process, Crash, Restart, WorkerState
<1>. QED BY <1>2, <1>3, <1>4, <1>5, <1>6, <1>7, <1>8, <1>9, <1>10, <1>11

\* What a user's request leaves alone: the worker, the jobs there are, the
\* statements held, and of a pair all but that a pending one may be dismissed.
LEMMA UserMoves ==
    ASSUME TypeInv, User \/ UNCHANGED vars
    PROVE  /\ UNCHANGED held
           /\ worker'.step = worker.step /\ worker'.job = worker.job /\ worker'.plan = worker.plan
           /\ \A j \in JobId : jobs[j].status # "absent" => jobs'[j] = jobs[j]
           /\ \A j \in JobId : jobs[j].status = "absent" => jobs'[j].status \in {"absent", "queued"}
           /\ \A p \in Pair : /\ pairs'[p].keep = pairs[p].keep
                              /\ \/ pairs'[p].status = pairs[p].status
                                 \/ pairs[p].status = "pending" /\ pairs'[p].status = "dismissed"
<1>1. /\ worker \in WorkerState /\ jobs \in [JobId -> JobRow] /\ pairs \in [Pair -> PairRow]
    BY DEF TypeInv, TypeOK, ProcessTypeOK, DuplicateTypeOK
<1>2. UNCHANGED held
    BY DEF vars, statementVars, User, CheckConfirm, CheckDismiss, InsertJob, WriteDismiss, Override,
           CorrectTransaction, ReplaceCorrection, RequestRecheck
<1>3. \/ UNCHANGED worker
      \/ worker' = [worker EXCEPT !.late = worker.step = "scanning"]
    BY DEF vars, User, CheckConfirm, CheckDismiss, InsertJob, WriteDismiss, Override,
           CorrectTransaction, ReplaceCorrection, RequestRecheck
<1>4. worker'.step = worker.step /\ worker'.job = worker.job /\ worker'.plan = worker.plan
    BY <1>1, <1>3 DEF WorkerState
<1>5. \/ UNCHANGED jobs
      \/ \E r \in Request : InsertJob(r)
    BY DEF vars, User, CheckConfirm, CheckDismiss, WriteDismiss, Override,
           CorrectTransaction, ReplaceCorrection, RequestRecheck
<1>6. /\ \A j \in JobId : jobs[j].status # "absent" => jobs'[j] = jobs[j]
      /\ \A j \in JobId : jobs[j].status = "absent" => jobs'[j].status \in {"absent", "queued"}
    <2>1. ASSUME NEW r \in Request, InsertJob(r)
          PROVE  \/ UNCHANGED jobs
                 \/ \E j \in JobId : \E row : /\ jobs' = [jobs EXCEPT ![j] = row]
                                             /\ jobs[j].status = "absent" /\ row.status = "queued"
        <3>1. CASE UNCHANGED jobs
            BY <3>1
        <3>2. CASE ~UNCHANGED jobs
            <4> DEFINE row == [status |-> "queued", pair |-> api[r].pair, remove |-> api[r].remove,
                               acknowledged |-> api[r].acknowledged, attempts |-> 0]
            <4>1. PICK j \in JobId : /\ \A i \in JobId : jobs[i].status = "absent" <=> i >= j
                                    /\ jobs' = [jobs EXCEPT ![j] = row]
                BY <2>1, <3>2 DEF InsertJob
            <4>2. jobs[j].status = "absent"
                BY <4>1, Bounds DEF JobId
            <4>3. row.status = "queued"
                OBVIOUS
            <4>. QED BY <4>1, <4>2, <4>3
        <3>. QED BY <3>1, <3>2
    <2>. QED BY <1>1, <1>5, <2>1
<1>7. \/ UNCHANGED pairs
      \/ \E r \in Request : WriteDismiss(r)
    BY DEF vars, User, CheckConfirm, CheckDismiss, InsertJob, Override,
           CorrectTransaction, ReplaceCorrection, RequestRecheck
<1>8. \A p \in Pair : /\ pairs'[p].keep = pairs[p].keep
                      /\ \/ pairs'[p].status = pairs[p].status
                         \/ pairs[p].status = "pending" /\ pairs'[p].status = "dismissed"
    <2>1. ASSUME NEW q \in Pair, pairs[q].status = "pending",
                 pairs' = [pairs EXCEPT ![q].status = "dismissed"], NEW p \in Pair
          PROVE  /\ pairs'[p].keep = pairs[p].keep
                 /\ \/ pairs'[p].status = pairs[p].status
                    \/ pairs[p].status = "pending" /\ pairs'[p].status = "dismissed"
        BY <1>1, <2>1 DEF PairRow
    <2>2. ASSUME NEW r \in Request, WriteDismiss(r)
          PROVE  api[r].pair \in Pair
        BY <2>2 DEF WriteDismiss, TypeInv, RequestHasPair
    <2>. QED BY <1>7, <2>1, <2>2 DEF WriteDismiss
<1>. QED BY <1>2, <1>4, <1>6, <1>8

\* Only re-verification leads to a verified removal, and no request undoes it.
LEMMA VerifiedIsSafeStep ==
    ASSUME SafetyInv, [Next]_vars
    PROVE  VerifiedIsSafe'
<1>. SUFFICES ASSUME worker'.step = "verified" PROVE VerifiedIsSafe'
    BY DEF VerifiedIsSafe
<1>. USE DEF SafetyInv
<1>1. CASE Ingestion \/ Scan \/ Process
    BY <1>1, WorkerMoves DEF Scan
<1>2. CASE Removal
    <2>1. Reverify /\ worker'.job = worker.job /\ SafeToDelete(jobs[worker.job]) /\ UNCHANGED jobs
        BY <1>2, WorkerMoves DEF Removal
    <2>2. UNCHANGED <<held, pairs>>
        BY <2>1 DEF Reverify, statementVars
    <2>. QED BY <2>1, <2>2 DEF SafeToDelete, VerifiedIsSafe
<1>3. CASE User \/ UNCHANGED vars
    <2>1. /\ worker.step = "verified" /\ worker'.job = worker.job /\ UNCHANGED held
          /\ worker.job \in JobId /\ jobs[worker.job].status # "absent"
        BY <1>3, UserMoves DEF TypeInv, WorkerHasJob
    <2>2. jobs[worker.job].pair \in Pair /\ jobs'[worker.job] = jobs[worker.job]
        BY <1>3, <2>1, UserMoves DEF TypeInv, JobHasPair
    <2>3. pairs'[jobs[worker.job].pair].keep = pairs[jobs[worker.job].pair].keep
        BY <1>3, <2>2, UserMoves
    <2>. QED BY <2>1, <2>2, <2>3 DEF VerifiedIsSafe
<1>. QED BY <1>1, <1>2, <1>3 DEF Next

LEMMA JobFollowsWorkerStep ==
    ASSUME SafetyInv, [Next]_vars
    PROVE  JobFollowsWorker'
<1>0. jobs \in [JobId -> JobRow] /\ worker \in WorkerState
    BY DEF SafetyInv, TypeInv, TypeOK, ProcessTypeOK, DuplicateTypeOK
<1>. USE DEF SafetyInv, JobFollowsWorker
<1>1. CASE Ingestion \/ Scan \/ Process
    BY <1>1, WorkerMoves DEF Scan
<1>2. ASSUME NEW j \in JobId, ClaimRemoval(j)
      PROVE  JobFollowsWorker'
    <2>1. jobs'[j].status = "running"
        BY <1>0, <1>2 DEF ClaimRemoval, SetJob, JobRow
    <2>. QED BY <1>2, <2>1, WorkerMoves
<1>3. CASE Reverify
    <2>1. worker.step = "claimed"
        BY <1>3 DEF Reverify
    <2>. QED BY <1>3, <2>1, WorkerMoves
<1>4. CASE DeleteStatement
    <2>1. worker.job \in JobId /\ SetJob(worker.job, "embeddings_pending")
        BY <1>4 DEF DeleteStatement, TypeInv, WorkerHasJob
    <2>2. jobs'[worker.job].status = "embeddings_pending"
        BY <1>0, <2>1 DEF SetJob, JobRow
    <2>. QED BY <1>4, <2>2, WorkerMoves
<1>5. ASSUME NEW j \in JobId, ResumeCleanup(j)
      PROVE  JobFollowsWorker'
    BY <1>5, WorkerMoves DEF ResumeCleanup
<1>6. CASE CleanupAttempt
    <2>1. worker.step = "cleanup" /\ worker.job \in JobId
        BY <1>6 DEF CleanupAttempt, TypeInv, WorkerHasJob
    <2>2. CASE jobs' = [jobs EXCEPT ![worker.job].attempts = @ + 1]
        <3>1. jobs'[worker.job].status = jobs[worker.job].status
            BY <1>0, <2>1, <2>2 DEF JobRow
        <3>. QED BY <1>6, <2>1, <3>1, WorkerMoves
    <2>. QED BY <1>6, <2>2, WorkerMoves
<1>7. CASE DeleteFails \/ ParkEmbeddings \/ EndCycle \/ RemovalRaises
    BY <1>7, WorkerMoves
<1>8. CASE User \/ UNCHANGED vars
    BY <1>8, UserMoves DEF TypeInv, WorkerHasJob
<1>. QED BY <1>1, <1>2, <1>3, <1>4, <1>5, <1>6, <1>7, <1>8 DEF Next, Removal

\* The scan holds the worker, so no pair is removed or recorded beside it.
LEMMA PlanStillFitsStep ==
    ASSUME SafetyInv, [Next]_vars
    PROVE  PlanStillFits'
<1>. SUFFICES ASSUME worker'.step = "scanning" PROVE PlanStillFits'
    BY DEF PlanStillFits
<1>. USE DEF SafetyInv
<1>1. CASE Ingestion \/ Removal \/ Process \/ ScanCommit \/ ScanRaises
    BY <1>1, WorkerMoves DEF Removal
<1>2. CASE ScanRead
    <2>1. worker'.plan = [p \in Pair |-> ScanWriteFor(p)] /\ UNCHANGED pairs
        BY <1>2, WorkerMoves DEF ScanRead
    <2>2. ASSUME NEW p \in Pair
          PROVE  /\ ScanWriteFor(p).effect = "insert" => pairs[p].status = "absent"
                 /\ ScanWriteFor(p).effect \in {"refresh", "supersede"} => pairs[p].status = "pending"
        BY DEF ScanWriteFor, NoWrite
    <2>. QED BY <2>1, <2>2 DEF PlanStillFits
<1>3. CASE User \/ UNCHANGED vars
    BY <1>3, UserMoves DEF PlanStillFits
<1>. QED BY <1>1, <1>2, <1>3 DEF Next, Scan

\* Only the deletion removes a pair, with its job; what a scan writes over a
\* pair was decided while it held the worker.
LEMMA RemovedIffDeletedStep ==
    ASSUME SafetyInv, [Next]_vars
    PROVE  RemovedIffDeleted'
<1>0. /\ jobs \in [JobId -> JobRow] /\ pairs \in [Pair -> PairRow] /\ worker \in WorkerState
      /\ WorkerHasJob /\ JobHasPair /\ JobFollowsWorker /\ RemovedIffDeleted
    BY DEF SafetyInv, TypeInv, TypeOK, ProcessTypeOK, DuplicateTypeOK
<1>. DEFINE Deleted(j) == jobs[j].status \in DeletedStatus
\* A step that neither removes a pair nor deletes for a job.
<1>1. ASSUME \A p \in Pair : pairs'[p].status = "removed" <=> pairs[p].status = "removed",
             \A j \in JobId : jobs'[j].status \in DeletedStatus <=> Deleted(j),
             \A j \in JobId : Deleted(j) => jobs'[j].pair = jobs[j].pair
      PROVE  RemovedIffDeleted'
    BY <1>0, <1>1 DEF RemovedIffDeleted
\* A step that sets the status of one job, on the same side of its deletion.
<1>2. ASSUME NEW j \in JobId, NEW s, SetJob(j, s), UNCHANGED pairs, s \in DeletedStatus <=> Deleted(j)
      PROVE  RemovedIffDeleted'
    <2>1. \A i \in JobId : /\ jobs'[i].pair = jobs[i].pair
                           /\ jobs'[i].status = IF i = j THEN s ELSE jobs[i].status
        BY <1>0, <1>2 DEF SetJob, JobRow
    <2>. QED BY <1>1, <1>2, <2>1
<1>3. CASE UNCHANGED <<pairs, jobs>>
    BY <1>1, <1>3
<1>4. ASSUME NEW j \in JobId, ClaimRemoval(j)
      PROVE  RemovedIffDeleted'
    BY <1>2, <1>4 DEF ClaimRemoval, DeletedStatus
<1>5. CASE Reverify \/ DeleteFails
    <2>1. /\ worker.job \in JobId /\ jobs[worker.job].status = "running" /\ UNCHANGED pairs
          /\ SetJob(worker.job, "failed") \/ UNCHANGED jobs
        BY <1>0, <1>5 DEF Reverify, DeleteFails, WorkerHasJob, JobFollowsWorker
    <2>. QED BY <1>2, <1>3, <2>1 DEF DeletedStatus
<1>6. CASE ParkEmbeddings
    <2>1. /\ worker.job \in JobId /\ jobs[worker.job].status = "embeddings_pending" /\ UNCHANGED pairs
          /\ SetJob(worker.job, "embeddings_failed")
        BY <1>0, <1>6 DEF ParkEmbeddings, WorkerHasJob, JobFollowsWorker
    <2>. QED BY <1>2, <2>1 DEF DeletedStatus
<1>7. CASE CleanupAttempt
    <2>1. /\ worker.job \in JobId /\ jobs[worker.job].status = "embeddings_pending" /\ UNCHANGED pairs
          /\ \/ jobs' = [jobs EXCEPT ![worker.job].attempts = @ + 1, ![worker.job].status = "completed"]
             \/ jobs' = [jobs EXCEPT ![worker.job].attempts = @ + 1]
        BY <1>0, <1>7 DEF CleanupAttempt, WorkerHasJob, JobFollowsWorker
    <2>2. \A i \in JobId : /\ jobs'[i].pair = jobs[i].pair
                           /\ i # worker.job => jobs'[i].status = jobs[i].status
                           /\ jobs'[worker.job].status \in {"embeddings_pending", "completed"}
        BY <1>0, <2>1 DEF JobRow
    <2>. QED BY <1>1, <2>1, <2>2 DEF DeletedStatus
<1>8. CASE DeleteStatement
    <2> DEFINE j == worker.job
               q == jobs[j].pair
    <2>1. /\ j \in JobId /\ q \in Pair /\ jobs[j].status = "running"
          /\ SetJob(j, "embeddings_pending") /\ pairs' = [pairs EXCEPT ![q].status = "removed"]
        BY <1>0, <1>8 DEF DeleteStatement, WorkerHasJob, JobHasPair, JobFollowsWorker
    <2>2. \A i \in JobId : /\ jobs'[i].pair = jobs[i].pair
                           /\ jobs'[i].status = IF i = j THEN "embeddings_pending" ELSE jobs[i].status
        BY <1>0, <2>1 DEF SetJob, JobRow
    <2>3. \A p \in Pair : pairs'[p].status = IF p = q THEN "removed" ELSE pairs[p].status
        BY <1>0, <2>1 DEF PairRow
    <2> HIDE DEF j, q
    <2>4. jobs[j].pair = q
        BY DEF q
    <2>5. \A i \in JobId : jobs'[i].status \in DeletedStatus <=> i = j \/ Deleted(i)
        BY <2>2 DEF DeletedStatus
    <2>. QED BY <1>0, <2>1, <2>2, <2>3, <2>4, <2>5 DEF RemovedIffDeleted
<1>9. CASE ScanCommit
    <2>1. worker.step = "scanning" /\ UNCHANGED jobs /\ pairs' = [p \in Pair |-> Applied(pairs[p], worker.plan[p])]
        BY <1>9 DEF ScanCommit
    <2>2. ASSUME NEW p \in Pair
          PROVE  pairs'[p].status = "removed" <=> pairs[p].status = "removed"
        <3>1. /\ worker.plan[p].effect = "insert" => pairs[p].status = "absent"
              /\ worker.plan[p].effect \in {"refresh", "supersede"} =>
                    pairs[p].status \in {"pending", "dismissed"}
            BY <2>1 DEF SafetyInv, PlanStillFits
        <3>2. pairs[p] \in PairRow /\ pairs'[p] = Applied(pairs[p], worker.plan[p])
            BY <1>0, <2>1
        <3>. QED BY <3>1, <3>2 DEF Applied, PairRow
    <2>. QED BY <1>1, <2>1, <2>2
<1>10. ASSUME NEW s \in Setting, NEW on \in BOOLEAN, Restart(s, on)
       PROVE  RemovedIffDeleted'
    <2>1. UNCHANGED pairs /\ \A j \in JobId :
             /\ jobs'[j].pair = jobs[j].pair
             /\ jobs'[j].status = IF jobs[j].status = "running" THEN "failed" ELSE jobs[j].status
        BY <1>0, <1>10 DEF Restart, JobRow
    <2>. QED BY <1>1, <2>1 DEF DeletedStatus
<1>11. CASE User \/ UNCHANGED vars
    <2>1. \A p \in Pair : pairs'[p].status = "removed" <=> pairs[p].status = "removed"
        BY <1>11, UserMoves DEF SafetyInv
    <2>2. \A j \in JobId : /\ jobs'[j].status \in DeletedStatus <=> Deleted(j)
                           /\ Deleted(j) => jobs'[j].pair = jobs[j].pair
        BY <1>11, UserMoves DEF SafetyInv, DeletedStatus
    <2>. QED BY <1>1, <2>1, <2>2
<1>. QED
    BY <1>3, <1>4, <1>5, <1>6, <1>7, <1>8, <1>9, <1>10, <1>11
    DEF Next, Ingestion, SkipProbableDuplicate, IngestFile, IngestUnchecked, Persist,
        Removal, ResumeCleanup, RemovalRaises, EndCycle, Scan, ScanRead, ScanRaises, Process, Crash

----------------------------------------------------------------------------
(* The theorems.                                                           *)

LEMMA SafetyStep == SafetyInv /\ [Next]_vars => SafetyInv'
<1> SUFFICES ASSUME SafetyInv, [Next]_vars PROVE SafetyInv'
    OBVIOUS
<1>1. TypeInv'
    BY TypeStep DEF SafetyInv
<1>. QED
    BY <1>1, RememberedNotHeldStep, NoStatementLostStep, VerifiedIsSafeStep, JobFollowsWorkerStep,
       PlanStillFitsStep, RemovedIffDeletedStep
    DEF SafetyInv

\* The strengthened invariant holds in every reachable state.
THEOREM Safety == Spec => []SafetyInv
BY SafetyInit, SafetyStep, PTL DEF Spec

\* A file remembered as a duplicate, skipped or removed, is never also held.
THEOREM RememberedIsNotHeld == Spec => []RememberedNotHeld
BY Safety, PTL DEF SafetyInv

\* From every skipped or removed file the chain of matched statements ends at a
\* statement that is held or a file the user overrode.
THEOREM NothingIsLost == Spec => []NoStatementLost
BY Safety, PTL DEF SafetyInv

\* A pair reads removed exactly when one of its jobs deleted its statement.
THEOREM RemovalIsRecorded == Spec => []RemovedIffDeleted
BY Safety, PTL DEF SafetyInv

\* What was verified for a deletion holds when the deletion happens.
THEOREM VerificationHolds == Spec => []VerifiedIsSafe
BY Safety, PTL DEF SafetyInv

\* A statement a removal deletes leaves the other copy of its pair held.
THEOREM OtherCopyIsKept == Spec => RemovalKeepsTheOtherCopy
<1> DEFINE Kept(h) == \E p \in Pair : /\ h \in p
                                      /\ Other(p, h) \in held'
                                      /\ pairs[p].keep = Other(p, h)
                                      /\ pairs'[p].status = "removed"
<1>1. SafetyInv /\ [Next]_vars => [\A h \in held \ held' : Kept(h)]_vars
    <2> SUFFICES ASSUME SafetyInv, [Next]_vars, NEW h \in held \ held'
                 PROVE  Kept(h)
        OBVIOUS
    <2> DEFINE job == jobs[worker.job]
               p == job.pair
    <2>1. DeleteStatement /\ held' = held \ {job.remove} /\ h = job.remove
        BY HeldOnlyGrowsElsewhere DEF SafetyInv, DeleteStatement
    <2>2. p \in Pair /\ h \in p /\ Other(p, h) \in held /\ pairs[p].keep = Other(p, h)
        BY <2>1 DEF SafetyInv, TypeInv, WorkerHasJob, JobHasPair, VerifiedIsSafe, DeleteStatement
    <2>3. Other(p, h) \in held'
        BY <2>1, <2>2, OtherIsTheOther
    <2>4. pairs'[p].status = "removed"
        BY <2>1, <2>2 DEF DeleteStatement, SafetyInv, TypeInv, TypeOK, DuplicateTypeOK, PairRow
    <2>. QED BY <2>2, <2>3, <2>4
<1>. QED BY <1>1, Safety, PTL DEF Spec, RemovalKeepsTheOtherCopy

\* A pair that was decided or superseded never becomes pending again.
THEOREM DecisionsStay == Spec => NeverReopened
<1>1. SafetyInv /\ [Next]_vars =>
         [\A p \in Pair : pairs[p].status \in DecidedStatus => pairs'[p].status \in DecidedStatus]_vars
    <2> SUFFICES ASSUME SafetyInv, [Next]_vars, NEW p \in Pair, pairs[p].status \in DecidedStatus
                 PROVE  pairs'[p].status \in DecidedStatus
        OBVIOUS
    <2>0. pairs \in [Pair -> PairRow]
        BY DEF SafetyInv, TypeInv, TypeOK, DuplicateTypeOK
    <2>1. CASE UNCHANGED pairs
        BY <2>1
    <2>2. CASE DeleteStatement
        BY <2>0, <2>2 DEF DeleteStatement, PairRow, DecidedStatus
    <2>3. CASE ScanCommit
        <3>1. worker.plan[p].effect = "insert" => pairs[p].status = "absent"
            BY <2>3 DEF ScanCommit, SafetyInv, PlanStillFits
        <3>2. pairs'[p] = Applied(pairs[p], worker.plan[p]) /\ pairs[p] \in PairRow
            BY <2>0, <2>3 DEF ScanCommit
        <3>. QED BY <3>1, <3>2 DEF Applied, PairRow, DecidedStatus
    <2>4. CASE User
        BY <2>4, UserMoves DEF SafetyInv, DecidedStatus
    <2>. QED
        BY <2>1, <2>2, <2>3, <2>4
        DEF vars, Next, Ingestion, SkipProbableDuplicate, IngestFile, IngestUnchecked, Persist,
            Removal, ClaimRemoval, ResumeCleanup, Reverify, DeleteFails, CleanupAttempt,
            ParkEmbeddings, RemovalRaises, EndCycle, Scan, ScanRead, ScanRaises, Process, Crash, Restart
<1>. QED BY <1>1, Safety, PTL DEF Spec, NeverReopened
=============================================================================
