----------------------- MODULE RecategorizationProofs -----------------------
(***************************************************************************)
(* Proofs about Recategorization, for any transactions, categories, jobs   *)
(* and requests: its types, and what the worker's job decided from earlier *)
(* reads against what requests committed since.                            *)
(***************************************************************************)
EXTENDS Recategorization, FiniteSetTheorems, TLAPS

\* Assign keeps a row a row, whatever row was loaded.
LEMMA AssignType ==
    ASSUME NEW row \in Row, NEW seen, NEW c \in Category, NEW s \in Source
    PROVE  Assign(row, seen, c, s) \in Row
BY DEF Assign, Row

\* What a job reads of a transaction is a row.
LEMMA SeenType ==
    ASSUME TypeOK, NEW t \in Transaction
    PROVE  Seen(t) \in Row
<1>1. "similarity" \in Source
  BY DEF Source
<1>2. scan.proposed \in Category /\ txns[t] \in Row
  BY DEF TypeOK, WorkerState
<1> QED BY <1>1, <1>2, AssignType DEF Seen

\* A worker between jobs.
LEMMA AtType ==
    ASSUME NEW s \in {"down", "idle", "claimed"}
    PROVE  /\ At(s) \in WorkerState /\ At(s).step = s
           /\ \A j \in Job : [At(s) EXCEPT !.job = j] \in WorkerState
           /\ \A j \in Job : [At(s) EXCEPT !.job = j].step = s /\ [At(s) EXCEPT !.job = j].job = j
BY RecategorizationAssumption DEF At, WorkerState, Found

\* A request that is not in flight.
LEMMA IdleType == Idle \in RequestState /\ NoWrite \in Write
<1>1. NoWrite \in Write
  BY RecategorizationAssumption DEF NoWrite, Write, Source, NoRow, Row
<1> QED BY <1>1 DEF Idle, RequestState

\* The number of applied matches is a natural number.
LEMMA CountType ==
    ASSUME TypeOK
    PROVE  UpdatedCount(scan.found) \in Nat
<1>1. Applied(scan.found) \subseteq Transaction
  BY DEF Applied
<1>2. IsFiniteSet(Applied(scan.found))
  BY <1>1, RecategorizationAssumption, FS_Subset
<1> QED BY <1>2, FS_CardinalityType DEF UpdatedCount

\* The initial state.
LEMMA TypeInit == Init => TypeOK
<1> SUFFICES ASSUME Init PROVE TypeOK
  OBVIOUS
<1> USE RecategorizationAssumption DEF Init
<1>1. txns \in [Transaction -> Row] /\ disagreements \in [Transaction -> DisagreementRow]
  BY DEF NoRow, Row, NoDisagreement, DisagreementRow
<1>2. jobs \in [Job -> JobRow] /\ \A j \in Job : jobs[j].status = "none" <=> jobs[j].source = NoTransaction
  BY DEF NoJobRow, JobRow
<1>3. proposals \in [Job -> [Transaction -> ProposalRow]]
  BY DEF NoProposal, ProposalRow
<1>4. scan \in WorkerState /\ scan.step = "down"
  BY AtType
<1>5. api \in [Request -> RequestState] /\ \A r \in Request : api[r].op = "idle"
  BY IdleType DEF Idle
<1>6. touched \subseteq Transaction
  OBVIOUS
<1> QED BY <1>1, <1>2, <1>3, <1>4, <1>5, <1>6 DEF TypeOK, DisagreementOp

----------------------------------------------------------------------------
(* Steps of the worker.                                                    *)

LEMMA TypePersist ==
    ASSUME TypeOK, NEW t \in Transaction, NEW similar \in Precedents, NEW llm \in Category,
           PersistTransaction(t, similar, llm)
    PROVE  TypeOK'
<1>1. similar # {} => (CHOOSE c \in similar : TRUE) \in Category
  BY DEF Precedents, TypeOK, Row
<1>2. Categorize(similar, llm) \in Row
  BY <1>1, RecategorizationAssumption DEF Categorize, Row, UnsureRow, Source
<1>3. Disagreement(similar, llm) \in DisagreementRow
  BY <1>1, RecategorizationAssumption DEF Disagreement, DisagreementRow, NoDisagreement
<1>4. txns' \in [Transaction -> Row] /\ disagreements' \in [Transaction -> DisagreementRow]
  BY <1>2, <1>3 DEF PersistTransaction, TypeOK
<1> QED BY <1>4 DEF PersistTransaction, TypeOK

LEMMA TypeClaim ==
    ASSUME TypeOK, NEW j \in Job, ClaimJob(j)
    PROVE  TypeOK'
<1>1. jobs' \in [Job -> JobRow]
  BY DEF ClaimJob, TypeOK, JobRow
<1>2. \A i \in Job : jobs'[i].status = "none" <=> jobs'[i].source = NoTransaction
  BY DEF ClaimJob, TypeOK, JobRow
<1>3. scan' \in WorkerState /\ scan'.job \in Job /\ jobs'[scan'.job].status = "running"
  BY AtType DEF ClaimJob, TypeOK, JobRow
<1> QED BY <1>1, <1>2, <1>3 DEF ClaimJob, TypeOK

\* Reading and flushing change the worker only, and keep its job.
LEMMA TypeScan ==
    ASSUME TypeOK, scan.step \notin {"down", "idle"},
           scan' \in WorkerState, scan'.job = scan.job, UNCHANGED <<rowVars, api, touched>>
    PROVE  TypeOK'
BY DEF TypeOK, rowVars

LEMMA TypeReading ==
    ASSUME TypeOK,
           \/ ReadSource \/ ListUnsure \/ ListPending
           \/ \E t \in Transaction, match \in Found : MatchUnsure(t, match)
           \/ \E T \in SUBSET Transaction : FlagNeighbours(T) \/ FlagBestText(T)
    PROVE  TypeOK'
<1>1. scan \in WorkerState
  BY DEF TypeOK
<1>2. ASSUME NEW T \in SUBSET Transaction, scan.step \in ReadingStep
      PROVE  Flag(T) \in WorkerState /\ Flag(T).job = scan.job
  BY <1>1 DEF Flag, WorkerState, ReadingStep, Found
<1>3. CASE ReadSource
  <2>1. txns[jobs[scan.job].source].cat \in Category
    BY <1>3 DEF ReadSource, TypeOK, JobRow, Row
  <2>2. scan' \in WorkerState /\ scan'.job = scan.job
    BY <1>1, <1>3, <2>1 DEF ReadSource, WorkerState, ReadingStep
  <2> QED BY <1>3, <2>2, TypeScan DEF ReadSource
<1>4. CASE ListUnsure
  <2>1. scan' \in WorkerState /\ scan'.job = scan.job
    BY <1>1, <1>4 DEF ListUnsure, WorkerState, ReadingStep, FindUnsureTransactions
  <2> QED BY <1>4, <2>1, TypeScan DEF ListUnsure
<1>5. CASE ListPending
  <2>1. scan' \in WorkerState /\ scan'.job = scan.job
    BY <1>1, <1>5 DEF ListPending, WorkerState, ReadingStep
  <2> QED BY <1>5, <2>1, TypeScan DEF ListPending
<1>6. ASSUME NEW t \in Transaction, NEW match \in Found, MatchUnsure(t, match)
      PROVE  TypeOK'
  <2>1. scan' \in WorkerState /\ scan'.job = scan.job
    BY <1>1, <1>6 DEF MatchUnsure, WorkerState
  <2> QED BY <1>6, <2>1, TypeScan DEF MatchUnsure
<1>7. ASSUME NEW T \in SUBSET Transaction, FlagNeighbours(T)
      PROVE  TypeOK'
  <2>1. scan' \in WorkerState /\ scan'.job = scan.job
    BY <1>1, <1>2, <1>7 DEF FlagNeighbours, WorkerState, ReadingStep
  <2> QED BY <1>7, <2>1, TypeScan DEF FlagNeighbours
<1>8. ASSUME NEW T \in SUBSET Transaction, FlagBestText(T)
      PROVE  TypeOK'
  <2>1. scan' \in WorkerState /\ scan'.job = scan.job
    BY <1>2, <1>8 DEF FlagBestText, ReadingStep
  <2> QED BY <1>8, <2>1, TypeScan DEF FlagBestText
<1> QED BY <1>3, <1>4, <1>5, <1>6, <1>7, <1>8

LEMMA TypeCommitJob ==
    ASSUME TypeOK, NEW row, scan.step \notin {"down", "idle"}, CommitJob(row),
           row \in JobRow, row.status # "none", row.source # NoTransaction,
           UNCHANGED <<disagreements, api>>
    PROVE  TypeOK'
<1>1. txns' \in [Transaction -> Row]
  BY SeenType DEF CommitJob
<1>2. scan.job \in Job /\ scan.found \in [Transaction -> Found] /\ scan.proposed \in Category
  BY DEF TypeOK, WorkerState
<1>3. \A t \in Transaction : scan.found[t] # "none" =>
         [status |-> scan.found[t], cat |-> scan.proposed] \in ProposalRow
  BY <1>2 DEF Found, ProposalRow
<1>4. proposals' \in [Job -> [Transaction -> ProposalRow]]
  BY <1>2, <1>3 DEF CommitJob, TypeOK
<1>5. jobs' \in [Job -> JobRow] /\ \A j \in Job : jobs'[j].status = "none" <=> jobs'[j].source = NoTransaction
  BY DEF CommitJob, TypeOK
<1>6. scan' \in WorkerState /\ scan'.step = "idle"
  BY AtType DEF CommitJob
<1> QED BY <1>1, <1>4, <1>5, <1>6 DEF CommitJob, TypeOK

LEMMA TypeEndJob ==
    ASSUME TypeOK, CompleteJob \/ JobRaises
    PROVE  TypeOK'
<1>1. scan.step \notin {"down", "idle"}
  BY DEF CompleteJob, JobRaises, ReadingStep
<1>2. scan.job \in Job /\ jobs[scan.job] \in JobRow /\ jobs[scan.job].source # NoTransaction
  BY <1>1 DEF TypeOK
<1>3. CASE CompleteJob
  <2> DEFINE row == [jobs[scan.job] EXCEPT !.status = "completed", !.updated = UpdatedCount(scan.found)]
  <2>1. row \in JobRow /\ row.status # "none" /\ row.source # NoTransaction
    BY <1>2, CountType DEF JobRow, FinishedStatus
  <2> QED BY <1>1, <1>3, <2>1, TypeCommitJob DEF CompleteJob
<1>4. CASE JobRaises
  <2> DEFINE row == [jobs[scan.job] EXCEPT !.status = "failed"]
  <2>1. row \in JobRow /\ row.status # "none" /\ row.source # NoTransaction
    BY <1>2 DEF JobRow, FinishedStatus
  <2> QED BY <1>1, <1>4, <2>1, TypeCommitJob DEF JobRaises
<1> QED BY <1>3, <1>4

LEMMA TypeFailure ==
    ASSUME TypeOK, SessionFails \/ Crash
    PROVE  TypeOK'
<1>1. scan' \in WorkerState /\ scan'.step \in {"down", "idle"}
  BY AtType DEF SessionFails, Crash
<1> QED BY <1>1 DEF SessionFails, Crash, TypeOK, rowVars

LEMMA TypeStart ==
    ASSUME TypeOK, StartWorker
    PROVE  TypeOK'
<1>1. scan' \in WorkerState /\ scan'.step = "idle"
  BY AtType DEF StartWorker
<1>2. jobs' \in [Job -> JobRow]
  BY DEF StartWorker, TypeOK, JobRow, FinishedStatus
<1>3. \A j \in Job : jobs'[j].status = "none" <=> jobs'[j].source = NoTransaction
  BY DEF StartWorker, TypeOK, JobRow, StaleStatus
<1> QED BY <1>1, <1>2, <1>3 DEF StartWorker, TypeOK

----------------------------------------------------------------------------
(* Steps of requests.                                                      *)

\* Loading, flushing and dropping change the request only.
LEMMA TypeApi ==
    ASSUME TypeOK, NEW r \in Request, NEW x \in RequestState,
           x.op \in {"correct"} \cup DisagreementOp => x.loaded # NoTransaction,
           api' = [api EXCEPT ![r] = x], UNCHANGED <<rowVars, scan, touched>>
    PROVE  TypeOK'
BY DEF TypeOK, rowVars

LEMMA OpenType ==
    ASSUME NEW op \in {"correct"} \cup DisagreementOp, NEW t \in Transaction, NEW w \in Write
    PROVE  LET x == [Idle EXCEPT !.op = op, !.loaded = t, !.writes[t] = w]
           IN  x \in RequestState /\ x.loaded # NoTransaction
BY IdleType, RecategorizationAssumption DEF Idle, RequestState

LEMMA LoadedType ==
    ASSUME TypeOK, NEW p \in Job \X Transaction, NEW op
    PROVE  Loaded(p, op) \in Write
<1>1. p[1] \in Job /\ p[2] \in Transaction
  OBVIOUS
<1>2. proposals[p[1]][p[2]].cat \in Category /\ txns[p[2]] \in Row
  BY <1>1 DEF TypeOK, ProposalRow
<1> QED BY <1>1, <1>2, IdleType DEF Loaded, Write, Source

LEMMA TypeLoading ==
    ASSUME TypeOK, NEW r \in Request,
           User(r) \/ (\E p \in api[r].todo : LoadNext(r, p)) \/ FlushProposal(r) \/ DropRequest(r)
    PROVE  TypeOK'
<1>1. api[r] \in RequestState /\ txns \in [Transaction -> Row]
  BY DEF TypeOK
<1>2. ASSUME NEW t \in Transaction, NEW c \in Active, LoadForCorrection(r, t, c)
      PROVE  TypeOK'
  <2> DEFINE w == [job |-> NoJob, cat |-> c, src |-> "manual", seen |-> txns[t]]
  <2>1. w \in Write
    BY <1>1, RecategorizationAssumption DEF Write, Source
  <2> DEFINE x == [Idle EXCEPT !.op = "correct", !.loaded = t, !.writes[t] = w]
  <2> HIDE DEF w
  <2>2. x \in RequestState /\ x.loaded # NoTransaction
    BY <2>1, OpenType
  <2>3. api' = [api EXCEPT ![r] = x] /\ UNCHANGED <<rowVars, scan, touched>>
    BY <1>2 DEF LoadForCorrection, Open, w
  <2> HIDE DEF x
  <2> QED BY <2>2, <2>3, TypeApi
<1>3. ASSUME NEW t \in Transaction, NEW c \in Category, LoadToResolve(r, t, c)
      PROVE  TypeOK'
  <2> DEFINE w == [job |-> NoJob, cat |-> c, seen |-> txns[t],
                   src |-> IF c = disagreements[t].similarity THEN "similarity" ELSE "llm"]
  <2>1. w \in Write
    BY <1>1 DEF Write, Source
  <2> DEFINE x == [Idle EXCEPT !.op = "resolve", !.loaded = t, !.writes[t] = w]
  <2> HIDE DEF w
  <2>2. x \in RequestState /\ x.loaded # NoTransaction
    BY <2>1, OpenType DEF DisagreementOp
  <2>3. api' = [api EXCEPT ![r] = x] /\ UNCHANGED <<rowVars, scan, touched>>
    BY <1>3 DEF LoadToResolve, Open, w
  <2> HIDE DEF x
  <2> QED BY <2>2, <2>3, TypeApi
<1>4. ASSUME NEW t \in Transaction, LoadToDismiss(r, t)
      PROVE  TypeOK'
  <2> DEFINE x == [Idle EXCEPT !.op = "dismiss", !.loaded = t, !.writes[t] = NoWrite]
  <2>1. x \in RequestState /\ x.loaded # NoTransaction
    BY IdleType, OpenType DEF DisagreementOp
  <2>2. api' = [api EXCEPT ![r] = x] /\ UNCHANGED <<rowVars, scan, touched>>
    BY <1>4 DEF LoadToDismiss, Open
  <2> HIDE DEF x
  <2> QED BY <2>1, <2>2, TypeApi
<1>5. ASSUME NEW P \in SUBSET {p \in Job \X Transaction : proposals[p[1]][p[2]].status = "pending"},
             NEW op \in ReviewOp, NEW p \in P, LoadToReview(r, op, P, p)
      PROVE  TypeOK'
  <2>1. p \in Job \X Transaction /\ p[2] \in Transaction
    OBVIOUS
  <2>2. Loaded(p, op) \in Write
    BY <2>1, LoadedType
  <2>3. P \ {p} \in SUBSET (Job \X Transaction)
    OBVIOUS
  <2> DEFINE x == [Idle EXCEPT !.op = op, !.todo = P \ {p}, !.loaded = p[2], !.writes[p[2]] = Loaded(p, op)]
  <2>4. x \in RequestState /\ x.op = op
    BY <2>1, <2>2, <2>3, IdleType DEF Idle, RequestState
  <2>5. op \notin {"correct"} \cup DisagreementOp
    BY DEF ReviewOp, DisagreementOp
  <2>6. api' = [api EXCEPT ![r] = x] /\ UNCHANGED <<rowVars, scan, touched>>
    BY <1>5 DEF LoadToReview
  <2> HIDE DEF x
  <2> QED BY <2>4, <2>5, <2>6, TypeApi
<1>6. ASSUME NEW p \in api[r].todo, LoadNext(r, p)
      PROVE  TypeOK'
  <2>1. p \in Job \X Transaction /\ p[2] \in Transaction
    BY <1>1 DEF RequestState
  <2>2. Loaded(p, api[r].op) \in Write
    BY <2>1, LoadedType
  <2>3. api[r].op \notin {"correct"} \cup DisagreementOp
    BY <1>6 DEF LoadNext, TypeOK
  <2> DEFINE y == [api[r] EXCEPT !.todo = @ \ {p}]
             x == [y EXCEPT !.loaded = p[2], !.writes[p[2]] = Loaded(p, api[r].op)]
  <2>4. /\ x \in RequestState /\ x.op = api[r].op
        /\ y \in RequestState /\ y.op = api[r].op
    BY <1>1, <2>1, <2>2 DEF RequestState
  <2>5. api' = [api EXCEPT ![r] = IF proposals[p[1]][p[2]].status = "pending" THEN x ELSE y]
    BY <1>6 DEF LoadNext, TypeOK
  <2>6. UNCHANGED <<rowVars, scan, touched>>
    BY <1>6 DEF LoadNext
  <2> HIDE DEF x, y
  <2> QED BY <2>3, <2>4, <2>5, <2>6, TypeApi
<1>7. CASE FlushProposal(r)
  <2> DEFINE x == [api[r] EXCEPT !.flushed = @ \cup {api[r].loaded}, !.loaded = NoTransaction]
  <2>1. x \in RequestState /\ x.op = api[r].op /\ x.op \notin {"correct"} \cup DisagreementOp
    BY <1>1, <1>7 DEF FlushProposal, RequestState, ReviewOp, DisagreementOp
  <2>2. api' = [api EXCEPT ![r] = x]
    BY <1>7 DEF FlushProposal, TypeOK
  <2>3. UNCHANGED <<rowVars, scan, touched>>
    BY <1>7 DEF FlushProposal
  <2> HIDE DEF x
  <2> QED BY <2>1, <2>2, <2>3, TypeApi
<1>8. CASE DropRequest(r)
  <2>1. Idle \in RequestState /\ Idle.op = "idle"
    BY IdleType DEF Idle
  <2> QED BY <1>8, <2>1, TypeApi DEF DropRequest, DisagreementOp
<1> QED BY <1>2, <1>3, <1>4, <1>5, <1>6, <1>7, <1>8 DEF User

LEMMA TypeCommit ==
    ASSUME TypeOK, NEW r \in Request,
           CommitCorrection(r) \/ CommitDisagreement(r) \/ CommitReview(r)
    PROVE  TypeOK'
<1>1. api[r] \in RequestState /\ CommitTransactions(r)
  BY DEF TypeOK, CommitCorrection, CommitDisagreement, CommitReview
<1>2. txns' \in [Transaction -> Row]
  <2>1. \A t \in Transaction : api[r].writes[t].cat \in Category /\ api[r].writes[t].src \in Source
    BY <1>1 DEF RequestState, Write
  <2>2. \A t \in Transaction : txns[t] \in Row
    BY DEF TypeOK
  <2> QED BY <1>1, <2>1, <2>2, AssignType DEF CommitTransactions
<1>3. touched' \subseteq Transaction
  BY <1>1 DEF CommitTransactions, Written, RequestState, TypeOK
<1>4. api' \in [Request -> RequestState]
      /\ \A q \in Request : api'[q].op \in {"correct"} \cup DisagreementOp => api'[q].loaded # NoTransaction
  BY <1>1, IdleType DEF CommitTransactions, TypeOK, Idle, DisagreementOp
<1>5. CASE CommitCorrection(r)
  <2>1. api[r].loaded \in Transaction
    BY <1>1, <1>5 DEF CommitCorrection, TypeOK, RequestState
  <2>2. PICK j \in Job : jobs[j].status = "none" /\ jobs' = [jobs EXCEPT ![j] = NewJob(api[r].loaded)]
    BY <1>5 DEF CommitCorrection
  <2>3. NewJob(api[r].loaded) \in JobRow /\ NewJob(api[r].loaded).status # "none"
        /\ NewJob(api[r].loaded).source # NoTransaction
    BY <2>1, RecategorizationAssumption DEF NewJob, JobRow
  <2>4. jobs' \in [Job -> JobRow] /\ \A i \in Job : jobs'[i].status = "none" <=> jobs'[i].source = NoTransaction
    BY <2>2, <2>3 DEF TypeOK
  <2>5. scan.step \notin {"down", "idle"} => jobs'[scan.job].status = "running"
    BY <2>2 DEF TypeOK
  <2> QED BY <1>2, <1>3, <1>4, <1>5, <2>4, <2>5 DEF CommitCorrection, TypeOK
<1>6. CASE CommitDisagreement(r)
  <2> DEFINE t == api[r].loaded
             s == IF api[r].op = "resolve" THEN "resolved" ELSE "rejected"
  <2>1. \A u \in Transaction : [disagreements[u] EXCEPT !.status = s] \in DisagreementRow
    BY DEF TypeOK, DisagreementRow
  <2>2. disagreements' = [disagreements EXCEPT ![t].status = s]
    BY <1>6 DEF CommitDisagreement
  <2> HIDE DEF s, t
  <2>3. disagreements' \in [Transaction -> DisagreementRow]
    BY <2>1, <2>2 DEF TypeOK
  <2> QED BY <1>2, <1>3, <1>4, <1>6, <2>3 DEF CommitDisagreement, TypeOK
<1>7. CASE CommitReview(r)
  <2>1. \A j \in Job : \A t \in Transaction : proposals[j][t] \in ProposalRow
    BY DEF TypeOK
  <2>2. proposals' \in [Job -> [Transaction -> ProposalRow]]
    BY <1>7, <2>1 DEF CommitReview, ProposalRow
  <2> QED BY <1>2, <1>3, <1>4, <1>7, <2>2 DEF CommitReview, TypeOK
<1> QED BY <1>5, <1>6, <1>7

----------------------------------------------------------------------------

LEMMA TypeStep == TypeOK /\ [Next]_vars => TypeOK'
<1> SUFFICES ASSUME TypeOK, [Next]_vars PROVE TypeOK'
  OBVIOUS
<1>1. CASE Ingest
  BY <1>1, TypePersist DEF Ingest
<1>2. CASE Recategorize
  BY <1>2, TypeClaim, TypeReading, TypeEndJob DEF Recategorize
<1>3. CASE JobRaises \/ SessionFails \/ Crash \/ StartWorker
  BY <1>3, TypeEndJob, TypeFailure, TypeStart
<1>4. ASSUME NEW r \in Request, User(r) \/ Answer(r)
      PROVE  TypeOK'
  BY <1>4, TypeLoading, TypeCommit DEF Answer
<1>5. CASE UNCHANGED vars
  BY <1>5 DEF vars, rowVars, TypeOK
<1> QED BY <1>1, <1>2, <1>3, <1>4, <1>5 DEF Next

\* Every reachable state has its type: the ORM rows, the worker's session, the
\* requests in flight (recategorize_unsure_from_precedent and the review handlers).
THEOREM RowsHaveTypes == Spec => []TypeOK
<1>1. Init => TypeOK
  BY TypeInit
<1>2. TypeOK /\ [Next]_vars => TypeOK'
  BY TypeStep
<1> QED BY <1>1, <1>2, PTL DEF Spec

----------------------------------------------------------------------------
(* What steps leave alone.                                                 *)

\* Loading, flushing and dropping change nothing but the request.
LEMMA LoadingOnlyLoads ==
    ASSUME NEW r \in Request,
           User(r) \/ (\E p \in api[r].todo : LoadNext(r, p)) \/ FlushProposal(r) \/ DropRequest(r)
    PROVE  UNCHANGED <<rowVars, scan, touched>>
BY DEF User, LoadForCorrection, LoadToDismiss, LoadToResolve, LoadToReview, LoadNext,
       FlushProposal, DropRequest

\* A commit leaves the worker alone, and of the jobs changes at most an unused one.
LEMMA CommitLeavesWorker ==
    ASSUME TypeOK, NEW r \in Request,
           CommitCorrection(r) \/ CommitDisagreement(r) \/ CommitReview(r)
    PROVE  /\ scan' = scan /\ CommitTransactions(r)
           /\ \A j \in Job : jobs[j].status # "none" => jobs'[j] = jobs[j]
           /\ \A j \in Job : jobs[j].status = "none" =>
                 jobs'[j] = jobs[j] \/ jobs'[j].status = "queued"
BY DEF TypeOK, CommitCorrection, CommitDisagreement, CommitReview, NewJob

\* Reading changes nothing but the worker.
Reads ==
    \/ ReadSource \/ ListUnsure \/ ListPending
    \/ \E t \in Transaction, match \in Found : MatchUnsure(t, match)
    \/ \E T \in SUBSET Transaction : FlagNeighbours(T) \/ FlagBestText(T)

LEMMA ReadingOnlyReads ==
    ASSUME Reads
    PROVE  UNCHANGED <<rowVars, api, touched>>
BY DEF Reads, ReadSource, ListUnsure, ListPending, MatchUnsure, FlagNeighbours, FlagBestText

\* Flagging T proposes T, keeps what was found before, and ends or falls back.
LEMMA FlagFound ==
    ASSUME TypeOK, NEW T \in SUBSET Transaction, FlagNeighbours(T) \/ FlagBestText(T)
    PROVE  /\ scan.step \in {"flagging", "fallback"} /\ scan'.step \in {"fallback", "done"}
           /\ scan'.job = scan.job /\ scan'.proposed = scan.proposed
           /\ T \subseteq CrossCategory /\ T \subseteq scan.todo /\ scan'.todo \subseteq scan.todo
           /\ \A t \in Transaction : scan'.found[t] = IF t \in T THEN "pending" ELSE scan.found[t]
<1>1. scan \in WorkerState
  BY DEF TypeOK
<1>2. CASE scan' = Flag(T)
  BY <1>1, <1>2 DEF Flag, FlagNeighbours, FlagBestText, CrossCategory, WorkerState
<1>3. CASE scan' = [scan EXCEPT !.step = "fallback"] /\ T = {}
  BY <1>1, <1>3 DEF FlagNeighbours, FlagBestText, WorkerState
<1> QED BY <1>2, <1>3 DEF FlagNeighbours, FlagBestText

\* Both ends of a job are its session's commit.
LEMMA EndCommits ==
    ASSUME TypeOK, CompleteJob \/ JobRaises
    PROVE  /\ scan.step \in ReadingStep \cup {"claimed"}
           /\ scan.job \in Job /\ jobs[scan.job].status = "running"
           /\ scan' = At("idle") /\ UNCHANGED <<disagreements, api>>
           /\ txns' = [t \in Transaction |-> Seen(t)]
           /\ proposals' = [proposals EXCEPT ![scan.job] = [t \in Transaction |->
                  IF scan.found[t] = "none" THEN proposals[scan.job][t]
                  ELSE [status |-> scan.found[t], cat |-> scan.proposed]]]
           /\ \A j \in Job \ {scan.job} : jobs'[j] = jobs[j]
           /\ jobs'[scan.job].status \in FinishedStatus
<1>1. scan.step \in ReadingStep \cup {"claimed"}
  BY DEF CompleteJob, JobRaises, ReadingStep
<1>2. scan.job \in Job /\ jobs[scan.job] \in JobRow /\ jobs[scan.job].status = "running"
  BY <1>1 DEF TypeOK, ReadingStep
<1>3. jobs \in [Job -> JobRow]
  BY DEF TypeOK
<1>4. CASE CompleteJob
  BY <1>1, <1>2, <1>3, <1>4 DEF CompleteJob, CommitJob, JobRow, FinishedStatus
<1>5. CASE JobRaises
  BY <1>1, <1>2, <1>3, <1>5 DEF JobRaises, CommitJob, JobRow, FinishedStatus
<1> QED BY <1>4, <1>5

\* The steps, grouped by what they change.
LEMMA StepCases ==
    ASSUME [Next]_vars
    PROVE  \/ \E t \in Transaction, similar \in Precedents, llm \in Category :
                  PersistTransaction(t, similar, llm)
           \/ \E j \in Job : ClaimJob(j)
           \/ Reads
           \/ CompleteJob \/ JobRaises
           \/ SessionFails \/ Crash \/ StartWorker
           \/ \E r \in Request : \/ User(r) \/ (\E p \in api[r].todo : LoadNext(r, p))
                                 \/ FlushProposal(r) \/ DropRequest(r)
           \/ \E r \in Request : CommitCorrection(r) \/ CommitDisagreement(r) \/ CommitReview(r)
           \/ UNCHANGED vars
BY DEF Next, Ingest, Recategorize, Reads, Answer

----------------------------------------------------------------------------
(* Jobs end once.                                                          *)

LEMMA JobsEndStep ==
    ASSUME TypeOK, [Next]_vars, NEW j \in Job, jobs[j].status \in FinishedStatus
    PROVE  jobs'[j] = jobs[j]
<1>1. jobs[j].status \notin {"none", "queued", "running"}
  BY DEF FinishedStatus
<1>2. ASSUME NEW i \in Job, ClaimJob(i) PROVE jobs'[j] = jobs[j]
  BY <1>1, <1>2 DEF ClaimJob, TypeOK
<1>3. CASE CompleteJob \/ JobRaises
  BY <1>1, <1>3, EndCommits
<1>4. CASE StartWorker
  BY <1>1, <1>4 DEF StartWorker, StaleStatus
<1>5. ASSUME NEW r \in Request, CommitCorrection(r) \/ CommitDisagreement(r) \/ CommitReview(r)
      PROVE  jobs'[j] = jobs[j]
  BY <1>1, <1>5, CommitLeavesWorker
<1>6. CASE \/ SessionFails \/ Crash \/ UNCHANGED vars
           \/ \E t \in Transaction, similar \in Precedents, llm \in Category :
                  PersistTransaction(t, similar, llm)
  BY <1>6 DEF SessionFails, Crash, vars, rowVars, PersistTransaction
<1>7. CASE Reads
  BY <1>7, ReadingOnlyReads DEF rowVars
<1>8. ASSUME NEW r \in Request,
             User(r) \/ (\E p \in api[r].todo : LoadNext(r, p)) \/ FlushProposal(r) \/ DropRequest(r)
      PROVE  jobs'[j] = jobs[j]
  BY <1>8, LoadingOnlyLoads DEF rowVars
<1> QED BY <1>2, <1>3, <1>4, <1>5, <1>6, <1>7, <1>8, StepCases

\* A job that has ended keeps its result over restarts and later corrections
\* (fail_stale_recategorize_jobs fails the active ones only).
THEOREM EndedJobsStay == Spec => JobsEndOnce
<1>1. TypeOK /\ [Next]_vars => \A j \in Job : jobs[j].status \in FinishedStatus => jobs'[j] = jobs[j]
  BY JobsEndStep
<1>2. TypeOK /\ [Next]_vars => [\A j \in Job : jobs[j].status \in FinishedStatus => jobs'[j] = jobs[j]]_vars
  BY <1>1
<1> QED BY <1>2, RowsHaveTypes, PTL DEF Spec, JobsEndOnce
----------------------------------------------------------------------------
(* At most one pending proposal for a transaction.                         *)

\* What a job is about to look at or to flag awaits no review: no other job runs.
PendingInv ==
    \A t \in Transaction : t \in scan.todo \/ scan.found[t] = "pending" => ~Pending(t)

LEMMA PendingInit == Init => PendingInv /\ AtMostOnePending
BY DEF Init, At, NoProposal, PendingInv, AtMostOnePending

\* Steps that leave the worker alone, or reset it, and make no proposal pending.
LEMMA PendingShrinks ==
    ASSUME PendingInv, AtMostOnePending,
           scan' = scan \/ (scan'.todo = {} /\ \A t \in Transaction : scan'.found[t] = "none"),
           \A j \in Job : \A t \in Transaction :
               proposals'[j][t].status = "pending" => proposals[j][t].status = "pending"
    PROVE  PendingInv' /\ AtMostOnePending'
BY DEF PendingInv, AtMostOnePending, Pending

LEMMA PendingReads ==
    ASSUME TypeOK, PendingInv, AtMostOnePending, Reads
    PROVE  PendingInv' /\ AtMostOnePending'
<1>1. UNCHANGED proposals
  BY ReadingOnlyReads DEF rowVars
<1>2. AtMostOnePending' /\ \A t \in Transaction : Pending(t)' <=> Pending(t)
  BY <1>1 DEF AtMostOnePending, Pending
<1>3. SUFFICES ASSUME NEW t \in Transaction, (t \in scan.todo \/ scan.found[t] = "pending")'
               PROVE  ~Pending(t)
  BY <1>2 DEF PendingInv
<1>4. scan \in WorkerState
  BY DEF TypeOK
<1>5. CASE ReadSource
  BY <1>3, <1>4, <1>5 DEF ReadSource, PendingInv, WorkerState
<1>6. CASE ListUnsure
  BY <1>3, <1>4, <1>6 DEF ListUnsure, PendingInv, WorkerState, FindUnsureTransactions
<1>7. CASE ListPending
  BY <1>3, <1>4, <1>7 DEF ListPending, PendingInv, WorkerState
<1>8. ASSUME NEW u \in Transaction, NEW match \in Found, MatchUnsure(u, match)
      PROVE  ~Pending(t)
  BY <1>3, <1>4, <1>8 DEF MatchUnsure, PendingInv, WorkerState
<1>9. ASSUME NEW T \in SUBSET Transaction, FlagNeighbours(T) \/ FlagBestText(T)
      PROVE  ~Pending(t)
  BY <1>3, <1>9, FlagFound DEF PendingInv
<1> QED BY <1>5, <1>6, <1>7, <1>8, <1>9 DEF Reads

LEMMA PendingEnd ==
    ASSUME TypeOK, PendingInv, AtMostOnePending, CompleteJob \/ JobRaises
    PROVE  PendingInv' /\ AtMostOnePending'
<1>1. proposals \in [Job -> [Transaction -> ProposalRow]] /\ scan.job \in Job
  BY EndCommits DEF TypeOK
<1>2. ASSUME NEW j \in Job, NEW t \in Transaction
      PROVE  proposals'[j][t] = IF j # scan.job \/ scan.found[t] = "none" THEN proposals[j][t]
                                ELSE [status |-> scan.found[t], cat |-> scan.proposed]
  BY <1>1, EndCommits
<1>3. AtMostOnePending'
  <2> SUFFICES ASSUME NEW t \in Transaction, NEW i \in Job, NEW j \in Job,
                      proposals'[i][t].status = "pending", proposals'[j][t].status = "pending"
               PROVE  i = j
    BY DEF AtMostOnePending
  <2>1. CASE scan.found[t] = "pending"
    <3>1. \A k \in Job : proposals[k][t].status # "pending"
      BY <2>1 DEF PendingInv, Pending
    <3>2. i = scan.job /\ j = scan.job
      BY <1>2, <3>1
    <3> QED BY <3>2
  <2>2. CASE scan.found[t] # "pending"
    <3>1. [status |-> scan.found[t], cat |-> scan.proposed].status # "pending"
      BY <2>2
    <3>2. proposals[i][t].status = "pending" /\ proposals[j][t].status = "pending"
      BY <1>2, <3>1
    <3> QED BY <3>2 DEF AtMostOnePending
  <2> QED BY <2>1, <2>2
<1>4. scan'.todo = {} /\ \A t \in Transaction : scan'.found[t] = "none"
  BY EndCommits DEF At
<1> QED BY <1>3, <1>4 DEF PendingInv

LEMMA PendingStep ==
    ASSUME TypeOK, PendingInv, AtMostOnePending, [Next]_vars
    PROVE  PendingInv' /\ AtMostOnePending'
<1>1. ASSUME NEW r \in Request, CommitCorrection(r) \/ CommitDisagreement(r) \/ CommitReview(r)
      PROVE  PendingInv' /\ AtMostOnePending'
  <2>1. \A j \in Job : \A t \in Transaction : proposals[j][t] \in ProposalRow
    BY DEF TypeOK
  <2>2. CASE CommitReview(r)
    <3>1. \A j \in Job : \A t \in Transaction :
              proposals'[j][t].status = "pending" => proposals[j][t].status = "pending"
      BY <2>1, <2>2 DEF CommitReview, ProposalRow
    <3> QED BY <1>1, <3>1, CommitLeavesWorker, PendingShrinks
  <2>3. CASE CommitCorrection(r) \/ CommitDisagreement(r)
    <3>1. proposals' = proposals /\ scan' = scan
      BY <2>3 DEF CommitCorrection, CommitDisagreement
    <3> QED BY <3>1, PendingShrinks
  <2> QED BY <1>1, <2>2, <2>3
<1>2. ASSUME NEW r \in Request,
             User(r) \/ (\E p \in api[r].todo : LoadNext(r, p)) \/ FlushProposal(r) \/ DropRequest(r)
      PROVE  PendingInv' /\ AtMostOnePending'
  <2>1. proposals' = proposals /\ scan' = scan
    BY <1>2, LoadingOnlyLoads DEF rowVars
  <2> QED BY <2>1, PendingShrinks
<1>3. ASSUME NEW j \in Job, ClaimJob(j) PROVE PendingInv' /\ AtMostOnePending'
  BY <1>3, PendingShrinks DEF ClaimJob, At
<1>4. CASE SessionFails \/ Crash \/ StartWorker \/ UNCHANGED vars
  BY <1>4, PendingShrinks DEF SessionFails, Crash, StartWorker, vars, rowVars, At
<1>5. CASE \E t \in Transaction, similar \in Precedents, llm \in Category :
               PersistTransaction(t, similar, llm)
  BY <1>5, PendingShrinks DEF PersistTransaction
<1> QED BY <1>1, <1>2, <1>3, <1>4, <1>5, PendingReads, PendingEnd, StepCases

\* A transaction that awaits review is proposed once, over any number of
\* corrections, jobs, failures and overlapping reviews (find_unsure_transactions,
\* list_pending_proposal_candidate_ids).
THEOREM OnePendingProposal == Spec => []AtMostOnePending
<1>1. Init => PendingInv /\ AtMostOnePending
  BY PendingInit
<1>2. TypeOK /\ PendingInv /\ AtMostOnePending /\ [Next]_vars => PendingInv' /\ AtMostOnePending'
  BY PendingStep
<1> QED BY <1>1, <1>2, RowsHaveTypes, PTL DEF Spec
----------------------------------------------------------------------------
(* What a job writes over.                                                 *)

\* Before it has read its source, a worker has found nothing.
NothingFoundYet ==
    scan.step \notin ReadingStep =>
        scan.todo = {} /\ \A t \in Transaction : scan.found[t] = "none"

\* What a job applies, or is about to look at, was unsure when it was listed, and
\* whoever has changed it since is recorded.
AppliedWasUnsure ==
    \A t \in Transaction :
        scan.found[t] = "auto_applied" \/ (scan.step = "unsure" /\ t \in scan.todo)
            => txns[t].src = "unsure" \/ t \in touched

\* Until a request changes it, a job's source is as the job has read it.
SourceAsRead ==
    scan.step \in ReadingStep =>
        LET s == jobs[scan.job].source
        IN  /\ scan.step # "done" /\ s \notin touched =>
                  txns[s].src = "manual" /\ txns[s].cat = scan.proposed
            /\ scan.found[s] # "none" => s \in touched

RaceInv == NothingFoundYet /\ AppliedWasUnsure /\ SourceAsRead

LEMMA RaceInit == Init => RaceInv
BY DEF Init, At, RaceInv, NothingFoundYet, AppliedWasUnsure, SourceAsRead, ReadingStep

\* A worker that reads nothing and has found nothing.
LEMMA RaceAt ==
    ASSUME scan'.step \in {"down", "idle", "claimed"}, scan'.todo = {},
           \A t \in Transaction : scan'.found[t] = "none"
    PROVE  RaceInv'
BY DEF RaceInv, NothingFoundYet, AppliedWasUnsure, SourceAsRead, ReadingStep

LEMMA SourceExists ==
    ASSUME TypeOK, scan.step \notin {"down", "idle"}
    PROVE  scan.job \in Job /\ jobs[scan.job].source \in Transaction
           /\ jobs[scan.job].status = "running"
BY DEF TypeOK, JobRow

LEMMA RaceReads ==
    ASSUME TypeOK, RaceInv, Reads
    PROVE  RaceInv'
<1>1. UNCHANGED <<txns, jobs, touched>> /\ scan \in WorkerState
  BY ReadingOnlyReads DEF TypeOK, rowVars
<1>2. scan.step \notin {"down", "idle"}
  BY DEF Reads, ReadSource, ListUnsure, ListPending, MatchUnsure, FlagNeighbours, FlagBestText
<1> DEFINE s == jobs[scan.job].source
<1>3. s \in Transaction /\ scan.job \in Job
  BY <1>2, SourceExists
<1>4. CASE ReadSource
  <2>1. /\ scan'.todo = scan.todo /\ scan'.found = scan.found /\ scan'.job = scan.job
        /\ scan'.proposed = txns[s].cat /\ scan'.step \in {"listing", "done"}
        /\ scan'.step = "listing" => txns[s].src = "manual"
    BY <1>1, <1>4 DEF ReadSource, WorkerState
  <2>2. scan.todo = {} /\ \A t \in Transaction : scan.found[t] = "none"
    BY <1>4 DEF ReadSource, RaceInv, NothingFoundYet, ReadingStep
  <2> QED BY <1>1, <1>3, <2>1, <2>2
          DEF RaceInv, NothingFoundYet, AppliedWasUnsure, SourceAsRead, ReadingStep
<1>5. CASE ListUnsure
  <2>1. /\ scan'.todo = FindUnsureTransactions /\ scan'.found = scan.found /\ scan'.job = scan.job
        /\ scan'.proposed = scan.proposed /\ scan'.step = "unsure" /\ scan.step = "listing"
    BY <1>1, <1>5 DEF ListUnsure, WorkerState
  <2>2. \A t \in FindUnsureTransactions : txns[t].src = "unsure"
    BY DEF FindUnsureTransactions
  <2> QED BY <1>1, <1>3, <2>1, <2>2
          DEF RaceInv, NothingFoundYet, AppliedWasUnsure, SourceAsRead, ReadingStep
<1>6. ASSUME NEW u \in Transaction, NEW match \in Found, MatchUnsure(u, match)
      PROVE  RaceInv'
  <2>1. /\ scan'.todo = scan.todo \ {u} /\ u \in scan.todo /\ scan'.job = scan.job
        /\ scan'.proposed = scan.proposed /\ scan'.step = "unsure" /\ scan.step = "unsure"
        /\ \A t \in Transaction : scan'.found[t] = IF t = u THEN match ELSE scan.found[t]
    BY <1>1, <1>6 DEF MatchUnsure, WorkerState
  <2>2. txns[u].src = "unsure" \/ u \in touched
    BY <2>1 DEF RaceInv, AppliedWasUnsure
  <2>3. NothingFoundYet' /\ AppliedWasUnsure'
    BY <1>1, <2>1, <2>2 DEF RaceInv, NothingFoundYet, AppliedWasUnsure, ReadingStep
  <2>4. u = s => s \in touched
    BY <2>1, <2>2 DEF RaceInv, SourceAsRead, ReadingStep
  <2>5. SourceAsRead'
    BY <1>1, <1>3, <2>1, <2>4 DEF RaceInv, SourceAsRead, ReadingStep
  <2> QED BY <2>3, <2>5 DEF RaceInv
<1>7. CASE ListPending
  <2>1. /\ scan'.found = scan.found /\ scan'.job = scan.job
        /\ scan'.proposed = scan.proposed /\ scan'.step = "flagging" /\ scan.step = "unsure"
    BY <1>1, <1>7 DEF ListPending, WorkerState
  <2> QED BY <1>1, <1>3, <2>1
          DEF RaceInv, NothingFoundYet, AppliedWasUnsure, SourceAsRead, ReadingStep
<1>8. ASSUME NEW T \in SUBSET Transaction, FlagNeighbours(T) \/ FlagBestText(T)
      PROVE  RaceInv'
  <2>1. NothingFoundYet' /\ AppliedWasUnsure'
    BY <1>1, <1>8, FlagFound DEF RaceInv, NothingFoundYet, AppliedWasUnsure, ReadingStep
  <2>2. s \in T => s \in touched
    <3>1. CASE FlagNeighbours(T)
      BY <3>1 DEF FlagNeighbours
    <3>2. CASE FlagBestText(T)
      <4> SUFFICES ASSUME s \in T, s \notin touched PROVE FALSE
        OBVIOUS
      <4>1. txns[s].cat = scan.proposed /\ scan.found[s] = "none"
        BY <1>3, <3>2 DEF FlagBestText, RaceInv, SourceAsRead, ReadingStep
      <4>2. Seen(s).cat # scan.proposed
        BY <3>2 DEF FlagBestText, CrossCategory
      <4> QED BY <4>1, <4>2 DEF Seen
    <3> QED BY <1>8, <3>1, <3>2
  <2>3. SourceAsRead'
    BY <1>1, <1>3, <1>8, <2>2, FlagFound DEF RaceInv, SourceAsRead, ReadingStep
  <2> QED BY <2>1, <2>3 DEF RaceInv
<1> QED BY <1>4, <1>5, <1>6, <1>7, <1>8 DEF Reads

LEMMA RaceCommit ==
    ASSUME TypeOK, RaceInv, NEW r \in Request,
           CommitCorrection(r) \/ CommitDisagreement(r) \/ CommitReview(r)
    PROVE  RaceInv'
<1>1. scan' = scan /\ CommitTransactions(r)
  BY CommitLeavesWorker
<1>2. scan.step \notin ReadingStep => RaceInv'
  BY <1>1 DEF RaceInv, NothingFoundYet, AppliedWasUnsure, SourceAsRead, ReadingStep
<1>3. ASSUME scan.step \in ReadingStep, NEW t \in Transaction
      PROVE  (t \in touched => t \in touched') /\ (txns'[t] = txns[t] \/ t \in touched')
  <2>1. txns \in [Transaction -> Row]
    BY DEF TypeOK
  <2> QED BY <1>1, <1>3, <2>1 DEF CommitTransactions
<1>4. scan.step \in ReadingStep =>
          scan.job \in Job /\ jobs[scan.job].source \in Transaction /\ jobs'[scan.job] = jobs[scan.job]
  BY SourceExists, CommitLeavesWorker DEF ReadingStep
<1>5. scan.step \in ReadingStep => AppliedWasUnsure' /\ SourceAsRead' /\ NothingFoundYet'
  BY <1>1, <1>3, <1>4 DEF RaceInv, NothingFoundYet, AppliedWasUnsure, SourceAsRead
<1> QED BY <1>2, <1>5 DEF RaceInv

LEMMA RaceStep ==
    ASSUME TypeOK, RaceInv, [Next]_vars
    PROVE  RaceInv'
<1>1. CASE \/ \E r \in Request : \/ User(r) \/ (\E p \in api[r].todo : LoadNext(r, p))
                                 \/ FlushProposal(r) \/ DropRequest(r)
           \/ UNCHANGED vars
  <2>1. UNCHANGED <<rowVars, scan, touched>>
    BY <1>1, LoadingOnlyLoads DEF vars
  <2> QED BY <2>1 DEF rowVars, RaceInv, NothingFoundYet, AppliedWasUnsure, SourceAsRead
<1>2. CASE \E j \in Job : ClaimJob(j)
  BY <1>2, RaceAt DEF ClaimJob, At
<1>3. CASE SessionFails \/ Crash \/ StartWorker
  BY <1>3, RaceAt DEF SessionFails, Crash, StartWorker, At
<1>4. CASE CompleteJob \/ JobRaises
  BY <1>4, EndCommits, RaceAt DEF At
<1>5. CASE \E t \in Transaction, similar \in Precedents, llm \in Category :
               PersistTransaction(t, similar, llm)
  <2>1. scan.step \notin ReadingStep /\ scan' = scan
    BY <1>5 DEF PersistTransaction, ReadingStep
  <2> QED BY <2>1 DEF RaceInv, NothingFoundYet, AppliedWasUnsure, SourceAsRead, ReadingStep
<1> QED BY <1>1, <1>2, <1>3, <1>4, <1>5, RaceReads, RaceCommit, StepCases

LEMMA RaceAlways == Spec => []RaceInv
<1>1. Init => RaceInv
  BY RaceInit
<1>2. TypeOK /\ RaceInv /\ [Next]_vars => RaceInv'
  BY RaceStep
<1> QED BY <1>1, <1>2, RowsHaveTypes, PTL DEF Spec

\* A job proposes its own source only if a request changed the source after the
\* job had read it (the fallback of recategorize_unsure_from_precedent).
THEOREM SelfProposalsAreRaced == Spec => []OnlyRacedSelfProposals
<1>1. RaceInv => OnlyRacedSelfProposals
  BY DEF RaceInv, SourceAsRead, OnlyRacedSelfProposals
<1> QED BY <1>1, RaceAlways, PTL

LEMMA LostStep ==
    ASSUME TypeOK, RaceInv, [Next]_vars, scan' # scan,
           NEW t \in Transaction, txns'[t] # txns[t]
    PROVE  txns[t].src = "unsure" \/ t \in touched
<1>1. CASE CompleteJob \/ JobRaises
  <2>1. Seen(t) # txns[t]
    BY <1>1, EndCommits
  <2>2. scan.found[t] = "auto_applied"
    BY <2>1 DEF Seen
  <2> QED BY <2>2 DEF RaceInv, AppliedWasUnsure
<1>2. \/ \E r \in Request : CommitCorrection(r) \/ CommitDisagreement(r) \/ CommitReview(r)
      \/ \E u \in Transaction, similar \in Precedents, llm \in Category :
             PersistTransaction(u, similar, llm)
      => scan' = scan
  BY CommitLeavesWorker DEF PersistTransaction
<1>3. \/ \E r \in Request : \/ User(r) \/ (\E p \in api[r].todo : LoadNext(r, p))
                            \/ FlushProposal(r) \/ DropRequest(r)
      \/ UNCHANGED vars
      => scan' = scan
  BY LoadingOnlyLoads DEF vars
<1>4. (\E j \in Job : ClaimJob(j)) \/ SessionFails \/ Crash \/ StartWorker \/ Reads => txns' = txns
  BY ReadingOnlyReads DEF ClaimJob, SessionFails, Crash, StartWorker, rowVars
<1> QED BY <1>1, <1>2, <1>3, <1>4, StepCases

\* A job overwrites a transaction that is not unsure only if a request committed to
\* it after the job had begun to read: an earlier correction or approval is safe.
THEOREM OnlyRacesLoseRows == Spec => OnlyRacedRowsLost
<1>1. TypeOK /\ RaceInv /\ [Next]_vars =>
         [scan' # scan => \A t \in Transaction :
             txns'[t] # txns[t] => txns[t].src = "unsure" \/ t \in touched]_vars
  BY LostStep
<1> QED BY <1>1, RowsHaveTypes, RaceAlways, PTL DEF Spec, OnlyRacedRowsLost
----------------------------------------------------------------------------
(* Proposals and what reviews do to them.                                  *)

\* A job's proposals appear with its end.
ProposedAtTheEnd ==
    \A j \in Job : jobs[j].status \notin FinishedStatus =>
        \A t \in Transaction : proposals[j][t].status = "none"

\* A review writes proposals that await review, or that another one has answered.
ReviewableStatus == {"pending", "approved", "rejected"}

ReviewsProposal(r, t) ==
    api[r].op \in ReviewOp /\ t \in Written(r) =>
        /\ api[r].writes[t].job \in Job
        /\ proposals[api[r].writes[t].job][t].status \in ReviewableStatus

ReviewInv ==
    /\ ProposedAtTheEnd
    /\ \A r \in Request : \A t \in Transaction : ReviewsProposal(r, t)
    /\ CountMatchesProposals

LEMMA ReviewInit == Init => ReviewInv
BY DEF Init, Idle, NoJobRow, NoProposal, ReviewInv, ProposedAtTheEnd, ReviewsProposal, ReviewOp,
       CountMatchesProposals

\* Steps that leave the proposals alone and complete no job.
LEMMA ReviewStays ==
    ASSUME ReviewInv, UNCHANGED <<proposals, api>>,
           \A j \in Job : \/ jobs'[j] = jobs[j]
                          \/ jobs[j].status \notin FinishedStatus /\ jobs'[j].status # "completed"
    PROVE  ReviewInv'
<1>1. ProposedAtTheEnd'
  BY DEF ReviewInv, ProposedAtTheEnd, FinishedStatus
<1>2. CountMatchesProposals'
  BY DEF ReviewInv, CountMatchesProposals
<1>3. \A r \in Request : \A t \in Transaction : ReviewsProposal(r, t)'
  BY DEF ReviewInv, ReviewsProposal, Written
<1> QED BY <1>1, <1>2, <1>3 DEF ReviewInv

LEMMA ReviewLoads ==
    ASSUME TypeOK, ReviewInv, NEW r \in Request,
           User(r) \/ (\E p \in api[r].todo : LoadNext(r, p)) \/ FlushProposal(r) \/ DropRequest(r)
    PROVE  ReviewInv'
<1>1. UNCHANGED <<jobs, proposals>> /\ api[r] \in RequestState /\ api \in [Request -> RequestState]
  BY LoadingOnlyLoads DEF TypeOK, rowVars
<1>2. \A q \in Request : q # r => api'[q] = api[q]
  BY <1>1 DEF User, LoadForCorrection, LoadToDismiss, LoadToResolve, LoadToReview, Open, LoadNext,
              FlushProposal, DropRequest
<1>3. ProposedAtTheEnd' /\ CountMatchesProposals'
  BY <1>1 DEF ReviewInv, ProposedAtTheEnd, CountMatchesProposals
<1>4. SUFFICES ASSUME NEW t \in Transaction PROVE ReviewsProposal(r, t)'
  <2>1. ASSUME NEW q \in Request, q # r, NEW t \in Transaction PROVE ReviewsProposal(q, t)'
    BY <1>1, <1>2, <2>1 DEF ReviewInv, ReviewsProposal, Written
  <2> QED BY <1>3, <1>4, <2>1 DEF ReviewInv
<1>5. ASSUME api'[r].op \notin ReviewOp PROVE ReviewsProposal(r, t)'
  BY <1>5 DEF ReviewsProposal
<1>6. ASSUME NEW u \in Transaction,
             \/ \E c \in Active : LoadForCorrection(r, u, c)
             \/ \E c \in Category : LoadToResolve(r, u, c)
             \/ LoadToDismiss(r, u)
      PROVE  ReviewsProposal(r, t)'
  <2>1. ASSUME NEW op, NEW w, Open(r, op, u, w) PROVE api'[r].op = op
    BY <1>1, <2>1 DEF Open, Idle
  <2>2. api'[r].op \in {"correct", "resolve", "dismiss"}
    BY <1>6, <2>1 DEF LoadForCorrection, LoadToResolve, LoadToDismiss
  <2> QED BY <1>5, <2>2 DEF ReviewOp
<1>7. ASSUME NEW p \in Job \X Transaction, NEW op
      PROVE  Loaded(p, op).job = p[1] /\ p[1] \in Job /\ p[2] \in Transaction
  BY DEF Loaded, NoWrite
<1>8. ASSUME NEW P \in SUBSET {p \in Job \X Transaction : proposals[p[1]][p[2]].status = "pending"},
             NEW op \in ReviewOp, NEW p \in P, LoadToReview(r, op, P, p)
      PROVE  ReviewsProposal(r, t)'
  <2>1. p \in Job \X Transaction /\ p[2] \in Transaction /\ proposals[p[1]][p[2]].status = "pending"
    OBVIOUS
  <2>2. /\ api'[r].flushed = {} /\ api'[r].loaded = p[2] /\ api'[r].writes[p[2]] = Loaded(p, op)
    BY <1>1, <1>8, <2>1 DEF LoadToReview, Idle
  <2>3. Loaded(p, op).job = p[1] /\ p[1] \in Job
    BY <1>7, <2>1
  <2> QED BY <1>1, <2>1, <2>2, <2>3 DEF ReviewsProposal, Written, ReviewableStatus
<1>9. ASSUME NEW p \in api[r].todo, LoadNext(r, p)
      PROVE  ReviewsProposal(r, t)'
  <2>1. p \in Job \X Transaction /\ p[2] \in Transaction
    BY <1>1 DEF RequestState
  <2>2. /\ api'[r].op = api[r].op /\ api'[r].flushed = api[r].flushed
        /\ \/ api'[r].loaded = NoTransaction /\ api'[r].writes = api[r].writes
           \/ /\ proposals[p[1]][p[2]].status = "pending" /\ api'[r].loaded = p[2]
              /\ \A u \in Transaction : api'[r].writes[u] =
                    IF u = p[2] THEN Loaded(p, api[r].op) ELSE api[r].writes[u]
    BY <1>1, <1>9, <2>1 DEF LoadNext, RequestState
  <2>3. Loaded(p, api[r].op).job = p[1] /\ p[1] \in Job
    BY <1>7, <2>1
  <2>4. t \in Written(r)' => t \in Written(r) \/ (t = p[2] /\ api'[r].loaded = p[2])
    BY <2>2, RecategorizationAssumption DEF Written
  <2>5. ReviewsProposal(r, t)
    BY DEF ReviewInv
  <2> QED BY <1>1, <2>1, <2>2, <2>3, <2>4, <2>5, RecategorizationAssumption
          DEF ReviewsProposal, ReviewableStatus
<1>10. CASE FlushProposal(r)
  <2>1. /\ api'[r].op = api[r].op /\ api'[r].writes = api[r].writes
        /\ api'[r].flushed = api[r].flushed \cup {api[r].loaded} /\ api'[r].loaded = NoTransaction
        /\ api[r].loaded # NoTransaction
    BY <1>1, <1>10 DEF FlushProposal, RequestState
  <2> QED BY <1>1, <2>1 DEF ReviewsProposal, Written, ReviewInv
<1>11. CASE DropRequest(r)
  BY <1>1, <1>5, <1>11 DEF DropRequest, Idle, ReviewOp
<1> QED BY <1>6, <1>8, <1>9, <1>10, <1>11 DEF User

LEMMA ReviewEnd ==
    ASSUME TypeOK, ReviewInv, CompleteJob \/ JobRaises
    PROVE  ReviewInv'
<1>1. proposals \in [Job -> [Transaction -> ProposalRow]] /\ scan.job \in Job /\ api' = api
      /\ jobs[scan.job].status \notin FinishedStatus
  BY EndCommits DEF TypeOK, FinishedStatus
<1>2. ASSUME NEW j \in Job \ {scan.job}
      PROVE  jobs'[j] = jobs[j] /\ \A t \in Transaction : proposals'[j][t] = proposals[j][t]
  BY <1>1, EndCommits
<1>3. \A t \in Transaction : proposals[scan.job][t].status = "none"
  BY <1>1 DEF ReviewInv, ProposedAtTheEnd
<1>4. \A t \in Transaction : proposals'[scan.job][t].status = scan.found[t]
  BY <1>1, <1>3, EndCommits
<1>5. ProposedAtTheEnd'
  BY <1>2, EndCommits DEF ReviewInv, ProposedAtTheEnd
<1>6. ASSUME NEW r \in Request, NEW t \in Transaction PROVE ReviewsProposal(r, t)'
  BY <1>1, <1>2, <1>3 DEF ReviewInv, ReviewsProposal, Written, ReviewableStatus
<1>7. jobs'[scan.job].status = "completed" => jobs'[scan.job].updated = UpdatedCount(scan.found)
  <2>1. jobs \in [Job -> JobRow]
    BY DEF TypeOK
  <2>2. CASE CompleteJob
    BY <1>1, <2>1, <2>2 DEF CompleteJob, CommitJob, JobRow
  <2>3. CASE JobRaises
    BY <1>1, <2>1, <2>3 DEF JobRaises, CommitJob, JobRow
  <2> QED BY <2>2, <2>3
<1>8. CountMatchesProposals'
  <2> SUFFICES ASSUME NEW j \in Job, jobs'[j].status = "completed"
               PROVE  jobs'[j].updated =
                      Cardinality({t \in Transaction : proposals'[j][t].status = "auto_applied"})
    BY DEF CountMatchesProposals
  <2>1. CASE j = scan.job
    <3>1. {t \in Transaction : proposals'[j][t].status = "auto_applied"} = Applied(scan.found)
      BY <1>4, <2>1 DEF Applied
    <3> QED BY <1>7, <2>1, <3>1 DEF UpdatedCount
  <2>2. CASE j # scan.job
    <3>1. {t \in Transaction : proposals'[j][t].status = "auto_applied"}
            = {t \in Transaction : proposals[j][t].status = "auto_applied"}
      BY <1>2, <2>2
    <3> QED BY <1>2, <2>2, <3>1 DEF ReviewInv, CountMatchesProposals
  <2> QED BY <2>1, <2>2
<1> QED BY <1>5, <1>6, <1>8 DEF ReviewInv

\* Other than jobs, only reviews change proposals.
LEMMA ReviewChanges ==
    ASSUME TypeOK, ReviewInv, NEW r \in Request, NEW j \in Job, NEW t \in Transaction,
           CommitCorrection(r) \/ CommitDisagreement(r) \/ CommitReview(r)
    PROVE  \/ proposals'[j][t] = proposals[j][t]
           \/ proposals[j][t].status \in ReviewableStatus /\ proposals'[j][t].status \in ReviewableStatus
<1>1. CASE CommitReview(r)
  <2>1. CASE t \in Written(r) /\ api[r].writes[t].job = j
    <3>1. ReviewsProposal(r, t) /\ api[r].op \in ReviewOp
      BY <1>1 DEF ReviewInv, CommitReview
    <3>2. proposals[j][t] \in ProposalRow
      BY DEF TypeOK
    <3>3. proposals'[j][t].status \in {"approved", "rejected"}
      BY <1>1, <2>1, <3>2 DEF CommitReview, ProposalRow
    <3> QED BY <2>1, <3>1, <3>3 DEF ReviewsProposal, ReviewableStatus
  <2>2. CASE ~(t \in Written(r) /\ api[r].writes[t].job = j)
    BY <1>1, <2>2 DEF CommitReview
  <2> QED BY <2>1, <2>2
<1>2. CASE CommitCorrection(r) \/ CommitDisagreement(r)
  BY <1>2 DEF CommitCorrection, CommitDisagreement
<1> QED BY <1>1, <1>2

LEMMA ReviewCommit ==
    ASSUME TypeOK, ReviewInv, NEW r \in Request,
           CommitCorrection(r) \/ CommitDisagreement(r) \/ CommitReview(r)
    PROVE  ReviewInv'
<1>1. \A q \in Request : api'[q] = IF q = r THEN Idle ELSE api[q]
  BY CommitLeavesWorker DEF CommitTransactions, TypeOK
<1>2. ASSUME NEW j \in Job
      PROVE  jobs'[j] = jobs[j] \/ (jobs[j].status = "none" /\ jobs'[j].status = "queued")
  BY CommitLeavesWorker
<1>3. ProposedAtTheEnd'
  BY <1>2, ReviewChanges DEF ReviewInv, ProposedAtTheEnd, ReviewableStatus, FinishedStatus
<1>4. ASSUME NEW q \in Request, NEW t \in Transaction PROVE ReviewsProposal(q, t)'
  <2>1. CASE q = r
    BY <1>1, <2>1 DEF ReviewsProposal, Idle, ReviewOp
  <2>2. CASE q # r
    BY <1>1, <2>2, ReviewChanges DEF ReviewInv, ReviewsProposal, Written
  <2> QED BY <2>1, <2>2
<1>5. CountMatchesProposals'
  <2> SUFFICES ASSUME NEW j \in Job, jobs'[j].status = "completed"
               PROVE  jobs'[j].updated =
                      Cardinality({t \in Transaction : proposals'[j][t].status = "auto_applied"})
    BY DEF CountMatchesProposals
  <2>1. jobs'[j] = jobs[j]
    BY <1>2
  <2>2. {t \in Transaction : proposals'[j][t].status = "auto_applied"}
          = {t \in Transaction : proposals[j][t].status = "auto_applied"}
    BY ReviewChanges DEF ReviewableStatus
  <2> QED BY <2>1, <2>2 DEF ReviewInv, CountMatchesProposals
<1> QED BY <1>3, <1>4, <1>5 DEF ReviewInv

LEMMA ReviewStep ==
    ASSUME TypeOK, ReviewInv, [Next]_vars
    PROVE  ReviewInv'
<1>1. CASE \/ SessionFails \/ Crash \/ Reads \/ UNCHANGED vars
           \/ \E t \in Transaction, similar \in Precedents, llm \in Category :
                  PersistTransaction(t, similar, llm)
  <2>1. UNCHANGED <<jobs, proposals, api>>
    BY <1>1, ReadingOnlyReads DEF SessionFails, Crash, PersistTransaction, vars, rowVars
  <2> QED BY <2>1, ReviewStays
<1>2. ASSUME NEW j \in Job, ClaimJob(j) PROVE ReviewInv'
  <2>1. \A i \in Job : \/ jobs'[i] = jobs[i]
                       \/ jobs[i].status \notin FinishedStatus /\ jobs'[i].status # "completed"
    BY <1>2 DEF ClaimJob, TypeOK, JobRow, FinishedStatus
  <2> QED BY <1>2, <2>1, ReviewStays DEF ClaimJob
<1>3. CASE StartWorker
  <2>1. \A i \in Job : \/ jobs'[i] = jobs[i]
                       \/ jobs[i].status \notin FinishedStatus /\ jobs'[i].status # "completed"
    BY <1>3 DEF StartWorker, TypeOK, JobRow, FinishedStatus, StaleStatus
  <2> QED BY <1>3, <2>1, ReviewStays DEF StartWorker
<1> QED BY <1>1, <1>2, <1>3, ReviewLoads, ReviewEnd, ReviewCommit, StepCases

LEMMA ReviewAlways == Spec => []ReviewInv
<1>1. Init => ReviewInv
  BY ReviewInit
<1>2. TypeOK /\ ReviewInv /\ [Next]_vars => ReviewInv'
  BY ReviewStep
<1> QED BY <1>1, <1>2, RowsHaveTypes, PTL DEF Spec

\* A completed job's updated_count stays the number of its applied proposals,
\* whatever reviews, failed jobs and restarts follow (complete_recategorize_job).
THEOREM CountsMatch == Spec => []CountMatchesProposals
<1>1. ReviewInv => CountMatchesProposals
  BY DEF ReviewInv
<1> QED BY <1>1, ReviewAlways, PTL

----------------------------------------------------------------------------
(* What requests write.                                                    *)

\* Only transactions that exist are proposed, disagreed about or worked on.
RowsExist ==
    /\ \A j \in Job : \A t \in Transaction : proposals[j][t].status # "none" => txns[t].src # "none"
    /\ \A t \in Transaction : disagreements[t].status # "none" => txns[t].src # "none"
    /\ \A t \in Transaction : scan.found[t] # "none" => txns[t].src # "none"
    /\ scan.step = "unsure" => \A t \in scan.todo : txns[t].src # "none"

\* A request works on rows that exist. The source it assigns is not unsure, and it
\* knows that the row is unsure when it is: nothing makes a row unsure again.
WriteKnowsRow(r, t) ==
    api[r].op # "idle" /\ t \in Written(r) =>
        /\ txns[t].src # "none"
        /\ api[r].op \in AssigningOp =>
              /\ api[r].writes[t].src \in {"similarity", "llm", "manual"}
              /\ txns[t].src = "unsure" => api[r].writes[t].seen.src = "unsure"

WritesKnowRows == \A r \in Request : \A t \in Transaction : WriteKnowsRow(r, t)

WriteInv == RowsExist /\ WritesKnowRows /\ UnsureMeansUnsure

LEMMA WriteInit == Init => WriteInv
BY DEF Init, At, Idle, NoProposal, NoDisagreement, NoRow, WriteInv, RowsExist, WritesKnowRows,
       WriteKnowsRow, UnsureMeansUnsure, AssigningOp

\* Rows that only gain a source that is not unsure, seen from a request that stays.
LEMMA WritesStay ==
    ASSUME WritesKnowRows, NEW r \in Request, api'[r] = api[r], NEW t \in Transaction,
           txns[t].src # "none" => txns'[t].src # "none",
           txns'[t].src = "unsure" => txns[t].src \in {"none", "unsure"}
    PROVE  WriteKnowsRow(r, t)'
BY DEF WritesKnowRows, WriteKnowsRow, Written

\* A request that has been answered writes nothing.
LEMMA IdleWritesNothing ==
    ASSUME NEW r \in Request, NEW t \in Transaction, api'[r] = Idle
    PROVE  WriteKnowsRow(r, t)'
BY DEF WriteKnowsRow, Idle, AssigningOp

LEMMA WritePersist ==
    ASSUME TypeOK, RaceInv, WriteInv, NEW u \in Transaction, NEW similar \in Precedents,
           NEW llm \in Category, PersistTransaction(u, similar, llm)
    PROVE  WriteInv'
<1>1. UNCHANGED <<proposals, scan, api>> /\ scan.step = "idle" /\ txns[u].src = "none"
  BY DEF PersistTransaction
<1>2. \A t \in Transaction : txns'[t] = IF t = u THEN Categorize(similar, llm) ELSE txns[t]
  BY DEF PersistTransaction, TypeOK
<1>3. \A t \in Transaction : t # u => disagreements'[t] = disagreements[t]
  BY DEF PersistTransaction, TypeOK
<1>4. Categorize(similar, llm).src # "none"
      /\ (Categorize(similar, llm).src = "unsure" => Categorize(similar, llm).cat = Unsure)
  BY DEF Categorize, UnsureRow
<1>5. \A t \in Transaction : txns[t].src # "none" => txns'[t] = txns[t]
  BY <1>1, <1>2
<1>6. RowsExist'
  BY <1>1, <1>2, <1>3, <1>4, <1>5 DEF WriteInv, RowsExist
<1>7. WritesKnowRows'
  BY <1>1, <1>2, <1>4, <1>5 DEF WriteInv, WritesKnowRows, WriteKnowsRow, Written
<1>8. UnsureMeansUnsure'
  BY <1>2, <1>4 DEF WriteInv, UnsureMeansUnsure
<1> QED BY <1>6, <1>7, <1>8 DEF WriteInv

LEMMA WriteReads ==
    ASSUME TypeOK, WriteInv, Reads
    PROVE  WriteInv'
<1>1. UNCHANGED <<rowVars, api>> /\ scan \in WorkerState
  BY ReadingOnlyReads DEF TypeOK
<1>2. WritesKnowRows' /\ UnsureMeansUnsure'
  BY <1>1 DEF WriteInv, WritesKnowRows, WriteKnowsRow, Written, UnsureMeansUnsure, rowVars
<1>3. SUFFICES /\ \A t \in Transaction : scan'.found[t] # "none" => txns[t].src # "none"
               /\ scan'.step = "unsure" => \A t \in scan'.todo : txns[t].src # "none"
  BY <1>1, <1>2 DEF WriteInv, RowsExist, rowVars
<1>4. CASE ReadSource
  BY <1>1, <1>4 DEF ReadSource, WorkerState, WriteInv, RowsExist
<1>5. CASE ListUnsure
  BY <1>1, <1>5 DEF ListUnsure, WorkerState, WriteInv, RowsExist, FindUnsureTransactions
<1>6. CASE ListPending
  BY <1>1, <1>6 DEF ListPending, WorkerState, WriteInv, RowsExist
<1>7. ASSUME NEW u \in Transaction, NEW match \in Found, MatchUnsure(u, match)
      PROVE  /\ \A t \in Transaction : scan'.found[t] # "none" => txns[t].src # "none"
             /\ scan'.step = "unsure" => \A t \in scan'.todo : txns[t].src # "none"
  BY <1>1, <1>7 DEF MatchUnsure, WorkerState, WriteInv, RowsExist
<1>8. ASSUME NEW T \in SUBSET Transaction, FlagNeighbours(T) \/ FlagBestText(T)
      PROVE  /\ \A t \in Transaction : scan'.found[t] # "none" => txns[t].src # "none"
             /\ scan'.step = "unsure" => \A t \in scan'.todo : txns[t].src # "none"
  <2>1. \A t \in CrossCategory : t \in Transaction /\ txns[t].src # "none"
    BY <1>1 DEF CrossCategory, Seen, Assign, UnsureRow, WriteInv, RowsExist, WorkerState
  <2> QED BY <1>8, <2>1, FlagFound DEF WriteInv, RowsExist
<1> QED BY <1>4, <1>5, <1>6, <1>7, <1>8 DEF Reads

LEMMA WriteEnd ==
    ASSUME TypeOK, WriteInv, CompleteJob \/ JobRaises
    PROVE  WriteInv'
<1>1. /\ proposals \in [Job -> [Transaction -> ProposalRow]] /\ scan.job \in Job
      /\ UNCHANGED <<disagreements, api>> /\ scan' = At("idle")
      /\ txns' = [t \in Transaction |-> Seen(t)]
  BY EndCommits DEF TypeOK
<1>2. ASSUME NEW t \in Transaction
      PROVE  \/ txns'[t] = txns[t]
             \/ txns'[t].src = "similarity" /\ txns[t].src # "none"
  BY <1>1 DEF Seen, Assign, UnsureRow, WriteInv, RowsExist
<1>3. ASSUME NEW j \in Job, NEW t \in Transaction, proposals'[j][t].status # "none"
      PROVE  proposals[j][t].status # "none" \/ scan.found[t] # "none"
  BY <1>1, <1>3, EndCommits
<1>4. RowsExist'
  BY <1>1, <1>2, <1>3 DEF WriteInv, RowsExist, At
<1>5. ASSUME NEW r \in Request, NEW t \in Transaction PROVE WriteKnowsRow(r, t)'
  BY <1>1, <1>2, WritesStay DEF WriteInv
<1>6. UnsureMeansUnsure'
  BY <1>2 DEF WriteInv, UnsureMeansUnsure
<1> QED BY <1>4, <1>5, <1>6 DEF WriteInv, WritesKnowRows

\* Loading: the row is read as it is, and exists because it is shown, proposed or
\* disagreed about.
LEMMA WriteLoads ==
    ASSUME TypeOK, WriteInv, NEW r \in Request,
           User(r) \/ (\E p \in api[r].todo : LoadNext(r, p)) \/ FlushProposal(r) \/ DropRequest(r)
    PROVE  WriteInv'
<1>1. UNCHANGED <<rowVars, scan>> /\ api[r] \in RequestState /\ api \in [Request -> RequestState]
  BY LoadingOnlyLoads DEF TypeOK
<1>2. \A q \in Request : q # r => api'[q] = api[q]
  BY <1>1 DEF User, LoadForCorrection, LoadToDismiss, LoadToResolve, LoadToReview, Open, LoadNext,
              FlushProposal, DropRequest
<1>3. RowsExist' /\ UnsureMeansUnsure'
  BY <1>1 DEF WriteInv, RowsExist, UnsureMeansUnsure, rowVars
<1>4. SUFFICES ASSUME NEW t \in Transaction PROVE WriteKnowsRow(r, t)'
  <2>1. ASSUME NEW q \in Request, q # r, NEW t \in Transaction PROVE WriteKnowsRow(q, t)'
    BY <1>1, <1>2, <2>1, WritesStay DEF WriteInv, rowVars
  <2> QED BY <1>3, <1>4, <2>1 DEF WriteInv, WritesKnowRows
<1>5. txns' = txns
  BY <1>1 DEF rowVars
<1>6. ASSUME NEW u \in Transaction, NEW c \in Active, LoadForCorrection(r, u, c)
      PROVE  WriteKnowsRow(r, t)'
  BY <1>1, <1>5, <1>6, RecategorizationAssumption
     DEF LoadForCorrection, Open, Idle, WriteKnowsRow, Written
<1>7. ASSUME NEW u \in Transaction, NEW c \in Category, LoadToResolve(r, u, c)
      PROVE  WriteKnowsRow(r, t)'
  <2>1. txns[u].src # "none"
    BY <1>7 DEF LoadToResolve, WriteInv, RowsExist
  <2> QED BY <1>1, <1>5, <1>7, <2>1, RecategorizationAssumption
          DEF LoadToResolve, Open, Idle, WriteKnowsRow, Written
<1>8. ASSUME NEW u \in Transaction, LoadToDismiss(r, u)
      PROVE  WriteKnowsRow(r, t)'
  BY <1>1, <1>5, <1>8, RecategorizationAssumption
     DEF LoadToDismiss, Open, Idle, WriteKnowsRow, Written, AssigningOp, WriteInv, RowsExist
<1>9. ASSUME NEW p \in Job \X Transaction, NEW op \in ReviewOp, proposals[p[1]][p[2]].status = "pending"
      PROVE  /\ txns[p[2]].src # "none"
             /\ op \in AssigningOp => Loaded(p, op).src = "similarity" /\ Loaded(p, op).seen = txns[p[2]]
  <2>1. p[1] \in Job /\ p[2] \in Transaction
    OBVIOUS
  <2> QED BY <1>9, <2>1 DEF Loaded, ReviewOp, AssigningOp, WriteInv, RowsExist
<1>10. ASSUME NEW P \in SUBSET {p \in Job \X Transaction : proposals[p[1]][p[2]].status = "pending"},
              NEW op \in ReviewOp, NEW p \in P, LoadToReview(r, op, P, p)
       PROVE  WriteKnowsRow(r, t)'
  <2>1. p \in Job \X Transaction /\ p[2] \in Transaction /\ proposals[p[1]][p[2]].status = "pending"
    OBVIOUS
  <2>2. /\ api'[r].op = op /\ api'[r].flushed = {} /\ api'[r].loaded = p[2]
        /\ api'[r].writes[p[2]] = Loaded(p, op)
    BY <1>1, <1>10, <2>1 DEF LoadToReview, Idle
  <2> QED BY <1>5, <1>9, <2>1, <2>2 DEF WriteKnowsRow, Written
<1>11. ASSUME NEW p \in api[r].todo, LoadNext(r, p)
       PROVE  WriteKnowsRow(r, t)'
  <2>1. p \in Job \X Transaction /\ p[2] \in Transaction
    BY <1>1 DEF RequestState
  <2>2. api[r].op \in {"idle"} \cup ReviewOp
    BY <1>1, <1>11 DEF LoadNext, RequestState, TypeOK
  <2>3. /\ api'[r].op = api[r].op /\ api'[r].flushed = api[r].flushed
        /\ \/ api'[r].loaded = NoTransaction /\ api'[r].writes = api[r].writes
           \/ /\ proposals[p[1]][p[2]].status = "pending" /\ api'[r].loaded = p[2]
              /\ \A u \in Transaction : api'[r].writes[u] =
                    IF u = p[2] THEN Loaded(p, api[r].op) ELSE api[r].writes[u]
    BY <1>1, <1>11, <2>1 DEF LoadNext, RequestState
  <2>4. CASE api[r].op = "idle"
    BY <2>3, <2>4 DEF WriteKnowsRow, AssigningOp
  <2>5. CASE api[r].op \in ReviewOp
    <3> DEFINE op == api[r].op
    <3>1. WriteKnowsRow(r, t)
      BY DEF WriteInv, WritesKnowRows
    <3>2. t \in Written(r)' => t \in Written(r) \/ (t = p[2] /\ api'[r].loaded = p[2])
      BY <2>3, RecategorizationAssumption DEF Written
    <3>3. proposals[p[1]][p[2]].status = "pending" =>
             /\ txns[p[2]].src # "none"
             /\ op \in AssigningOp => Loaded(p, op).src = "similarity" /\ Loaded(p, op).seen = txns[p[2]]
      BY <1>9, <2>1, <2>5
    <3> QED BY <1>5, <2>1, <2>3, <3>1, <3>2, <3>3, RecategorizationAssumption DEF WriteKnowsRow
  <2> QED BY <2>2, <2>4, <2>5
<1>12. CASE FlushProposal(r)
  <2>1. /\ api'[r].op = api[r].op /\ api'[r].writes = api[r].writes
        /\ api'[r].flushed = api[r].flushed \cup {api[r].loaded} /\ api'[r].loaded = NoTransaction
        /\ api[r].loaded # NoTransaction
    BY <1>1, <1>12 DEF FlushProposal, RequestState
  <2> QED BY <1>5, <2>1 DEF WriteKnowsRow, Written, WriteInv, WritesKnowRows
<1>13. CASE DropRequest(r)
  BY <1>1, <1>13, IdleWritesNothing DEF DropRequest
<1> QED BY <1>6, <1>7, <1>8, <1>10, <1>11, <1>12, <1>13 DEF User

LEMMA WriteCommit ==
    ASSUME TypeOK, ReviewInv, WriteInv, NEW r \in Request,
           CommitCorrection(r) \/ CommitDisagreement(r) \/ CommitReview(r)
    PROVE  WriteInv'
<1>1. scan' = scan /\ CommitTransactions(r)
  BY CommitLeavesWorker
<1>2. ASSUME NEW t \in Transaction
      PROVE  \/ txns'[t] = txns[t]
             \/ txns[t].src # "none" /\ txns'[t].src \in {"similarity", "llm", "manual"}
  <2> DEFINE w == api[r].writes[t]
  <2>1. CASE t \in Written(r) /\ api[r].op \in AssigningOp
    <3>1. /\ w.src \in {"similarity", "llm", "manual"} /\ txns[t].src # "none"
          /\ txns[t].src = "unsure" => w.seen.src = "unsure"
      BY <2>1 DEF WriteInv, WritesKnowRows, WriteKnowsRow, AssigningOp
    <3>2. txns'[t] = Assign(txns[t], w.seen, w.cat, w.src)
      BY <1>1, <2>1 DEF CommitTransactions
    <3>3. txns[t].src \in Source \cup {"none"}
      BY DEF TypeOK, Row
    <3> HIDE DEF w
    <3>4. CASE w.src = w.seen.src
      BY <3>1, <3>2, <3>3, <3>4 DEF Assign, Source
    <3>5. CASE w.src # w.seen.src
      BY <3>1, <3>2, <3>5 DEF Assign
    <3> QED BY <3>4, <3>5
  <2>2. CASE ~(t \in Written(r) /\ api[r].op \in AssigningOp)
    <3>1. txns \in [Transaction -> Row]
      BY DEF TypeOK
    <3> QED BY <1>1, <2>2, <3>1 DEF CommitTransactions
  <2> QED BY <2>1, <2>2
<1>3. UnsureMeansUnsure'
  BY <1>2 DEF WriteInv, UnsureMeansUnsure
<1>4. \A t \in Transaction : txns[t].src # "none" => txns'[t].src # "none"
  BY <1>2
<1>5. RowsExist'
  <2>1. \A j \in Job : \A t \in Transaction : proposals'[j][t].status # "none" =>
            proposals[j][t].status # "none"
    BY ReviewChanges DEF ReviewableStatus
  <2>2. ASSUME NEW t \in Transaction, disagreements'[t].status # "none"
        PROVE  txns[t].src # "none"
    <3>1. CASE CommitDisagreement(r) /\ t = api[r].loaded
      <4>1. t \in Written(r) /\ api[r].op # "idle"
        BY <3>1, RecategorizationAssumption DEF CommitDisagreement, Written, DisagreementOp
      <4> QED BY <4>1 DEF WriteInv, WritesKnowRows, WriteKnowsRow
    <3>2. CASE disagreements'[t] = disagreements[t]
      BY <2>2, <3>2 DEF WriteInv, RowsExist
    <3>3. CommitDisagreement(r) /\ t # api[r].loaded => disagreements'[t] = disagreements[t]
      BY DEF CommitDisagreement, TypeOK
    <3>4. CommitCorrection(r) \/ CommitReview(r) => disagreements'[t] = disagreements[t]
      BY DEF CommitCorrection, CommitReview
    <3> QED BY <3>1, <3>2, <3>3, <3>4
  <2>3. \A j \in Job : \A t \in Transaction : proposals'[j][t].status # "none" => txns'[t].src # "none"
    BY <1>4, <2>1 DEF WriteInv, RowsExist
  <2>4. \A t \in Transaction : disagreements'[t].status # "none" => txns'[t].src # "none"
    BY <1>4, <2>2
  <2>5. /\ \A t \in Transaction : scan'.found[t] # "none" => txns'[t].src # "none"
        /\ scan'.step = "unsure" => \A t \in scan'.todo : txns'[t].src # "none"
    <3>1. scan.todo \subseteq Transaction
      BY DEF TypeOK, WorkerState
    <3> QED BY <1>1, <1>4, <3>1 DEF WriteInv, RowsExist
  <2> QED BY <2>3, <2>4, <2>5 DEF RowsExist
<1>6. ASSUME NEW q \in Request, NEW t \in Transaction PROVE WriteKnowsRow(q, t)'
  <2>1. CASE q = r
    BY <1>1, <2>1, IdleWritesNothing DEF CommitTransactions, TypeOK
  <2>2. CASE q # r
    <3>1. api'[q] = api[q]
      BY <1>1, <2>2 DEF CommitTransactions
    <3> QED BY <1>2, <1>4, <3>1, WritesStay DEF WriteInv
  <2> QED BY <2>1, <2>2
<1> QED BY <1>3, <1>5, <1>6 DEF WriteInv, WritesKnowRows

LEMMA WriteStep ==
    ASSUME TypeOK, RaceInv, ReviewInv, WriteInv, [Next]_vars
    PROVE  WriteInv'
<1>1. CASE SessionFails \/ Crash \/ StartWorker \/ UNCHANGED vars \/ \E j \in Job : ClaimJob(j)
  <2>1. UNCHANGED <<txns, disagreements, proposals, api>>
    BY <1>1 DEF SessionFails, Crash, StartWorker, ClaimJob, vars, rowVars
  <2>2. scan' = scan \/ (scan'.step # "unsure" /\ \A t \in Transaction : scan'.found[t] = "none")
    BY <1>1 DEF SessionFails, Crash, StartWorker, ClaimJob, At, vars
  <2> QED BY <2>1, <2>2 DEF WriteInv, RowsExist, WritesKnowRows, WriteKnowsRow, Written, UnsureMeansUnsure
<1> QED BY <1>1, WritePersist, WriteReads, WriteEnd, WriteLoads, WriteCommit, StepCases

\* Whatever columns overlapping requests and jobs write, a transaction marked
\* unsure is in the UNSURE category (the ORM's UPDATE of changed columns).
THEOREM UnsureRowsAreUnsure == Spec => []UnsureMeansUnsure
<1>1. Init => WriteInv
  BY WriteInit
<1>2. TypeOK /\ RaceInv /\ ReviewInv /\ WriteInv /\ [Next]_vars => WriteInv'
  BY WriteStep
<1>3. WriteInv => UnsureMeansUnsure
  BY DEF WriteInv
<1> QED BY <1>1, <1>2, <1>3, RowsHaveTypes, RaceAlways, ReviewAlways, PTL DEF Spec
=============================================================================
