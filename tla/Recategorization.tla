-------------------------- MODULE Recategorization --------------------------
(***************************************************************************)
(* The category of a transaction: set when the worker ingests it, corrected *)
(* by the user, propagated by the worker's recategorization jobs, reviewed  *)
(* by the user.                                                            *)
(*                                                                         *)
(* A request holds the rows it loaded (seen) until its UPDATE is flushed;   *)
(* the ORM's UPDATE writes the columns that differ from what was loaded. A  *)
(* job reads its rows one query at a time and commits once, at its end: the *)
(* rows it has flushed (scan.found) are locked and invisible until then.    *)
(***************************************************************************)
EXTENDS Naturals, FiniteSets

CONSTANTS
    Transaction,    \* identities of transactions (bound: rows ever ingested)
    Category,       \* rows of the category whitelist
    Unsure,         \* the reserved UNSURE row
    Active,         \* the categories a correction may assign
    Job,            \* identities of jobs (bound: corrections ever made)
    Request,        \* API requests that can be in flight at once
    NoJob, NoTransaction    \* "none"

ASSUME RecategorizationAssumption ==
    /\ Unsure \in Category /\ Active \subseteq Category
    /\ NoJob \notin Job /\ NoTransaction \notin Transaction
    /\ IsFiniteSet(Transaction)

VARIABLES
    txns,           \* transactions: category and category_source
    disagreements,  \* categorization_disagreements, by transaction
    jobs,           \* recategorization_jobs
    proposals,      \* recategorization_proposals: proposals[j][t] is job j's for t
    scan,           \* the worker and what its session has read and flushed
    api,            \* API requests in flight
    touched         \* history: rows that requests wrote since the job began to read

rowVars == <<txns, disagreements, jobs, proposals>>
vars == <<rowVars, scan, api, touched>>

----------------------------------------------------------------------------
(* Rows and local states.                                                  *)

Source == {"unsure", "similarity", "llm", "manual"}
Row == [cat : Category, src : Source \cup {"none"}]
NoRow == [cat |-> Unsure, src |-> "none"]
UnsureRow == [cat |-> Unsure, src |-> "unsure"]

DisagreementRow == [status : {"none", "pending", "resolved", "rejected"},
                    similarity : Category, llm : Category]
NoDisagreement == [status |-> "none", similarity |-> Unsure, llm |-> Unsure]

FinishedStatus == {"completed", "failed"}
JobRow == [status : {"none", "queued", "running"} \cup FinishedStatus,
           source : Transaction \cup {NoTransaction}, updated : Nat]

\* Mutant of NewJob: the correction is not linked to its job.
NewJobWithoutSource(t) == [status |-> "queued", source |-> NoTransaction, updated |-> 0]

NewJob(t) == [status |-> "queued", source |-> t, updated |-> 0]

NoJobRow == [status |-> "none", source |-> NoTransaction, updated |-> 0]

ProposalRow == [status : {"none", "pending", "auto_applied", "approved", "rejected"}, cat : Category]
NoProposal == [status |-> "none", cat |-> Unsure]

\* "claimed" has read nothing; "listing" has read the source; "unsure" and
\* "flagging" work through todo; "fallback" found no neighbour to flag.
ReadingStep == {"listing", "unsure", "flagging", "fallback", "done"}
Found == {"none", "pending", "auto_applied"}
WorkerState == [step : {"down", "idle", "claimed"} \cup ReadingStep, job : Job \cup {NoJob},
                proposed : Category, todo : SUBSET Transaction, found : [Transaction -> Found]]
At(s) == [step |-> s, job |-> NoJob, proposed |-> Unsure, todo |-> {},
          found |-> [t \in Transaction |-> "none"]]

\* What a request will write to a transaction, and the row it loaded.
Write == [job : Job \cup {NoJob}, cat : Category, src : Source, seen : Row]
NoWrite == [job |-> NoJob, cat |-> Unsure, src |-> "unsure", seen |-> NoRow]

ReviewOp == {"approve", "reject"}
DisagreementOp == {"resolve", "dismiss"}
AssigningOp == {"correct", "approve", "resolve"}
RequestState == [op : {"idle", "correct"} \cup ReviewOp \cup DisagreementOp,
                 todo : SUBSET (Job \X Transaction), loaded : Transaction \cup {NoTransaction},
                 writes : [Transaction -> Write], flushed : SUBSET Transaction]
Idle == [op |-> "idle", todo |-> {}, loaded |-> NoTransaction,
         writes |-> [t \in Transaction |-> NoWrite], flushed |-> {}]

\* Mutant of Assign: the category is written and its source forgotten.
AssignCategoryOnly(row, seen, c, s) == [row EXCEPT !.cat = IF c = seen.cat THEN @ ELSE c]

\* Only the columns that differ from the loaded row are in the UPDATE.
Assign(row, seen, c, s) ==
    [cat |-> IF c = seen.cat THEN row.cat ELSE c,
     src |-> IF s = seen.src THEN row.src ELSE s]

Pending(t) == \E j \in Job : proposals[j][t].status = "pending"

----------------------------------------------------------------------------
(* Worker: categorizing a transaction while its statement is ingested.      *)

\* similar: the category of the best match, a set of at most one; llm: the
\* classifier's answer, Unsure when it abstains.
Categorize(similar, llm) ==
    IF similar # {} /\ llm # Unsure /\ llm \notin similar THEN UnsureRow
    ELSE IF similar # {} THEN [cat |-> CHOOSE c \in similar : TRUE, src |-> "similarity"]
    ELSE IF llm # Unsure THEN [cat |-> llm, src |-> "llm"]
    ELSE UnsureRow

Disagreement(similar, llm) ==
    IF similar # {} /\ llm # Unsure /\ llm \notin similar
    THEN [status |-> "pending", similarity |-> CHOOSE c \in similar : TRUE, llm |-> llm]
    ELSE NoDisagreement

\* The embedding search may return any embedded transaction as the match.
Precedents == {{}} \cup {{txns[u].cat} : u \in {v \in Transaction : txns[v].src # "none"}}

PersistTransaction(t, similar, llm) ==
    /\ scan.step = "idle"
    /\ txns[t].src = "none"
    /\ txns' = [txns EXCEPT ![t] = Categorize(similar, llm)]
    /\ disagreements' = [disagreements EXCEPT ![t] = Disagreement(similar, llm)]
    /\ UNCHANGED <<jobs, proposals, scan, api, touched>>

----------------------------------------------------------------------------
(* Worker: a recategorization job.                                         *)

ClaimJob(j) ==
    /\ scan.step = "idle"
    /\ jobs[j].status = "queued"
    /\ jobs' = [jobs EXCEPT ![j].status = "running"]
    /\ scan' = [At("claimed") EXCEPT !.job = j]
    /\ UNCHANGED <<txns, disagreements, proposals, api, touched>>

\* A source that is no longer manual is no precedent: there is nothing to do.
ReadSource ==
    /\ scan.step = "claimed"
    /\ LET row == txns[jobs[scan.job].source]
       IN  scan' = [scan EXCEPT !.step = IF row.src = "manual" THEN "listing" ELSE "done",
                                !.proposed = row.cat]
    /\ UNCHANGED <<rowVars, api, touched>>

\* Mutant of FindUnsureTransactions: candidates awaiting review are proposed again.
FindUnsureAgain == {t \in Transaction : txns[t].src = "unsure"}

\* Mutant of FindUnsureTransactions: the category_source is not asked for.
FindAnyTransactions == {t \in Transaction : txns[t].src # "none" /\ ~Pending(t)}

FindUnsureTransactions == {t \in Transaction : txns[t].src = "unsure" /\ ~Pending(t)}

ListUnsure ==
    /\ scan.step = "listing"
    /\ scan' = [scan EXCEPT !.step = "unsure", !.todo = FindUnsureTransactions]
    /\ UNCHANGED <<rowVars, api, touched>>

\* The UPDATE of an applied match waits for a request that has flushed the row.
RowIsFree(t) == \A q \in Request : ~(api[q].op = "approve" /\ t \in api[q].flushed)

MatchUnsure(t, match) ==
    /\ scan.step = "unsure"
    /\ t \in scan.todo
    /\ match = "auto_applied" => RowIsFree(t)
    /\ scan' = [scan EXCEPT !.todo = @ \ {t}, !.found[t] = match]
    /\ UNCHANGED <<rowVars, api, touched>>

\* list_pending_proposal_candidate_ids sees the session's own flushed rows.
ListPending ==
    /\ scan.step = "unsure" /\ scan.todo = {}
    /\ scan' = [scan EXCEPT !.step = "flagging",
                            !.todo = {t \in Transaction : ~Pending(t) /\ scan.found[t] # "pending"}]
    /\ UNCHANGED <<rowVars, api, touched>>

\* A transaction as the job's session reads it.
Seen(t) ==
    IF scan.found[t] = "auto_applied" THEN Assign(txns[t], UnsureRow, scan.proposed, "similarity")
    ELSE txns[t]

\* Mutant of CrossCategory: the category is not compared.
AnyCategory == {t \in scan.todo : Seen(t).src \notin {"none", "unsure"}}

CrossCategory ==
    {t \in scan.todo : Seen(t).src \notin {"none", "unsure"} /\ Seen(t).cat # scan.proposed}

Flag(T) == [scan EXCEPT !.step = "done", !.todo = {},
                        !.found = [t \in Transaction |-> IF t \in T THEN "pending" ELSE @[t]]]

\* The source's neighbours, the source itself excluded by the query.
FlagNeighbours(T) ==
    /\ scan.step = "flagging"
    /\ T \subseteq CrossCategory \ {jobs[scan.job].source}
    /\ scan' = IF T = {} THEN [scan EXCEPT !.step = "fallback"] ELSE Flag(T)
    /\ UNCHANGED <<rowVars, api, touched>>

\* The best text match among the rows as they are by now, or none.
FlagBestText(T) ==
    /\ scan.step = "fallback"
    /\ T \subseteq CrossCategory /\ Cardinality(T) <= 1
    /\ scan' = Flag(T)
    /\ UNCHANGED <<rowVars, api, touched>>

Applied(found) == {t \in Transaction : found[t] = "auto_applied"}

\* Mutant of UpdatedCount: proposals that await review are counted too.
UpdatedCountOfAll(found) == Cardinality({t \in Transaction : found[t] # "none"})

UpdatedCount(found) == Cardinality(Applied(found))

\* The session's commit.
CommitJob(row) ==
    /\ txns' = [t \in Transaction |-> Seen(t)]
    /\ proposals' = [proposals EXCEPT ![scan.job] = [t \in Transaction |->
           IF scan.found[t] = "none" THEN @[t] ELSE [status |-> scan.found[t], cat |-> scan.proposed]]]
    /\ jobs' = [jobs EXCEPT ![scan.job] = row]
    /\ scan' = At("idle")
    /\ touched' = {}

CompleteJob ==
    /\ scan.step = "done"
    /\ CommitJob([jobs[scan.job] EXCEPT !.status = "completed", !.updated = UpdatedCount(scan.found)])
    /\ UNCHANGED <<disagreements, api>>

\* process_recategorize_job catches it and fails the job: what the session has
\* flushed so far is committed with the failure.
JobRaises ==
    /\ scan.step \in (ReadingStep \cup {"claimed"}) \ {"done"}
    /\ CommitJob([jobs[scan.job] EXCEPT !.status = "failed"])
    /\ UNCHANGED <<disagreements, api>>

\* The session is unusable after a failed flush: recording the failure raises
\* too, everything is rolled back and the job stays running.
SessionFails ==
    /\ scan.step \in ReadingStep \cup {"claimed"}
    /\ scan' = At("idle")
    /\ touched' = {}
    /\ UNCHANGED <<rowVars, api>>

Crash ==
    /\ scan.step # "down"
    /\ scan' = At("down")
    /\ touched' = {}
    /\ UNCHANGED <<rowVars, api>>

StaleStatus == {"queued", "running"}

StartWorker ==
    /\ scan.step = "down"
    /\ jobs' = [j \in Job |-> IF jobs[j].status \in StaleStatus
                              THEN [jobs[j] EXCEPT !.status = "failed"] ELSE jobs[j]]
    /\ scan' = At("idle")
    /\ UNCHANGED <<txns, disagreements, proposals, api, touched>>

----------------------------------------------------------------------------
(* API: requests. A request loads rows, checks them, flushes its writes     *)
(* when no other transaction holds a lock on the rows, and commits at the   *)
(* end of the request.                                                      *)

Open(r, op, t, w) ==
    api' = [api EXCEPT ![r] = [Idle EXCEPT !.op = op, !.loaded = t, !.writes[t] = w]]

LoadForCorrection(r, t, c) ==
    /\ api[r] = Idle
    /\ txns[t].src # "none"
    /\ Open(r, "correct", t, [job |-> NoJob, cat |-> c, src |-> "manual", seen |-> txns[t]])
    /\ UNCHANGED <<rowVars, scan, touched>>

LoadToResolve(r, t, c) ==
    LET d == disagreements[t]
    IN  /\ api[r] = Idle
        /\ d.status = "pending"
        /\ c \in {d.similarity, d.llm}
        /\ Open(r, "resolve", t, [job |-> NoJob, cat |-> c, seen |-> txns[t],
                                  src |-> IF c = d.similarity THEN "similarity" ELSE "llm"])
        /\ UNCHANGED <<rowVars, scan, touched>>

LoadToDismiss(r, t) ==
    /\ api[r] = Idle
    /\ disagreements[t].status = "pending"
    /\ Open(r, "dismiss", t, NoWrite)
    /\ UNCHANGED <<rowVars, scan, touched>>

\* What a request will do to proposal p, once it has loaded p and its transaction.
Loaded(p, op) ==
    IF op = "reject" THEN [NoWrite EXCEPT !.job = p[1]]
    ELSE [job |-> p[1], cat |-> proposals[p[1]][p[2]].cat, src |-> "similarity", seen |-> txns[p[2]]]

\* One proposal, or those ticked in the list of pending ones; p is loaded first.
LoadToReview(r, op, P, p) ==
    /\ api[r] = Idle
    /\ p \in P /\ \A q \in P : proposals[q[1]][q[2]].status = "pending"
    /\ api' = [api EXCEPT ![r] = [Idle EXCEPT
           !.op = op, !.todo = P \ {p}, !.loaded = p[2], !.writes[p[2]] = Loaded(p, op)]]
    /\ UNCHANGED <<rowVars, scan, touched>>

\* A proposal that is not pending is an item that failed: the next one follows.
LoadNext(r, p) ==
    LET rest == [api[r] EXCEPT !.todo = @ \ {p}]
        next == [rest EXCEPT !.loaded = p[2], !.writes[p[2]] = Loaded(p, api[r].op)]
    IN  /\ api[r].loaded = NoTransaction
        /\ p \in api[r].todo
        /\ api' = [api EXCEPT ![r] = IF proposals[p[1]][p[2]].status = "pending" THEN next ELSE rest]
        /\ UNCHANGED <<rowVars, scan, touched>>

\* No other transaction has flushed a row this request is about to write.
MayFlush(r, t) ==
    /\ api[r].op \in AssigningOp =>
          scan.found[t] # "auto_applied" /\ \A q \in Request \ {r} :
              ~(api[q].op = "approve" /\ t \in api[q].flushed)
    /\ api[r].op \in ReviewOp => \A q \in Request \ {r} :
          ~(api[q].op \in ReviewOp /\ t \in api[q].flushed /\ api[q].writes[t].job = api[r].writes[t].job)

FlushProposal(r) ==
    /\ api[r].op \in ReviewOp /\ api[r].loaded # NoTransaction /\ api[r].todo # {}
    /\ MayFlush(r, api[r].loaded)
    /\ api' = [api EXCEPT ![r].flushed = @ \cup {api[r].loaded}, ![r].loaded = NoTransaction]
    /\ UNCHANGED <<rowVars, scan, touched>>

\* What the request has flushed and is about to flush.
Written(r) == api[r].flushed \cup ({api[r].loaded} \ {NoTransaction})

CommitTransactions(r) ==
    LET assigned == IF api[r].op \in AssigningOp THEN Written(r) ELSE {}
        w(t) == api[r].writes[t]
    IN  /\ txns' = [t \in Transaction |-> IF t \in assigned
                       THEN Assign(txns[t], w(t).seen, w(t).cat, w(t).src) ELSE txns[t]]
        /\ touched' = IF scan.step \in ReadingStep THEN touched \cup assigned ELSE touched
        /\ api' = [api EXCEPT ![r] = Idle]

\* The correction and its job are committed together.
CommitCorrection(r) ==
    /\ api[r].op = "correct"
    /\ MayFlush(r, api[r].loaded)
    /\ CommitTransactions(r)
    /\ \E j \in Job : /\ jobs[j].status = "none"
                      /\ jobs' = [jobs EXCEPT ![j] = NewJob(api[r].loaded)]
    /\ UNCHANGED <<disagreements, proposals, scan>>

CommitDisagreement(r) ==
    /\ api[r].op \in DisagreementOp
    /\ MayFlush(r, api[r].loaded)
    /\ CommitTransactions(r)
    /\ disagreements' = [disagreements EXCEPT ![api[r].loaded].status =
                            IF api[r].op = "resolve" THEN "resolved" ELSE "rejected"]
    /\ UNCHANGED <<jobs, proposals, scan>>

CommitReview(r) ==
    /\ api[r].op \in ReviewOp /\ api[r].todo = {}
    /\ api[r].loaded # NoTransaction => MayFlush(r, api[r].loaded)
    /\ CommitTransactions(r)
    /\ proposals' = [j \in Job |-> [t \in Transaction |->
           IF t \in Written(r) /\ api[r].writes[t].job = j
           THEN [proposals[j][t] EXCEPT !.status = IF api[r].op = "approve" THEN "approved" ELSE "rejected"]
           ELSE proposals[j][t]]]
    /\ UNCHANGED <<disagreements, jobs, scan>>

\* The database breaks a deadlock, or the connection is lost.
DropRequest(r) ==
    /\ api[r] # Idle
    /\ api' = [api EXCEPT ![r] = Idle]
    /\ UNCHANGED <<rowVars, scan, touched>>

----------------------------------------------------------------------------
(* Specification.                                                          *)

Init ==
    /\ txns = [t \in Transaction |-> NoRow]
    /\ disagreements = [t \in Transaction |-> NoDisagreement]
    /\ jobs = [j \in Job |-> NoJobRow]
    /\ proposals = [j \in Job |-> [t \in Transaction |-> NoProposal]]
    /\ scan = At("down")
    /\ api = [r \in Request |-> Idle]
    /\ touched = {}

Ingest == \E t \in Transaction, similar \in Precedents, llm \in Category : PersistTransaction(t, similar, llm)

Recategorize ==
    \/ \E j \in Job : ClaimJob(j)
    \/ ReadSource \/ ListUnsure
    \/ \E t \in Transaction, match \in Found : MatchUnsure(t, match)
    \/ ListPending
    \/ \E T \in SUBSET Transaction : FlagNeighbours(T) \/ FlagBestText(T)
    \/ CompleteJob

User(r) ==
    \/ \E t \in Transaction, c \in Active : LoadForCorrection(r, t, c)
    \/ \E t \in Transaction : LoadToDismiss(r, t) \/ \E c \in Category : LoadToResolve(r, t, c)
    \/ \E P \in SUBSET {p \in Job \X Transaction : proposals[p[1]][p[2]].status = "pending"},
          op \in ReviewOp : \E p \in P : LoadToReview(r, op, P, p)

Answer(r) ==
    \/ \E p \in api[r].todo : LoadNext(r, p)
    \/ FlushProposal(r) \/ CommitCorrection(r) \/ CommitDisagreement(r) \/ CommitReview(r)
    \/ DropRequest(r)

Next ==
    \/ Ingest \/ Recategorize \/ JobRaises \/ SessionFails \/ Crash \/ StartWorker
    \/ \E r \in Request : User(r) \/ Answer(r)

Spec == Init /\ [][Next]_vars

----------------------------------------------------------------------------
(* Properties.                                                             *)

\* Every variable has its type; a job in hand is a real one with a source.
TypeOK ==
    /\ txns \in [Transaction -> Row]
    /\ disagreements \in [Transaction -> DisagreementRow]
    /\ jobs \in [Job -> JobRow]
    /\ \A j \in Job : jobs[j].status = "none" <=> jobs[j].source = NoTransaction
    /\ proposals \in [Job -> [Transaction -> ProposalRow]]
    /\ scan \in WorkerState
    /\ scan.step \notin {"down", "idle"} => scan.job \in Job /\ jobs[scan.job].status = "running"
    /\ api \in [Request -> RequestState]
    /\ \A r \in Request : api[r].op \in {"correct"} \cup DisagreementOp => api[r].loaded # NoTransaction
    /\ touched \subseteq Transaction

\* Issue #12: however many corrections are made while a transaction awaits review,
\* it is proposed once.
AtMostOnePending ==
    \A t \in Transaction : \A i, j \in Job :
        proposals[i][t].status = "pending" /\ proposals[j][t].status = "pending" => i = j

\* A transaction marked unsure is in the UNSURE category, although categories and
\* sources are written by UPDATEs of the columns that changed.
UnsureMeansUnsure == \A t \in Transaction : txns[t].src = "unsure" => txns[t].cat = Unsure

\* A job changes a transaction that is not unsure only if a request committed to
\* that transaction after the job had begun to read.
OnlyRacedRowsLost ==
    [][scan' # scan => \A t \in Transaction :
          txns'[t] # txns[t] => txns[t].src = "unsure" \/ t \in touched]_vars

\* BR-15 is kept but for a source that a request changed after the job had read it.
OnlyRacedSelfProposals ==
    scan.step \in ReadingStep /\ scan.found[jobs[scan.job].source] # "none"
        => jobs[scan.job].source \in touched

\* A completed job's count is the number of its applied proposals, whatever was
\* reviewed, corrected or crashed since.
CountMatchesProposals ==
    \A j \in Job : jobs[j].status = "completed" =>
        jobs[j].updated = Cardinality({t \in Transaction : proposals[j][t].status = "auto_applied"})

\* A job that has ended is not reopened or failed by a later restart.
JobsEndOnce ==
    [][\A j \in Job : jobs[j].status \in FinishedStatus => jobs'[j] = jobs[j]]_vars

(* What the documents say and the code does not keep.                      *)

\* Lifecycle of category_source: once manual, a transaction's category is never
\* overwritten by auto-categorization.
ManualNeverOverwritten ==
    [][scan' # scan => \A t \in Transaction : txns[t].src = "manual" => txns'[t] = txns[t]]_vars

\* The similarity matcher takes no precedent from unsure transactions: where no
\* user assigns UNSURE, nothing is in UNSURE by similarity.
NeverUnsureBySimilarity ==
    \A t \in Transaction : txns[t].src = "similarity" => txns[t].cat # Unsure
============================================================================
