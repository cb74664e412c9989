------------------------- MODULE RecurringPayments -------------------------
(***************************************************************************)
(* Recurring payments: the register the user keeps through the API, the    *)
(* matches the worker records while it ingests a file, their review, and   *)
(* the suggestions of the worker's detection scan.                         *)
(*                                                                         *)
(* A file is ingested inside one savepoint.  Its matches are flushed one   *)
(* by one (flushed) and published when the file commits; an exception      *)
(* rolls the whole file back.  A request loads the row it acts on and      *)
(* writes it later; the two are apart and nothing locks the row.           *)
(***************************************************************************)
EXTENDS Naturals, FiniteSets

CONSTANTS
    Payment,        \* identities of register entries (bound: entries ever created)
    Transaction,
    File,
    FileOf,         \* FileOf[t]: the file that holds transaction t
    Due,            \* due-date schedules
    Cycle,
    CycleOf,        \* CycleOf[d][t]: cycle of t under schedule d, or NoCycle outside the window
    Pattern,        \* normalized descriptions
    PatternOf,      \* PatternOf[t]
    MinOccurrences, \* transactions it takes to suggest a pattern
    Request,        \* API requests that can be in flight at once
    NoCycle, NoPayment, NoTransaction, NoPattern, NoFile

ASSUME PaymentsAssumption ==
    /\ FileOf \in [Transaction -> File]
    /\ CycleOf \in [Due -> [Transaction -> Cycle \cup {NoCycle}]]
    /\ PatternOf \in [Transaction -> Pattern]
    /\ NoCycle \notin Cycle /\ NoPayment \notin Payment /\ NoFile \notin File
    /\ NoTransaction \notin Transaction /\ NoPattern \notin Pattern
    /\ MinOccurrences \in Nat \ {0}
    /\ Due # {} /\ IsFiniteSet(Request)
    /\ Pattern \cap (Payment \X Transaction) = {}

VARIABLES
    payments,    \* recurring_payments
    matches,     \* recurring_payment_matches, at most one per payment and transaction
    ingested,    \* transactions of committed statements
    suggestions, \* detection_suggestions, one per pattern
    worker,      \* where the worker is in the file it ingests
    flushed,     \* matches the worker has flushed and not committed
    api,         \* API requests in flight
    resolutions, \* history: how often a match or suggestion was resolved
    overlapped   \* history: those that two requests held unresolved at once

rows == <<payments, matches, ingested, suggestions>>
history == <<resolutions, overlapped>>
vars == <<rows, worker, flushed, api, history>>

----------------------------------------------------------------------------
(* Rows and local states.                                                  *)

PaymentRow == [state : {"unused", "kept", "deleted"}, due : Due, trusted : BOOLEAN]
Kept == {p \in Payment : payments[p].state = "kept"}

LiveStatus == {"pending", "approved", "auto_applied"}
MatchRow == [status : LiveStatus \cup {"rejected", "none"}, cycle : Cycle \cup {NoCycle}]
NoMatch == [status |-> "none", cycle |-> NoCycle]
MatchId == Payment \X Transaction

SuggestionStatus == {"none", "new", "dismissed", "added"}

\* "listing" is between transactions, "matching" the loop over the payments,
\* "inserting" between has_live_match and record_match.
WorkerStep == {"idle", "listing", "matching", "inserting", "failed"}
WorkerState == [step : WorkerStep, file : File \cup {NoFile}, todo : SUBSET Transaction,
                txn : Transaction \cup {NoTransaction}, listed : SUBSET Payment,
                payment : Payment \cup {NoPayment},
                loaded : [Payment -> PaymentRow], raced : BOOLEAN]

ResolveOp == {"approve", "reject", "dismiss", "add"}
RequestState == [op : {"idle", "delete"} \cup ResolveOp,
                 payment : Payment \cup {NoPayment},
                 txn : Transaction \cup {NoTransaction},
                 pattern : Pattern \cup {NoPattern}, gone : BOOLEAN]
Idle == [op |-> "idle", payment |-> NoPayment, txn |-> NoTransaction,
         pattern |-> NoPattern, gone |-> FALSE]

Item == MatchId \cup Pattern
HeldItem(q) == IF api[q].op \in {"approve", "reject"}
               THEN {<<api[q].payment, api[q].txn>>} ELSE {api[q].pattern} \ {NoPattern}

\* What uq_recurring_payment_matches_live_per_cycle indexes.
LiveIn(table, p, c) == {t \in Transaction : table[<<p, t>>].status \in LiveStatus /\ table[<<p, t>>].cycle = c}

----------------------------------------------------------------------------
(* Worker: ingesting a file matches each of its transactions.              *)

FreshWorker(p0) == [step |-> "idle", file |-> NoFile, todo |-> {}, txn |-> NoTransaction, listed |-> {},
                payment |-> NoPayment, loaded |-> p0, raced |-> FALSE]
Unloaded == [p \in Payment |-> [state |-> "unused", due |-> CHOOSE d \in Due : TRUE, trusted |-> FALSE]]
AtRest == FreshWorker(Unloaded)

BeginFile(f) ==
    /\ worker = AtRest
    /\ {t \in ingested : FileOf[t] = f} = {}
    /\ worker' = [worker EXCEPT !.step = "listing", !.file = f,
                                !.todo = {t \in Transaction : FileOf[t] = f}]
    /\ UNCHANGED <<rows, flushed, api, history>>

\* The rows are listed afresh for each transaction, but a row the session has
\* already loaded keeps the attributes it had then.
ListPayments(t) ==
    /\ worker.step = "listing" /\ t \in worker.todo
    /\ worker' = [worker EXCEPT
           !.step = "matching", !.txn = t, !.todo = @ \ {t}, !.listed = Kept,
           !.loaded = [p \in Payment |-> IF p \in Kept /\ @[p].state = "unused" THEN payments[p] ELSE @[p]]]
    /\ UNCHANGED <<rows, flushed, api, history>>

DueCycle(p) == CycleOf[worker.loaded[p].due][worker.txn]

\* Mutant: the query forgets auto-applied matches.
HasReviewableMatch(p, c) ==
    \E t \in LiveIn(matches, p, c) \cup LiveIn(flushed, p, c) :
        "auto_applied" \notin {matches[<<p, t>>].status, flushed[<<p, t>>].status}
HasLiveMatch(p, c) == LiveIn(matches, p, c) \cup LiveIn(flushed, p, c) # {}
IndexRefuses(p, c) == LiveIn(matches, p, c) \cup LiveIn(flushed, p, c) # {}

\* Outside the window, already settled, or not similar enough.
SkipPayment(p) ==
    /\ worker.step = "matching" /\ p \in worker.listed
    /\ worker' = [worker EXCEPT !.listed = @ \ {p}]
    /\ UNCHANGED <<rows, flushed, api, history>>

ChoosePayment(p) ==
    /\ worker.step = "matching" /\ p \in worker.listed
    /\ DueCycle(p) # NoCycle
    /\ ~HasLiveMatch(p, DueCycle(p))
    /\ worker' = [worker EXCEPT !.step = "inserting", !.listed = @ \ {p}, !.payment = p]
    /\ UNCHANGED <<rows, flushed, api, history>>

\* An amount out of tolerance leaves a trusted payment's match pending.
DecidedStatus(p) == IF worker.loaded[p].trusted THEN {"auto_applied", "pending"} ELSE {"pending"}

RecordMatch ==
    LET p == worker.payment
        c == DueCycle(p)
    IN  /\ worker.step = "inserting"
        /\ p \in Kept /\ ~IndexRefuses(p, c)
        /\ \E s \in DecidedStatus(p) :
               flushed' = [flushed EXCEPT ![<<p, worker.txn>>] = [status |-> s, cycle |-> c]]
        /\ worker' = [worker EXCEPT !.step = "matching", !.payment = NoPayment]
        /\ UNCHANGED <<rows, api, history>>

\* The foreign key or the partial unique index refuses the row: the savepoint
\* of the file is rolled back.
MatchRefused ==
    /\ worker.step = "inserting"
    /\ worker.payment \notin Kept \/ IndexRefuses(worker.payment, DueCycle(worker.payment))
    /\ worker' = [worker EXCEPT !.step = "failed"]
    /\ flushed' = [i \in MatchId |-> NoMatch]
    /\ UNCHANGED <<rows, api, history>>

NextTransaction ==
    /\ worker.step = "matching" /\ worker.listed = {} /\ worker.todo # {}
    /\ worker' = [worker EXCEPT !.step = "listing", !.txn = NoTransaction]
    /\ UNCHANGED <<rows, flushed, api, history>>

CommitFile ==
    /\ worker.step = "matching" /\ worker.listed = {} /\ worker.todo = {}
    /\ ingested' = ingested \cup {t \in Transaction : FileOf[t] = worker.file}
    /\ matches' = [i \in MatchId |-> IF flushed[i] # NoMatch THEN flushed[i] ELSE matches[i]]
    /\ flushed' = [i \in MatchId |-> NoMatch]
    /\ worker' = AtRest
    /\ UNCHANGED <<payments, suggestions, api, history>>

\* The failed file is recorded, or the worker crashes: nothing of it is kept.
AbandonFile ==
    /\ worker # AtRest
    /\ worker' = AtRest
    /\ flushed' = [i \in MatchId |-> NoMatch]
    /\ UNCHANGED <<rows, api, history>>

----------------------------------------------------------------------------
(* Worker: removals and the detection scan.                                *)

\* delete_statements deletes the matches with their transactions; a request
\* that holds one of them will find its row gone.
RemoveStatement(f) ==
    LET gone == {t \in ingested : FileOf[t] = f}
    IN  /\ worker = AtRest /\ gone # {}
        /\ ingested' = ingested \ gone
        /\ matches' = [i \in MatchId |-> IF i[2] \in gone THEN NoMatch ELSE matches[i]]
        /\ api' = [q \in Request |-> IF api[q].txn \in gone THEN [api[q] EXCEPT !.gone = TRUE] ELSE api[q]]
        /\ resolutions' = [i \in Item |-> IF i \in Payment \X gone THEN 0 ELSE resolutions[i]]
        /\ overlapped' = overlapped \ (Payment \X gone)
        /\ UNCHANGED <<payments, suggestions, worker, flushed>>

\* Patterns whose embeddings are alike are merged under the key of one of
\* them; with the endpoint down each stays alone.
Merged(root) == \A k \in Pattern : root[root[k]] = root[k]
Matched == {t \in Transaction : \E p \in Payment : matches[<<p, t>>] # NoMatch}
Occurrences(root, k) == {t \in ingested \ Matched : root[PatternOf[t]] = k}

Recurring(root, k) == Cardinality(Occurrences(root, k)) >= MinOccurrences
\* Whether the cadence and the amounts fit is a choice of the scan below.
Suggestible(root, k) == Recurring(root, k) /\ suggestions[k] = "none"

DetectionScan ==
    /\ worker = AtRest
    /\ \E root \in {r \in [Pattern -> Pattern] : Merged(r)} :
           \E found \in SUBSET {k \in Pattern : Suggestible(root, k)} :
               suggestions' = [k \in Pattern |-> IF k \in found THEN "new" ELSE suggestions[k]]
    /\ UNCHANGED <<payments, matches, ingested, worker, flushed, api, history>>

----------------------------------------------------------------------------
(* API: the register.                                                      *)

Created(d) == [state |-> "kept", due |-> d, trusted |-> FALSE]

\* A bulk import is as many of these as it has valid rows, in one transaction.
CreatePayments(S, d) ==
    /\ S # {} /\ \A p \in S : payments[p].state = "unused"
    /\ payments' = [p \in Payment |-> IF p \in S THEN Created(d) ELSE payments[p]]
    /\ UNCHANGED <<matches, ingested, suggestions, worker, flushed, api, history>>

\* Writes the columns that differ from the row it has just loaded; is_trusted
\* is never one of them.
UpdatePayment(p, d) ==
    /\ p \in Kept
    /\ payments' = [payments EXCEPT ![p].due = d]
    /\ UNCHANGED <<matches, ingested, suggestions, worker, flushed, api, history>>

LoadPayment(q, p) ==
    /\ api[q] = Idle /\ p \in Kept
    /\ api' = [api EXCEPT ![q] = [Idle EXCEPT !.op = "delete", !.payment = p]]
    /\ UNCHANGED <<rows, worker, flushed, history>>

\* The relationship to the matches has no delete cascade: deleting a payment
\* with matches sets their foreign key to NULL, which the column refuses.  A
\* match that is flushed and not committed holds the payment's row locked.
HasMatches(table, p) == \E t \in Transaction : table[<<p, t>>] # NoMatch
Raced(w) == [w EXCEPT !.raced = @ \/ w.step # "idle"]

DeletePayment(q) ==
    LET p == api[q].payment
    IN  /\ api[q].op = "delete" /\ p \in Kept
        /\ ~HasMatches(matches, p) /\ ~HasMatches(flushed, p)
        /\ payments' = [payments EXCEPT ![p].state = "deleted"]
        /\ worker' = Raced(worker)
        /\ api' = [api EXCEPT ![q] = Idle]
        /\ UNCHANGED <<matches, ingested, suggestions, flushed, history>>

\* The row is gone, or has matches: the request answers an error.
RefuseDeletion(q) ==
    LET p == api[q].payment
    IN  /\ api[q].op = "delete"
        /\ p \notin Kept \/ HasMatches(matches, p)
        /\ api' = [api EXCEPT ![q] = Idle]
        /\ UNCHANGED <<rows, worker, flushed, history>>

----------------------------------------------------------------------------
(* API: reviewing matches and suggestions.                                 *)

Hold(q, r, item) ==
    /\ api[q] = Idle
    /\ api' = [api EXCEPT ![q] = r]
    /\ overlapped' = IF \E o \in Request \ {q} : item \in HeldItem(o) /\ ~api[o].gone
                     THEN overlapped \cup {item} ELSE overlapped
    /\ UNCHANGED <<rows, worker, flushed, resolutions>>

\* Mutant: any live match may be reviewed.
LoadLiveMatch(q, op, p, t) ==
    /\ matches[<<p, t>>].status \in LiveStatus
    /\ Hold(q, [Idle EXCEPT !.op = op, !.payment = p, !.txn = t], <<p, t>>)

LoadMatch(q, op, p, t) ==
    /\ matches[<<p, t>>].status = "pending"
    /\ Hold(q, [Idle EXCEPT !.op = op, !.payment = p, !.txn = t], <<p, t>>)

LoadSuggestion(q, op, k) ==
    /\ suggestions[k] = "new"
    /\ Hold(q, [Idle EXCEPT !.op = op, !.pattern = k], k)

Resolved(item) == resolutions' = [resolutions EXCEPT ![item] = @ + 1]

\* Approving a match that another request has rejected makes it live again:
\* the index waits for the worker's flushed match and refuses a committed one.
ApproveMatch(q) ==
    LET p == api[q].payment
        t == api[q].txn
        c == matches[<<p, t>>].cycle
    IN  /\ api[q].op = "approve" /\ ~api[q].gone
        /\ LiveIn(matches, p, c) \subseteq {t} /\ LiveIn(flushed, p, c) = {}
        /\ matches' = [matches EXCEPT ![<<p, t>>].status = "approved"]
        /\ payments' = [payments EXCEPT ![p].trusted = TRUE]
        /\ worker' = Raced(worker)
        /\ api' = [api EXCEPT ![q] = Idle]
        /\ Resolved(<<p, t>>)
        /\ UNCHANGED <<ingested, suggestions, flushed, overlapped>>

RejectMatch(q) ==
    LET p == api[q].payment
        t == api[q].txn
    IN  /\ api[q].op = "reject" /\ ~api[q].gone
        /\ matches' = [matches EXCEPT ![<<p, t>>].status = "rejected"]
        /\ api' = [api EXCEPT ![q] = Idle]
        /\ Resolved(<<p, t>>)
        /\ UNCHANGED <<payments, ingested, suggestions, worker, flushed, overlapped>>

\* The row has gone with its statement, or the index refuses the approval.
DropReview(q) ==
    LET p == api[q].payment
        t == api[q].txn
    IN  /\ api[q].op \in {"approve", "reject"}
        /\ api[q].gone \/ (api[q].op = "approve" /\ LiveIn(matches, p, matches[<<p, t>>].cycle) \ {t} # {})
        /\ api' = [api EXCEPT ![q] = Idle]
        /\ UNCHANGED <<rows, worker, flushed, history>>

DismissSuggestion(q) ==
    /\ api[q].op = "dismiss"
    /\ suggestions' = [suggestions EXCEPT ![api[q].pattern] = "dismissed"]
    /\ api' = [api EXCEPT ![q] = Idle]
    /\ Resolved(api[q].pattern)
    /\ UNCHANGED <<payments, matches, ingested, worker, flushed, overlapped>>

AddSuggestion(q, p, d) ==
    /\ api[q].op = "add" /\ payments[p].state = "unused"
    /\ payments' = [payments EXCEPT ![p] = Created(d)]
    /\ suggestions' = [suggestions EXCEPT ![api[q].pattern] = "added"]
    /\ api' = [api EXCEPT ![q] = Idle]
    /\ Resolved(api[q].pattern)
    /\ UNCHANGED <<matches, ingested, worker, flushed, overlapped>>

----------------------------------------------------------------------------
Init ==
    /\ payments = Unloaded
    /\ matches = [i \in MatchId |-> NoMatch]
    /\ ingested = {}
    /\ suggestions = [k \in Pattern |-> "none"]
    /\ worker = AtRest
    /\ flushed = [i \in MatchId |-> NoMatch]
    /\ api = [q \in Request |-> Idle]
    /\ resolutions = [i \in Item |-> 0]
    /\ overlapped = {}

Ingest ==
    \/ \E f \in File : BeginFile(f)
    \/ \E t \in Transaction : ListPayments(t)
    \/ \E p \in Payment : SkipPayment(p) \/ ChoosePayment(p)
    \/ RecordMatch \/ MatchRefused \/ NextTransaction \/ CommitFile \/ AbandonFile

Register ==
    \/ \E S \in SUBSET Payment, d \in Due : CreatePayments(S, d)
    \/ \E p \in Payment, d \in Due : UpdatePayment(p, d)
    \/ \E q \in Request, p \in Payment : LoadPayment(q, p)
    \/ \E q \in Request : DeletePayment(q) \/ RefuseDeletion(q)

Review ==
    \/ \E q \in Request, op \in {"approve", "reject"}, p \in Payment, t \in Transaction : LoadMatch(q, op, p, t)
    \/ \E q \in Request, op \in {"dismiss", "add"}, k \in Pattern : LoadSuggestion(q, op, k)
    \/ \E q \in Request : ApproveMatch(q) \/ RejectMatch(q) \/ DropReview(q) \/ DismissSuggestion(q)
    \/ \E q \in Request, p \in Payment, d \in Due : AddSuggestion(q, p, d)

Next == Ingest \/ (\E f \in File : RemoveStatement(f)) \/ DetectionScan \/ Register \/ Review

Spec == Init /\ [][Next]_vars

----------------------------------------------------------------------------
(* Properties.                                                             *)

\* The rows and the local states have their types.
TypeOK ==
    /\ payments \in [Payment -> PaymentRow]
    /\ matches \in [MatchId -> MatchRow] /\ flushed \in [MatchId -> MatchRow]
    /\ ingested \subseteq Transaction
    /\ suggestions \in [Pattern -> SuggestionStatus]
    /\ worker \in WorkerState
    /\ api \in [Request -> RequestState]
    /\ resolutions \in [Item -> Nat] /\ overlapped \subseteq Item

\* The database refuses a match, and the file fails with it, only when a
\* request deleted a payment or approved a match while the file was ingested:
\* has_live_match leaves nothing else for the index to refuse, also between
\* two transactions of one file (recurring_payments/service.py, match_new_transaction).
FilesFailOnlyWhenRaced == worker.step = "failed" => worker.raced

\* BR-23 as far as the code keeps it: a match or a suggestion is resolved once,
\* unless two requests held it unresolved at the same time; re-scans, new
\* matches and removals never offer a resolved one again.
ResolvedOnceUnlessRaced ==
    \A i \in Item : resolutions[i] <= (IF i \in overlapped THEN Cardinality(Request) ELSE 1)

\* A cycle that is approved or auto-applied stays matched until the statement
\* of its transaction is removed: no later match, review, change of schedule or
\* deletion unsettles it, except a rejection that overlapped the approval.
SettledCyclesStay ==
    [][\A i \in MatchId :
           matches[i].status \in {"approved", "auto_applied"} =>
               \/ LiveIn(matches', i[1], matches[i].cycle) # {}
               \/ i[2] \notin ingested'
               \/ i \in overlapped]_vars

\* Deleting a payment that is there removes it; its matches remain as history.
\* The handler cannot: clearing the matches' foreign key is refused
\* (recurring_payments/repository.py, delete_recurring_payment).
DeletionSucceeds ==
    [][\A q \in Request :
           api[q].op = "delete" /\ api'[q] = Idle /\ api[q].payment \in Kept =>
               payments'[api[q].payment].state = "deleted"]_vars

============================================================================
