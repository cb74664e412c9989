------------------------------ MODULE Backfill ------------------------------
(***************************************************************************)
(* The Backfill Tool: dry run, verified backup, wipe, empty vector         *)
(* collection, reingest; then finish, or restore.  An operator runs it     *)
(* with the worker stopped while the user goes on working in the app.      *)
(*                                                                         *)
(* A statement stands for its one transaction (date, amount and direction  *)
(* are those of its copies; the text is read anew from the PDF).  Its      *)
(* transaction is an old or a new one: a statement re-read has converted.  *)
(***************************************************************************)
EXTENDS Naturals, FiniteSets, Sequences, SequencesExt, Corrections

CONSTANTS
    Hash,            \* contents of statements and of PDFs
    Rank,            \* Rank[h]: the order in which they were first ingested
    Duplicate,       \* pairs the rule of the duplicates flags
    Comparable,      \* those of comparable sizes
    Start,           \* [drive, converted, corrected, dismissed]: where a run begins
    Text,            \* what a description can read as; the stored one is among them
    Stored,          \* the text stored before the backfill
    NoHash,
    MaxEvents        \* bound: the user's steps, faults, crashes and restores, together

Automatic == 0
Edited == Cardinality(Hash) + 1
Category == 0 .. Edited           \* Rank[h] is what the user once chose for h
PairStatus == {"none", "pending", "dismissed", "superseded"}

ASSUME BackfillAssumption ==
    /\ IsFiniteSet(Hash)
    /\ Rank \in [Hash -> 1 .. Cardinality(Hash)] /\ \A a, b \in Hash : Rank[a] = Rank[b] => a = b
    /\ \A p \in Duplicate : \E a, b \in Hash : a # b /\ p = {a, b}
    /\ Comparable \subseteq Duplicate
    /\ NoHash \notin Hash /\ Stored \in Text

VARIABLES
    drive,        \* PDFs in the Drive folder
    statements,   \* bank_statements with their transaction
    pairs,        \* duplicate_pairs.status
    known,        \* known_files: the statement a skipped copy stands behind
    vectors,      \* [exists, points] of the transactions collection
    run,          \* the one active ingestion run: its state and the files it has still to read
    jobs,         \* whether a recategorization job is queued or running
    service,      \* whether the ingestion-worker service runs
    tool,         \* the Backfill Tool's step, its wipe set and the skips it plans
    backup,       \* the last verified backup
    late,         \* history: what the user did between a plan or a snapshot and the wipe
    cut,          \* history: a run ended between the wipe and the reset of the embeddings
    events        \* user's steps, faults, crashes and restores so far

vars == <<drive, statements, pairs, known, vectors, run, jobs, service, tool, backup, late, cut, events>>

Row == [converted : BOOLEAN, text : Text, category : Category, manual : BOOLEAN, embedded : BOOLEAN]
NoRow == [absent |-> TRUE]
Held == {h \in Hash : statements[h] # NoRow}
Resting == [step |-> "idle", wipe |-> {}, skips |-> {}]
NoBackup == [taken |-> FALSE, statements |-> statements, pairs |-> pairs, known |-> known, wipe |-> {}]
NotLate == [corrected |-> {}, dismissed |-> {}]

Counted == events < MaxEvents /\ events' = events + 1

----------------------------------------------------------------------------
(* The worker service, started and stopped by the operator.                *)

\* Startup: runs left over are failed, a missing collection is created empty.
StartService ==
    /\ ~service /\ tool.step = "idle"
    /\ service' = TRUE
    /\ run' = IF run.state = "running" THEN [state |-> "none", todo |-> {}] ELSE run
    /\ vectors' = [vectors EXCEPT !.exists = TRUE]
    /\ UNCHANGED <<drive, statements, pairs, known, jobs, tool, backup, late, cut, events>>

StopService ==
    /\ service
    /\ service' = FALSE
    /\ UNCHANGED <<drive, statements, pairs, known, vectors, run, jobs, tool, backup, late, cut, events>>

ClaimRun ==
    /\ service /\ run.state = "queued"
    /\ run' = [state |-> "running", todo |-> drive]
    /\ UNCHANGED <<drive, statements, pairs, known, vectors, jobs, service, tool, backup, late, cut, events>>

RunJobs ==
    /\ service /\ run.state = "none" /\ jobs
    /\ jobs' = FALSE
    /\ UNCHANGED <<drive, statements, pairs, known, vectors, run, service, tool, backup, late, cut, events>>

EmbedBatch ==
    /\ service /\ run.state = "none" /\ ~jobs /\ vectors.exists
    /\ \E h \in Held : ~statements[h].embedded
    /\ statements' = [h \in Hash |-> IF h \in Held THEN [statements[h] EXCEPT !.embedded = TRUE] ELSE NoRow]
    /\ vectors' = [vectors EXCEPT !.points = @ \cup {<<h, statements[h].converted>> : h \in Held}]
    /\ UNCHANGED <<drive, pairs, known, run, jobs, service, tool, backup, late, cut, events>>

----------------------------------------------------------------------------
(* One file of an ingestion run, the worker's or the tool's.               *)

Reads(h) == run.state = "running" /\ h \in run.todo /\ (service \/ tool.step = "reingesting")
Done(h) == run' = [run EXCEPT !.todo = @ \ {h}]

\* Held already, or remembered as the copy of another.
SkipFile(h) ==
    /\ Reads(h) /\ (h \in Held \/ known[h] # NoHash)
    /\ Done(h)
    /\ UNCHANGED <<drive, statements, pairs, known, vectors, jobs, service, tool, backup, late, cut, events>>

Matches(h) == {k \in Held : {h, k} \in Duplicate /\ pairs[{h, k}] # "dismissed"}

\* The tool's reingest does not skip a copy whose best match is of a clearly
\* different size.
Skips(h, k) == tool.step = "reingesting" => {h, k} \in Comparable

\* Which of several matches is the best is a free choice.
SkipProbableDuplicate(h) ==
    /\ Reads(h) /\ h \notin Held /\ known[h] = NoHash
    /\ \E k \in Matches(h) : Skips(h, k) /\ known' = [known EXCEPT ![h] = k]
    /\ Done(h)
    /\ UNCHANGED <<drive, statements, pairs, vectors, jobs, service, tool, backup, late, cut, events>>

Ingested(h) ==
    \E t \in Text :
        statements' = [statements EXCEPT ![h] =
            [converted |-> TRUE, text |-> t, category |-> Automatic, manual |-> FALSE, embedded |-> FALSE]]

IngestFile(h) ==
    /\ Reads(h) /\ h \notin Held /\ known[h] = NoHash
    /\ Matches(h) = {} \/ \E k \in Matches(h) : ~Skips(h, k)
    /\ Ingested(h)
    /\ Done(h)
    /\ UNCHANGED <<drive, pairs, known, vectors, jobs, service, tool, backup, late, cut, events>>

\* The check for duplicates failed, and never blocks a statement.
IngestUnchecked(h) ==
    /\ Reads(h) /\ h \notin Held /\ known[h] = NoHash /\ Matches(h) # {}
    /\ Counted
    /\ Ingested(h)
    /\ Done(h)
    /\ UNCHANGED <<drive, pairs, known, vectors, jobs, service, tool, backup, late, cut>>

FailFile(h) ==
    /\ Reads(h) /\ h \notin Held /\ known[h] = NoHash
    /\ Counted
    /\ Done(h)
    /\ UNCHANGED <<drive, statements, pairs, known, vectors, jobs, service, tool, backup, late, cut>>

CompleteRun ==
    /\ run.state = "running" /\ run.todo = {} /\ (service \/ tool.step = "reingesting")
    /\ run' = [state |-> "none", todo |-> {}]
    /\ tool' = IF tool.step = "reingesting" THEN Resting ELSE tool
    /\ UNCHANGED <<drive, statements, pairs, known, vectors, jobs, service, backup, late, cut, events>>

----------------------------------------------------------------------------
(* run: dry run, backup, wipe, vectors, reingest.                          *)

\* Mutant of WipeSet: statements whose PDF is gone are wiped as well.
WipeSetWithoutPdf == {h \in Held : ~statements[h].converted}

WipeSet == {h \in Held : ~statements[h].converted /\ h \in drive}

\* The copy with manual corrections, else the one ingested first.
Kept(p) == CHOOSE k \in p : \A h \in p :
    \/ statements[k].manual /\ ~statements[h].manual
    \/ statements[k].manual = statements[h].manual /\ Rank[k] <= Rank[h]
Skipped(p) == CHOOSE h \in p : h # Kept(p)

Findings == {p \in Duplicate : p \subseteq Held}

\* Mutants of Plannable: the decisions on pairs are not consulted; a copy that
\* is not re-read is skipped; a pair of different sizes is skipped.
PlannableUndecided(p) == p \in Comparable /\ Skipped(p) \in WipeSet

Plannable(p) == p \in Comparable /\ pairs[p] \notin {"dismissed", "superseded"} /\ Skipped(p) \in WipeSet

\* One skip for each copy: of several, the one with the first kept hash.
SkipPlan ==
    {<<Skipped(p), Kept(p)>> : p \in {q \in Findings : Plannable(q) /\
        \A o \in Findings : Plannable(o) /\ Skipped(o) = Skipped(q) => Rank[Kept(q)] <= Rank[Kept(o)]}}

DryRun ==
    /\ tool.step = "idle" /\ ~service
    /\ run.state = "none" /\ ~jobs
    /\ WipeSet # {}
    /\ tool' = [step |-> "planned", wipe |-> WipeSet, skips |-> SkipPlan]
    /\ late' = NotLate
    /\ UNCHANGED <<drive, statements, pairs, known, vectors, run, jobs, service, backup, cut, events>>

\* Nothing to wipe: straight to the reingest.
DryRunOfNothing ==
    /\ tool.step = "idle" /\ ~service
    /\ run.state = "none" /\ ~jobs
    /\ WipeSet = {}
    /\ tool' = [Resting EXCEPT !.step = "starting"]
    /\ UNCHANGED <<drive, statements, pairs, known, vectors, run, jobs, service, backup, late, cut, events>>

\* One snapshot of all tables, uploaded and verified.
BackUp ==
    /\ tool.step = "planned"
    /\ backup' = [taken |-> TRUE, statements |-> statements, pairs |-> pairs, known |-> known, wipe |-> tool.wipe]
    /\ tool' = [tool EXCEPT !.step = "confirming"]
    /\ late' = [late EXCEPT !.corrected = {}]
    /\ UNCHANGED <<drive, statements, pairs, known, vectors, run, jobs, service, cut, events>>

\* The backup cannot be verified, or the phrase typed is another.
Refuse ==
    /\ tool.step \in {"planned", "confirming"}
    /\ tool' = Resting
    /\ UNCHANGED <<drive, statements, pairs, known, vectors, run, jobs, service, backup, late, cut, events>>

\* Mutant of ReadyToWipe: the confirmation does not wait for the backup.
ReadyToWipeUnsaved == tool.step \in {"planned", "confirming"}

\* The counts of the dry run still hold, else all is rolled back (which waits
\* for the worker to be started meanwhile: only it deletes statements).
ReadyToWipe == tool.step = "confirming" /\ tool.wipe \subseteq Held

Registered == {s[1] : s \in tool.skips}

KeptFor(h) == (CHOOSE s \in tool.skips : s[1] = h)[2]

\* The skips are registered and the statements wiped in one transaction.
Wipe ==
    /\ ReadyToWipe
    /\ known' = [h \in Hash |-> IF h \in Registered /\ known[h] = NoHash THEN KeptFor(h) ELSE known[h]]
    /\ pairs' = [p \in Duplicate |->
          IF pairs[p] = "pending" /\ \E s \in tool.skips : p = {s[1], s[2]} THEN "superseded" ELSE pairs[p]]
    /\ statements' = [h \in Hash |-> IF h \in tool.wipe THEN NoRow ELSE statements[h]]
    /\ tool' = [tool EXCEPT !.step = "wiped"]
    /\ UNCHANGED <<drive, vectors, run, jobs, service, backup, late, cut, events>>

EmptyCollection == [exists |-> TRUE, points |-> {}]

RecreateCollection ==
    /\ tool.step = "wiped"
    /\ vectors' = EmptyCollection
    /\ tool' = [tool EXCEPT !.step = "recreated"]
    /\ UNCHANGED <<drive, statements, pairs, known, run, jobs, service, backup, late, cut, events>>

\* Three attempts failed, the collection perhaps dropped and not created.
RecreationFails ==
    /\ tool.step = "wiped"
    /\ Counted
    /\ vectors' \in {vectors, [exists |-> FALSE, points |-> {}]}
    /\ tool' = Resting /\ cut' = TRUE
    /\ UNCHANGED <<drive, statements, pairs, known, run, jobs, service, backup, late>>

\* Mutant of ToReembed: only what was re-read is embedded again.
ToReembedConverted == {h \in Held : statements[h].converted}

ToReembed == Held

ResetEmbeddings ==
    /\ tool.step = "recreated"
    /\ statements' = [h \in Hash |-> IF h \in ToReembed THEN [statements[h] EXCEPT !.embedded = FALSE] ELSE statements[h]]
    /\ tool' = [tool EXCEPT !.step = "starting"]
    /\ UNCHANGED <<drive, pairs, known, vectors, run, jobs, service, backup, late, cut, events>>

StartReingest ==
    /\ tool.step = "starting" /\ run.state = "none"
    /\ run' = [state |-> "running", todo |-> drive]
    /\ tool' = [tool EXCEPT !.step = "reingesting"]
    /\ UNCHANGED <<drive, statements, pairs, known, vectors, jobs, service, backup, late, cut, events>>

\* The unique index on active runs: the user's run is queued already.
StartRefused ==
    /\ tool.step = "starting" /\ run.state # "none"
    /\ tool' = Resting
    /\ UNCHANGED <<drive, statements, pairs, known, vectors, run, jobs, service, backup, late, cut, events>>

Crash ==
    /\ tool.step # "idle"
    /\ Counted
    /\ tool' = Resting
    /\ cut' = (cut \/ tool.step \in {"wiped", "recreated"})
    /\ UNCHANGED <<drive, statements, pairs, known, vectors, run, jobs, service, backup, late>>

----------------------------------------------------------------------------
(* finish and restore.                                                     *)

\* The statement that stands for a hash, along skipped copies.
StandsFor[n \in 0 .. Cardinality(Hash), h \in Hash] ==
    IF h \in Held THEN h
    ELSE IF n = 0 \/ known[h] = NoHash THEN NoHash
    ELSE StandsFor[n - 1, known[h]]
KeptTarget(h) == StandsFor[Cardinality(Hash), h]

\* Mutant of Captured: corrections are taken from the statements as they are.
CapturedNow == {h \in backup.wipe : h \in Held /\ statements[h].manual}

Captured == {h \in backup.wipe : backup.statements[h].manual}

\* The corrections for a statement: its own and those of copies skipped for it.
CorrectionsFor(k) ==
    LET own == {h \in Captured : h = k}
        carried == {h \in Captured : h # k /\ KeptTarget(h) = k}
    IN  SetToSeq({[text |-> backup.statements[h].text, category |-> backup.statements[h].category, carried |-> h \in carried] :
                    h \in own \cup carried})


Finish ==
    /\ tool.step = "idle" /\ backup.taken
    /\ statements' = [h \in Hash |->
          IF h \in Held THEN Applied(<<statements[h]>>, CorrectionsFor(h))[1] ELSE NoRow]
    /\ UNCHANGED <<drive, pairs, known, vectors, run, jobs, service, tool, backup, late, cut, events>>

\* The tables as they were, all to be embedded; then the collection.
Restore ==
    /\ tool.step = "idle" /\ backup.taken
    /\ Counted
    /\ statements' = [h \in Hash |->
          IF backup.statements[h] = NoRow THEN NoRow ELSE [backup.statements[h] EXCEPT !.embedded = FALSE]]
    /\ pairs' = backup.pairs /\ known' = backup.known
    /\ jobs' = FALSE
    /\ vectors' \in {EmptyCollection, vectors, [exists |-> FALSE, points |-> {}]}
    /\ UNCHANGED <<drive, run, service, tool, backup, late, cut>>

----------------------------------------------------------------------------
(* The user, through the API.                                              *)

CorrectCategory(h) ==
    /\ h \in Held /\ statements[h].category # Edited
    /\ Counted
    /\ statements' = [statements EXCEPT ![h].category = Edited, ![h].manual = TRUE]
    /\ jobs' = TRUE
    /\ late' = [late EXCEPT !.corrected = @ \cup {h}]
    /\ UNCHANGED <<drive, pairs, known, vectors, run, service, tool, backup, cut>>

DismissPair(p) ==
    /\ pairs[p] = "pending"
    /\ Counted
    /\ pairs' = [pairs EXCEPT ![p] = "dismissed"]
    /\ late' = [late EXCEPT !.dismissed = @ \cup {p}]
    /\ UNCHANGED <<drive, statements, known, vectors, run, jobs, service, tool, backup, cut>>

TriggerRun ==
    /\ run.state = "none"
    /\ Counted
    /\ run' = [state |-> "queued", todo |-> {}]
    /\ UNCHANGED <<drive, statements, pairs, known, vectors, jobs, service, tool, backup, late, cut>>

----------------------------------------------------------------------------
(* Specification                                                           *)

\* Statements with their PDFs or without, converted or not, and what the user
\* had decided before; all embedded.
Begin(s) ==
    /\ drive = s.drive
    /\ statements = [h \in Hash |-> [converted |-> h \in s.converted, text |-> Stored, manual |-> h \in s.corrected,
                         category |-> IF h \in s.corrected THEN Rank[h] ELSE Automatic, embedded |-> TRUE]]
    /\ pairs = [p \in Duplicate |-> IF p \in s.dismissed THEN "dismissed" ELSE "pending"]
    /\ known = [h \in Hash |-> NoHash]
    /\ vectors = [exists |-> TRUE, points |-> {<<h, h \in s.converted>> : h \in Hash}]

Init ==
    /\ \E s \in Start : Begin(s)
    /\ run = [state |-> "none", todo |-> {}]
    /\ jobs = FALSE /\ service = FALSE
    /\ tool = Resting
    /\ backup = NoBackup
    /\ late = NotLate /\ cut = FALSE
    /\ events = 0

Service == StartService \/ StopService \/ ClaimRun \/ RunJobs \/ EmbedBatch
File(h) == SkipFile(h) \/ SkipProbableDuplicate(h) \/ IngestFile(h) \/ IngestUnchecked(h) \/ FailFile(h)
Run == DryRun \/ DryRunOfNothing \/ BackUp \/ Refuse \/ Wipe \/ RecreateCollection \/ RecreationFails
       \/ ResetEmbeddings \/ StartReingest \/ StartRefused \/ Crash
User(h) == CorrectCategory(h) \/ TriggerRun

Next ==
    \/ Service \/ CompleteRun \/ Run \/ Finish \/ Restore
    \/ \E h \in Hash : File(h) \/ User(h)
    \/ \E p \in Duplicate : DismissPair(p)

Spec == Init /\ [][Next]_vars

----------------------------------------------------------------------------
(* Properties *)

TypeOK ==
    /\ drive \subseteq Hash
    /\ statements \in [Hash -> Row \cup {NoRow}]
    /\ pairs \in [Duplicate -> PairStatus]
    /\ known \in [Hash -> Hash \cup {NoHash}]
    /\ vectors \in [exists : BOOLEAN, points : SUBSET (Hash \X BOOLEAN)]
    /\ run \in [state : {"none", "queued", "running"}, todo : SUBSET Hash]
    /\ jobs \in BOOLEAN /\ service \in BOOLEAN
    /\ tool \in [step : {"idle", "planned", "confirming", "wiped", "recreated", "starting", "reingesting"},
                 wipe : SUBSET Hash, skips : SUBSET (Hash \X Hash)]

\* Whatever is interrupted, every statement there was is held, or is a PDF a
\* run will read, or is skipped for one that is: no set of hashes refers only to
\* itself or to PDFs that are gone (backfill/service.py:62,
\* backfill/duplicates.py:37).
NoStatementLost ==
    \A lost \in (SUBSET Hash) \ {{}} :
        \E h \in lost :
            \/ h \in Held
            \/ known[h] = NoHash /\ h \in drive
            \/ known[h] # NoHash /\ known[h] \notin lost

\* The tool wipes no manual correction that its verified backup does not hold as
\* it is, except those made after the snapshot (backfill/service.py:248).
CorrectionsBackedUp ==
    [][\A h \in Hash :
        (tool.step # "idle" /\ h \in Held /\ statements'[h] = NoRow /\ statements[h].manual) =>
            \/ backup.taken /\ h \in backup.wipe /\ backup.statements[h] = statements[h]
            \/ h \in late.corrected]_vars

\* A file is never remembered as the copy of one the user said it is not a copy
\* of, except when that was said after the dry run (backfill/duplicates.py:48).
DismissalsHonoured ==
    [][\A p \in Duplicate :
        (pairs[p] = "dismissed" /\ tool.step # "idle" /\ p \notin late.dismissed) =>
            /\ pairs'[p] = "dismissed"
            /\ \A h \in p : known'[h] \in p => known[h] = known'[h]]_vars

\* A statement re-read with the same text gets its own correction back and never
\* one carried over instead (backfill/corrections.py:140).
OwnCorrectionsReturn ==
    [][Finish => \A h \in backup.wipe \cap Held :
        (backup.statements[h].manual /\ statements[h].text = backup.statements[h].text) =>
            statements'[h].manual /\ statements'[h].category = backup.statements[h].category]_vars

\* A transaction marked embedded has its vector, unless a run was cut off
\* between the wipe and the reset (backfill/service.py:184).
EmbeddedHasVector ==
    (tool.step \notin {"wiped", "recreated"} /\ ~cut) =>
        \A h \in Held : statements[h].embedded => vectors.exists /\ <<h, statements[h].converted>> \in vectors.points

\* The documented rule that a carried correction is applied only to a
\* transaction not already corrected (backfill/corrections.py:190).
CarriedNeverOverwrites ==
    [][Finish => \A h \in Held \ Captured : statements[h].manual => statements'[h].category = statements[h].category]_vars

\* The documented claim that running the tool again after it was interrupted is
\* safe: once it has run through, what is marked embedded has its vector.
RerunRepairs ==
    [][CompleteRun /\ tool.step = "reingesting" =>
        \A h \in Held : statements[h].embedded => vectors.exists /\ <<h, statements[h].converted>> \in vectors.points]_vars
==============================================================================
